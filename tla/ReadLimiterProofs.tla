------------------------- MODULE ReadLimiterProofs -------------------------
(***************************************************************************)
(* Proofs about ReadLimiter, for every number of readers, relays and       *)
(* slots.  The safety properties are not inductive by themselves: that a   *)
(* count is the number of holders needs to know that the reader woken up   *)
(* by a release is not a holder already, hence that the queues hold the    *)
(* suspended calls, and that a call asks for a relay it has not acquired,  *)
(* hence that it takes its relays in ascending order (TargetInOrder).      *)
(***************************************************************************)
EXTENDS ReadLimiter, FiniteSetTheorems, SequenceTheorems, WellFoundedInduction, TLAPS

\* A call in progress asks for the smallest relay of its list that it has not
\* acquired; a call that has not started owns nothing.
TargetInOrder ==
  \A r \in Readers :
    /\ phase[r] = "idle" => acquired[r] = {}
    /\ phase[r] \in {"queued", "granted", "rejected"} =>
         /\ target[r] \in want[r] \ acquired[r]
         /\ \A y \in want[r] \ acquired[r] : target[r] <= y
         /\ \A y \in acquired[r] : y < target[r]

Shape == /\ active \in [Relays -> Int]
         /\ queues \in [Relays -> Seq(Readers)]
         /\ phase \in [Readers -> Phases]
         /\ want \in [Readers -> SUBSET Relays]
         /\ acquired \in [Readers -> SUBSET Relays]
         /\ target \in [Readers -> Relays]
         /\ aborted \in [Readers -> BOOLEAN]
         /\ closed \in BOOLEAN

Bounded == \A x \in Relays : active[x] <= Max

IInv == /\ Shape
        /\ TargetInOrder
        /\ QueuesMatchWaiters
        /\ SlotAccounting
        /\ Bounded
        /\ NoLostWakeup

----------------------------------------------------------------------------
(* Finite sets of relays have a smallest and a largest member. *)

LEMMA SmallestRelay ==
  ASSUME NEW S \in SUBSET Nat, S # {}
  PROVE  \E x \in S : \A y \in S : x <= y
<1>1. \E x \in S : \A y \in S : ~ (<<y, x>> \in OpToRel(<, Nat))
  BY NatLessThanWellFounded, WFMin
<1>2. PICK x \in S : \A y \in S : ~ (<<y, x>> \in OpToRel(<, Nat))
  BY <1>1
<1>3. \A y \in S : ~ (y < x)
  <2> SUFFICES ASSUME NEW y \in S, y < x PROVE FALSE
    OBVIOUS
  <2>1. <<y, x>> \in OpToRel(<, Nat)
    BY DEF OpToRel
  <2> QED BY <2>1, <1>2
<1> QED BY <1>3

LEMMA LargestRelay ==
  ASSUME NEW S \in SUBSET Relays, S # {}
  PROVE  \E x \in S : \A y \in S : y <= x
<1> DEFINE T == {RelayCount - x : x \in S}
<1>1. T \in SUBSET Nat /\ T # {}
  <2>1. \A x \in S : RelayCount - x \in Nat
    BY RelayCountAssumption DEF Relays
  <2>2. PICK x \in S : TRUE
    OBVIOUS
  <2>3. RelayCount - x \in T
    OBVIOUS
  <2> QED BY <2>1, <2>3
<1>2. PICK t \in T : \A u \in T : t <= u
  <2> HIDE DEF T
  <2> QED BY <1>1, SmallestRelay
<1>3. PICK x \in S : t = RelayCount - x
  OBVIOUS
<1>4. \A y \in S : RelayCount - x <= RelayCount - y
  BY <1>2, <1>3
<1> QED BY <1>4, RelayCountAssumption DEF Relays

LEMMA FirstOfFacts ==
  ASSUME NEW r \in Readers, NEW S \in SUBSET Relays, S # {}
  PROVE  /\ FirstOf(S, r) \in S
         /\ \A y \in S : FirstOf(S, r) <= y
<1>1. \E x \in S : \A y \in S : x <= y
  BY SmallestRelay, RelayCountAssumption DEF Relays
<1> QED BY <1>1 DEF FirstOf

----------------------------------------------------------------------------
(* Queues *)

\* Without removes one waiter and keeps the others, in their order.
LEMMA WithoutFacts ==
  ASSUME NEW q \in Seq(Readers), NEW w, Distinct(q), Among(w, q)
  PROVE  /\ Without(q, w) \in Seq(Readers)
         /\ Distinct(Without(q, w))
         /\ \A r : Among(r, Without(q, w)) <=> (r # w /\ Among(r, q))
         /\ q # <<>>
<1> DEFINE p == CHOOSE k \in DOMAIN q : q[k] = w
           t == Without(q, w)
<1>1. p \in 1..Len(q) /\ q[p] = w /\ Len(q) \in Nat \ {0}
  BY LenProperties DEF Among
<1>2. t = [k \in 1..(Len(q) - 1) |-> IF k < p THEN q[k] ELSE q[k + 1]]
  BY DEF Without
<1> HIDE DEF p, t
<1>3. t \in Seq(Readers) /\ Len(t) = Len(q) - 1 /\ DOMAIN t = 1..(Len(q) - 1)
  <2>1. \A k \in 1..(Len(q) - 1) : t[k] \in Readers
    BY <1>1, <1>2, ElementOfSeq
  <2>2. t \in [1..(Len(q) - 1) -> Readers]
    BY <1>2, <2>1
  <2> QED BY <1>1, <2>2
<1>4. \A i \in 1..(Len(q) - 1) : t[i] = IF i < p THEN q[i] ELSE q[i + 1]
  BY <1>2
<1>5. DOMAIN q = 1..Len(q)
  BY LenProperties
<1>6. ASSUME NEW i \in DOMAIN t, NEW j \in DOMAIN t, t[i] = t[j]
      PROVE  i = j
  <2> DEFINE Old(k) == IF k < p THEN k ELSE k + 1
  <2>1. \A k \in DOMAIN t : Old(k) \in 1..Len(q) /\ t[k] = q[Old(k)]
    BY <1>1, <1>3, <1>4
  <2>2. Old(i) = Old(j)
    BY <1>5, <1>6, <2>1 DEF Distinct
  <2> QED BY <1>1, <1>3, <2>2
<1>7. ASSUME NEW r
      PROVE  Among(r, t) <=> (r # w /\ Among(r, q))
  <2>1. ASSUME NEW i \in DOMAIN t, t[i] = r
        PROVE  r # w /\ \E k \in DOMAIN q : q[k] = r
    <3>1. CASE i < p
      BY <1>1, <1>3, <1>4, <1>5, <2>1, <3>1 DEF Distinct
    <3>2. CASE ~ (i < p)
      <4>1. i + 1 \in DOMAIN q /\ q[i + 1] = r /\ i + 1 # p
        BY <1>1, <1>3, <1>4, <1>5, <2>1, <3>2
      <4> QED BY <1>1, <1>5, <4>1 DEF Distinct
    <3> QED BY <3>1, <3>2
  <2>2. ASSUME NEW i \in DOMAIN q, q[i] = r, r # w
        PROVE  \E k \in DOMAIN t : t[k] = r
    <3>1. CASE i < p
      <4>1. i \in DOMAIN t /\ t[i] = r
        BY <1>1, <1>3, <1>4, <1>5, <2>2, <3>1
      <4> QED BY <4>1
    <3>2. CASE ~ (i < p)
      <4>1. i > p
        BY <1>1, <1>5, <2>2, <3>2
      <4>2. (i - 1) \in DOMAIN t /\ t[i - 1] = r
        BY <1>1, <1>3, <1>4, <1>5, <2>2, <4>1
      <4> QED BY <4>2
    <3> QED BY <3>1, <3>2
  <2> QED BY <2>1, <2>2 DEF Among
<1>8. q # <<>>
  BY <1>1
<1> QED BY <1>3, <1>6, <1>7, <1>8 DEF t, Distinct

\* Tail removes the oldest waiter and keeps the others.
LEMMA TailFacts ==
  ASSUME NEW q \in Seq(Readers), q # <<>>, Distinct(q)
  PROVE  /\ Tail(q) \in Seq(Readers)
         /\ Head(q) \in Readers
         /\ Among(Head(q), q)
         /\ Distinct(Tail(q))
         /\ \A r : Among(r, Tail(q)) <=> (r # Head(q) /\ Among(r, q))
<1> DEFINE t == Tail(q)
<1>1. /\ t \in Seq(Readers) /\ Head(q) \in Readers /\ Len(t) = Len(q) - 1
      /\ \A i \in 1..Len(t) : t[i] = q[i + 1]
  BY HeadTailProperties
<1>2. Len(q) \in Nat \ {0} /\ DOMAIN q = 1..Len(q) /\ DOMAIN t = 1..(Len(q) - 1)
  BY <1>1, LenProperties, EmptySeq
<1>3. Head(q) = q[1] /\ Among(Head(q), q)
  BY <1>2 DEF Among
<1> HIDE DEF t
<1>4. ASSUME NEW i \in DOMAIN t, NEW j \in DOMAIN t, t[i] = t[j]
      PROVE  i = j
  <2>1. i + 1 \in DOMAIN q /\ j + 1 \in DOMAIN q /\ q[i + 1] = q[j + 1]
    BY <1>1, <1>2, <1>4
  <2> QED BY <1>2, <2>1 DEF Distinct
<1>5. ASSUME NEW r
      PROVE  Among(r, t) <=> (r # Head(q) /\ Among(r, q))
  <2>1. ASSUME NEW i \in DOMAIN t, t[i] = r
        PROVE  r # Head(q) /\ \E k \in DOMAIN q : q[k] = r
    BY <1>1, <1>2, <1>3, <2>1 DEF Distinct
  <2>2. ASSUME NEW i \in DOMAIN q, q[i] = r, r # Head(q)
        PROVE  \E k \in DOMAIN t : t[k] = r
    <3>1. (i - 1) \in DOMAIN t /\ t[i - 1] = r
      BY <1>1, <1>2, <1>3, <2>2
    <3> QED BY <3>1
  <2> QED BY <2>1, <2>2 DEF Among
<1> QED BY <1>1, <1>3, <1>4, <1>5 DEF t, Distinct

\* Append adds one waiter that was not in the queue.
LEMMA AppendFacts ==
  ASSUME NEW q \in Seq(Readers), NEW w \in Readers, Distinct(q), ~ Among(w, q)
  PROVE  /\ Append(q, w) \in Seq(Readers)
         /\ Distinct(Append(q, w))
         /\ \A r : Among(r, Append(q, w)) <=> (r = w \/ Among(r, q))
<1> DEFINE t == Append(q, w)
<1>1. /\ t \in Seq(Readers) /\ Len(t) = Len(q) + 1 /\ Len(q) \in Nat
      /\ \A i \in 1..Len(q) : t[i] = q[i]
      /\ t[Len(q) + 1] = w
      /\ DOMAIN q = 1..Len(q) /\ DOMAIN t = 1..(Len(q) + 1)
  BY AppendProperties, LenProperties
<1> HIDE DEF t
<1>2. \A i, j \in DOMAIN t : t[i] = t[j] => i = j
  BY <1>1 DEF Distinct, Among
<1>3. ASSUME NEW r
      PROVE  Among(r, t) <=> (r = w \/ Among(r, q))
  <2>1. ASSUME NEW i \in DOMAIN t, t[i] = r
        PROVE  r = w \/ \E k \in DOMAIN q : q[k] = r
    BY <1>1, <2>1
  <2>2. ASSUME NEW i \in DOMAIN q, q[i] = r
        PROVE  \E k \in DOMAIN t : t[k] = r
    BY <1>1, <2>2
  <2>3. Len(q) + 1 \in DOMAIN t /\ t[Len(q) + 1] = w
    BY <1>1
  <2> QED BY <2>1, <2>2, <2>3 DEF Among
<1> QED BY <1>1, <1>2, <1>3 DEF t, Distinct

----------------------------------------------------------------------------
(* Holders *)

LEMMA HoldersFinite ==
  \A x : IsFiniteSet(Holders(x)) /\ Cardinality(Holders(x)) \in Nat
BY ReadersAssumption, FS_Subset, FS_CardinalityType DEF Holders

LEMMA HoldersFinitePrime ==
  \A x : IsFiniteSet(Holders(x)') /\ Cardinality(Holders(x)') \in Nat
BY ReadersAssumption, FS_Subset, FS_CardinalityType DEF Holders

----------------------------------------------------------------------------
(* The initial state *)

LEMMA InitIInv == Init => IInv
<1> SUFFICES ASSUME Init PROVE IInv
  OBVIOUS
<1>1. Shape
  <2>1. 1 \in Relays /\ <<>> \in Seq(Readers)
    BY RelayCountAssumption, EmptySeq DEF Relays
  <2>2. active \in [Relays -> Int] /\ queues \in [Relays -> Seq(Readers)]
    BY <2>1 DEF Init
  <2>3. /\ phase \in [Readers -> Phases]
        /\ want \in [Readers -> SUBSET Relays]
        /\ acquired \in [Readers -> SUBSET Relays]
    BY DEF Init, Phases
  <2>4. target \in [Readers -> Relays]
    BY <2>1 DEF Init
  <2>5. aborted \in [Readers -> BOOLEAN] /\ closed \in BOOLEAN
    BY Zenon DEF Init
  <2> QED BY <2>2, <2>3, <2>4, <2>5 DEF Shape
<1>2. TargetInOrder
  BY DEF Init, TargetInOrder
<1>3. QueuesMatchWaiters
  BY DEF Init, QueuesMatchWaiters, Distinct, Among
<1>4. SlotAccounting
  <2>1. \A x \in Relays : Holders(x) = {}
    BY DEF Init, Holders
  <2> QED BY <2>1, FS_EmptySet DEF Init, SlotAccounting
<1>5. Bounded /\ NoLostWakeup
  BY MaxAssumption DEF Init, Bounded, NoLostWakeup
<1> QED BY <1>1, <1>2, <1>3, <1>4, <1>5 DEF IInv

----------------------------------------------------------------------------
(* acquireOne, whether acquire() calls it first or its continuation does. *)

LEMMA AcquireOneStep ==
  ASSUME IInv, NEW r \in Readers, NEW todo \in SUBSET Relays, todo # {},
         phase[r] \in {"idle", "granted"},
         acquired' \in [Readers -> SUBSET Relays],
         \A q \in Readers \ {r} : acquired'[q] = acquired[q],
         acquired'[r] = acquired[r] \cup (IF phase[r] = "granted" THEN {target[r]} ELSE {}),
         want' \in [Readers -> SUBSET Relays],
         \A q \in Readers \ {r} : want'[q] = want[q],
         todo = want'[r] \ acquired'[r],
         \A y \in acquired'[r], z \in todo : y < z,
         aborted' \in [Readers -> BOOLEAN],
         closed' \in BOOLEAN,
         AcquireOne(r, todo)
  PROVE  IInv'
<1> DEFINE x == FirstOf(todo, r)
<1>1. x \in todo /\ x \in Relays /\ \A y \in todo : x <= y
  BY FirstOfFacts
<1> HIDE DEF x
<1>2. /\ target' = [target EXCEPT ![r] = x]
      /\ \/ /\ phase' = [phase EXCEPT ![r] = "rejected"]
            /\ active' = active /\ queues' = queues
         \/ /\ active[x] < Max
            /\ active' = [active EXCEPT ![x] = @ + 1]
            /\ phase' = [phase EXCEPT ![r] = "granted"]
            /\ queues' = queues
         \/ /\ active[x] >= Max
            /\ queues' = [queues EXCEPT ![x] = Append(@, r)]
            /\ phase' = [phase EXCEPT ![r] = "queued"]
            /\ active' = active
  BY DEF AcquireOne, x
<1>3. Shape /\ TargetInOrder /\ QueuesMatchWaiters /\ SlotAccounting /\ Bounded /\ NoLostWakeup
  BY DEF IInv
<1>4. \A y \in Relays : ~ Among(r, queues[y])
  BY <1>3 DEF QueuesMatchWaiters
<1>5. x \notin acquired'[r]
  BY <1>1
<1>6. Shape'
  <2>1. Append(queues[x], r) \in Seq(Readers)
    BY <1>1, <1>3, AppendProperties DEF Shape
  <2>2. active' \in [Relays -> Int]
    BY <1>2, <1>3 DEF Shape
  <2>3. queues' \in [Relays -> Seq(Readers)]
    BY <1>2, <1>3, <2>1 DEF Shape
  <2>4. phase' \in [Readers -> Phases] /\ target' \in [Readers -> Relays]
    BY <1>1, <1>2, <1>3 DEF Shape, Phases
  <2> QED BY <2>2, <2>3, <2>4 DEF Shape
<1>7. TargetInOrder'
  <2> SUFFICES ASSUME NEW q \in Readers
               PROVE  /\ phase'[q] = "idle" => acquired'[q] = {}
                      /\ phase'[q] \in {"queued", "granted", "rejected"} =>
                           /\ target'[q] \in want'[q] \ acquired'[q]
                           /\ \A y \in want'[q] \ acquired'[q] : target'[q] <= y
                           /\ \A y \in acquired'[q] : y < target'[q]
    BY DEF TargetInOrder
  <2>1. CASE q = r
    BY <1>1, <1>2, <1>3, <2>1 DEF Shape
  <2>2. CASE q # r
    <3>1. /\ phase'[q] = phase[q] /\ target'[q] = target[q]
          /\ acquired'[q] = acquired[q] /\ want'[q] = want[q]
      BY <1>2, <1>3, <2>2 DEF Shape
    <3> QED BY <1>3, <3>1 DEF TargetInOrder
  <2> QED BY <2>1, <2>2
<1>8. QueuesMatchWaiters'
  <2> SUFFICES ASSUME NEW y \in Relays
               PROVE  /\ Distinct(queues'[y])
                      /\ \A q \in Readers : Among(q, queues'[y])
                            <=> (phase'[q] = "queued" /\ target'[q] = y)
    BY DEF QueuesMatchWaiters
  <2>1. \A q \in Readers \ {r} : phase'[q] = phase[q] /\ target'[q] = target[q]
    BY <1>2, <1>3 DEF Shape
  <2>2. target'[r] = x /\ phase'[r] \in {"rejected", "granted", "queued"}
    BY <1>2, <1>3 DEF Shape
  <2>3. /\ queues[y] \in Seq(Readers)
        /\ Distinct(queues[y])
        /\ \A q \in Readers : Among(q, queues[y]) <=> (phase[q] = "queued" /\ target[q] = y)
    BY <1>3 DEF Shape, QueuesMatchWaiters
  <2>4. CASE phase'[r] = "queued" /\ y = x
    <3>1. queues'[y] = Append(queues[y], r)
      BY <1>1, <1>2, <1>3, <2>4 DEF Shape
    <3>2. /\ Distinct(queues'[y])
          /\ \A q : Among(q, queues'[y]) <=> (q = r \/ Among(q, queues[y]))
      BY <1>4, <2>3, <3>1, AppendFacts
    <3> QED BY <2>1, <2>2, <2>3, <2>4, <3>2
  <2>5. CASE ~ (phase'[r] = "queued" /\ y = x)
    <3>1. queues'[y] = queues[y]
      BY <1>2, <1>3, <2>2, <2>5 DEF Shape
    <3> QED BY <1>4, <2>1, <2>2, <2>3, <2>5, <3>1
  <2> QED BY <2>4, <2>5
<1>9. \A y \in Relays : Holders(y)' = IF phase'[r] = "granted" /\ y = x
                                      THEN Holders(y) \cup {r} ELSE Holders(y)
  <2> SUFFICES ASSUME NEW y \in Relays, NEW q \in Readers
               PROVE  q \in Holders(y)' <=>
                        \/ q \in Holders(y)
                        \/ phase'[r] = "granted" /\ y = x /\ q = r
    BY DEF Holders
  <2>1. CASE q # r
    <3>1. phase'[q] = phase[q] /\ target'[q] = target[q] /\ acquired'[q] = acquired[q]
      BY <1>2, <1>3, <2>1 DEF Shape
    <3> QED BY <2>1, <3>1 DEF Holders
  <2>2. CASE q = r
    <3>1. target'[r] = x
      BY <1>2, <1>3 DEF Shape
    <3>2. r \in Holders(y) <=> y \in acquired'[r]
      BY DEF Holders
    <3>3. r \in Holders(y)' <=> (y \in acquired'[r] \/ (phase'[r] = "granted" /\ y = x))
      BY <3>1 DEF Holders
    <3> QED BY <2>2, <3>2, <3>3
  <2> QED BY <2>1, <2>2
<1>10. r \notin Holders(x)
  BY <1>5 DEF Holders
<1>11. SlotAccounting'
  <2> SUFFICES ASSUME NEW y \in Relays
               PROVE  active'[y] = Cardinality(Holders(y)')
    BY DEF SlotAccounting
  <2>1. active[y] = Cardinality(Holders(y)) /\ active[y] \in Int
    BY <1>3 DEF SlotAccounting, Shape
  <2>2. CASE phase'[r] = "granted" /\ y = x
    <3>1. active'[y] = active[y] + 1
      BY <1>1, <1>2, <1>3, <2>2 DEF Shape
    <3>2. Cardinality(Holders(y) \cup {r}) = Cardinality(Holders(y)) + 1
      BY <1>10, <2>2, HoldersFinite, FS_AddElement
    <3> QED BY <1>9, <2>1, <2>2, <3>1, <3>2
  <2>3. CASE ~ (phase'[r] = "granted" /\ y = x)
    <3>1. active'[y] = active[y]
      BY <1>1, <1>2, <1>3, <2>3 DEF Shape
    <3> QED BY <1>9, <2>1, <2>3, <3>1
  <2> QED BY <2>2, <2>3
<1>12. Bounded'
  <2> SUFFICES ASSUME NEW y \in Relays PROVE active'[y] <= Max
    BY DEF Bounded
  <2>1. active[y] \in Int /\ active[y] <= Max /\ Max \in Int
    BY <1>3, MaxAssumption DEF Shape, Bounded
  <2>2. active'[y] = active[y] \/ (y = x /\ active[x] < Max /\ active'[y] = active[y] + 1)
    BY <1>1, <1>2, <1>3 DEF Shape
  <2> QED BY <2>1, <2>2
<1>13. NoLostWakeup'
  <2> SUFFICES ASSUME NEW y \in Relays, queues'[y] # <<>> PROVE active'[y] = Max
    BY DEF NoLostWakeup
  <2>1. CASE queues'[y] = queues[y]
    BY <1>1, <1>2, <1>3, <2>1, MaxAssumption DEF Shape, NoLostWakeup, Bounded
  <2>2. CASE queues'[y] # queues[y]
    BY <1>1, <1>2, <1>3, <2>2, MaxAssumption DEF Shape, Bounded
  <2> QED BY <2>1, <2>2
<1> QED BY <1>6, <1>7, <1>8, <1>11, <1>12, <1>13 DEF IInv
----------------------------------------------------------------------------
(* The slots of a call come back, from the catch block or from release(). *)

LEMMA ReleaseAllStep ==
  ASSUME IInv, NEW r \in Readers,
         phase[r] \in {"rejected", "holding"},
         ReleaseAll(r, acquired[r], "idle"),
         acquired' = [acquired EXCEPT ![r] = {}],
         want' = [want EXCEPT ![r] = {}],
         UNCHANGED <<target, aborted, closed>>
  PROVE  IInv'
<1> DEFINE S == acquired[r]
<1>1. Shape /\ TargetInOrder /\ QueuesMatchWaiters /\ SlotAccounting /\ Bounded /\ NoLostWakeup
  BY DEF IInv
<1>2. S \subseteq Relays
  BY <1>1 DEF Shape
<1>3. ASSUME NEW y \in Relays
      PROVE  /\ queues[y] \in Seq(Readers)
             /\ Distinct(queues[y])
             /\ \A q \in Readers : Among(q, queues[y]) <=> (phase[q] = "queued" /\ target[q] = y)
  BY <1>1 DEF Shape, QueuesMatchWaiters
<1>4. ASSUME NEW y \in Relays, queues[y] # <<>>
      PROVE  /\ Head(queues[y]) \in Readers
             /\ phase[Head(queues[y])] = "queued"
             /\ target[Head(queues[y])] = y
             /\ Tail(queues[y]) \in Seq(Readers)
             /\ Distinct(Tail(queues[y]))
             /\ \A q : Among(q, Tail(queues[y])) <=> (q # Head(queues[y]) /\ Among(q, queues[y]))
  BY <1>3, <1>4, TailFacts
\* A reader is woken up exactly when it heads the queue it waits in.
<1>5. \A q \in Readers : q \in Woken(S) <=>
        (/\ phase[q] = "queued" /\ target[q] \in S
         /\ queues[target[q]] # <<>> /\ q = Head(queues[target[q]]))
  BY <1>2, <1>4 DEF Woken
<1>6. \A q \in Readers : phase'[q] = IF q = r THEN "idle"
                                     ELSE IF q \in Woken(S) THEN "granted" ELSE phase[q]
  BY DEF ReleaseAll
<1>7. \A y \in Relays : queues'[y] = IF y \in S /\ queues[y] # <<>>
                                     THEN Tail(queues[y]) ELSE queues[y]
  BY DEF ReleaseAll
<1>8. \A y \in Relays : active'[y] = IF y \in S /\ queues[y] = <<>>
                                     THEN active[y] - 1 ELSE active[y]
  BY DEF ReleaseAll
<1>9. \A q \in Readers : /\ target'[q] = target[q]
                         /\ acquired'[q] = IF q = r THEN {} ELSE acquired[q]
                         /\ want'[q] = IF q = r THEN {} ELSE want[q]
  BY <1>1 DEF Shape
<1> HIDE DEF S
<1>10. Shape'
  <2>1. active' \in [Relays -> Int]
    <3>1. \A y \in Relays : active'[y] \in Int
      BY <1>1, <1>8 DEF Shape
    <3>2. active' = [y \in Relays |-> active'[y]]
      BY DEF ReleaseAll
    <3> QED BY <3>1, <3>2
  <2>2. queues' \in [Relays -> Seq(Readers)]
    <3>1. \A y \in Relays : queues'[y] \in Seq(Readers)
      BY <1>3, <1>4, <1>7
    <3>2. queues' = [y \in Relays |-> queues'[y]]
      BY DEF ReleaseAll
    <3> QED BY <3>1, <3>2
  <2>3. phase' \in [Readers -> Phases]
    <3>1. \A q \in Readers : phase'[q] \in Phases
      BY <1>1, <1>6 DEF Shape, Phases
    <3>2. phase' = [q \in Readers |-> phase'[q]]
      BY DEF ReleaseAll
    <3> QED BY <3>1, <3>2
  <2>4. want' \in [Readers -> SUBSET Relays] /\ acquired' \in [Readers -> SUBSET Relays]
    BY <1>1 DEF Shape
  <2> QED BY <1>1, <2>1, <2>2, <2>3, <2>4 DEF Shape
<1>11. TargetInOrder'
  BY <1>1, <1>5, <1>6, <1>9 DEF TargetInOrder
<1>12. QueuesMatchWaiters'
  <2> SUFFICES ASSUME NEW y \in Relays
               PROVE  /\ Distinct(queues'[y])
                      /\ \A q \in Readers : Among(q, queues'[y])
                            <=> (phase'[q] = "queued" /\ target'[q] = y)
    BY DEF QueuesMatchWaiters
  <2>1. \A q \in Readers : (phase'[q] = "queued" /\ target'[q] = y)
                             <=> (phase[q] = "queued" /\ target[q] = y /\ q \notin Woken(S))
    BY <1>6, <1>9
  <2>2. CASE y \in S /\ queues[y] # <<>>
    <3>1. queues'[y] = Tail(queues[y])
      BY <1>7, <2>2
    <3> QED BY <1>3, <1>4, <1>5, <2>1, <2>2, <3>1
  <2>3. CASE ~ (y \in S /\ queues[y] # <<>>)
    <3>1. queues'[y] = queues[y]
      BY <1>7, <2>3
    <3>2. \A q \in Readers : target[q] = y => q \notin Woken(S)
      BY <1>5, <2>3
    <3> QED BY <1>3, <2>1, <3>1, <3>2
  <2> QED BY <2>2, <2>3
<1>13. ASSUME NEW y \in Relays, y \notin S
       PROVE  Holders(y)' = Holders(y)
  <2> SUFFICES ASSUME NEW q \in Readers PROVE q \in Holders(y)' <=> q \in Holders(y)
    BY DEF Holders
  <2>1. CASE q = r
    BY <1>6, <1>9, <1>13, <2>1 DEF Holders, S
  <2>2. CASE q # r
    BY <1>5, <1>6, <1>9, <1>13, <2>2 DEF Holders
  <2> QED BY <2>1, <2>2
<1>14. ASSUME NEW y \in Relays, y \in S
       PROVE  Holders(y)' = IF queues[y] = <<>> THEN Holders(y) \ {r}
                            ELSE (Holders(y) \ {r}) \cup {Head(queues[y])}
  <2>1. \A q \in Readers : q \in Woken(S) /\ target[q] = y
                             <=> queues[y] # <<>> /\ q = Head(queues[y])
    BY <1>4, <1>5, <1>14
  <2>2. ASSUME NEW q \in Readers
        PROVE  q \in Holders(y)' <=> \/ q \in Holders(y) /\ q # r
                                     \/ queues[y] # <<>> /\ q = Head(queues[y])
    <3>1. CASE q = r
      <4>1. ~ (queues[y] # <<>> /\ q = Head(queues[y]))
        BY <1>4, <3>1
      <4> QED BY <1>6, <1>9, <3>1, <4>1 DEF Holders
    <3>2. CASE q # r
      BY <1>5, <1>6, <1>9, <2>1, <3>2 DEF Holders
    <3> QED BY <3>1, <3>2
  <2>3. Holders(y)' \subseteq Readers /\ Holders(y) \subseteq Readers
    BY DEF Holders
  <2> QED BY <1>4, <2>2, <2>3
<1>15. \A y \in S : r \in Holders(y)
  BY DEF S, Holders
<1>16. \A y \in Relays : queues[y] # <<>> => Head(queues[y]) \notin Holders(y)
  BY <1>1, <1>4 DEF Holders, TargetInOrder
<1>17. SlotAccounting'
  <2> SUFFICES ASSUME NEW y \in Relays
               PROVE  active'[y] = Cardinality(Holders(y)')
    BY DEF SlotAccounting
  <2>1. active[y] = Cardinality(Holders(y)) /\ active[y] \in Int
    BY <1>1 DEF SlotAccounting, Shape
  <2>2. CASE y \notin S
    BY <1>8, <1>13, <2>1, <2>2
  <2>3. CASE y \in S
    <3>1. IsFiniteSet(Holders(y) \ {r}) /\ Cardinality(Holders(y) \ {r}) = Cardinality(Holders(y)) - 1
      BY <1>15, <2>3, HoldersFinite, FS_RemoveElement
    <3>2. CASE queues[y] = <<>>
      BY <1>8, <1>14, <2>1, <2>3, <3>1, <3>2
    <3>3. CASE queues[y] # <<>>
      <4>1. Cardinality((Holders(y) \ {r}) \cup {Head(queues[y])})
              = Cardinality(Holders(y) \ {r}) + 1
        BY <1>16, <3>1, <3>3, FS_AddElement
      <4>2. active'[y] = active[y]
        BY <1>8, <3>3
      <4>3. Holders(y)' = (Holders(y) \ {r}) \cup {Head(queues[y])}
        BY <1>14, <2>3, <3>3
      <4>4. Cardinality(Holders(y)) \in Nat
        BY HoldersFinite
      <4> QED BY <2>1, <3>1, <4>1, <4>2, <4>3, <4>4
    <3> QED BY <3>2, <3>3
  <2> QED BY <2>2, <2>3
<1>18. Bounded'
  <2> SUFFICES ASSUME NEW y \in Relays PROVE active'[y] <= Max
    BY DEF Bounded
  <2> QED BY <1>1, <1>8, MaxAssumption DEF Shape, Bounded
<1>19. NoLostWakeup'
  <2> SUFFICES ASSUME NEW y \in Relays, queues'[y] # <<>> PROVE active'[y] = Max
    BY DEF NoLostWakeup
  <2>1. queues[y] # <<>>
    BY <1>7
  <2> QED BY <1>1, <1>8, <2>1 DEF NoLostWakeup
<1> QED BY <1>10, <1>11, <1>12, <1>17, <1>18, <1>19 DEF IInv
----------------------------------------------------------------------------
(* One lemma per remaining action *)

LEMMA BeginStep ==
  ASSUME IInv, NEW r \in Readers, Begin(r)
  PROVE  IInv'
<1>1. PICK S \in (SUBSET Relays) \ {{}}, pre \in BOOLEAN :
        /\ want' = [want EXCEPT ![r] = S]
        /\ aborted' = [aborted EXCEPT ![r] = pre]
        /\ AcquireOne(r, S)
  BY DEF Begin
<1>2. phase[r] = "idle" /\ acquired' = acquired /\ closed' = closed
  BY DEF Begin
<1>3. Shape /\ acquired[r] = {}
  BY <1>2 DEF IInv, TargetInOrder
<1>4. /\ want' \in [Readers -> SUBSET Relays]
      /\ want'[r] = S
      /\ \A q \in Readers \ {r} : want'[q] = want[q]
  BY <1>1, <1>3 DEF Shape
<1>5. aborted' \in [Readers -> BOOLEAN]
  BY <1>1, <1>3, Zenon DEF Shape
<1>6. acquired' \in [Readers -> SUBSET Relays] /\ closed' \in BOOLEAN
  BY <1>2, <1>3 DEF Shape
<1>7. S = want'[r] \ acquired'[r]
  BY <1>2, <1>3, <1>4
<1>8. \A y \in acquired'[r], z \in S : y < z
  BY <1>2, <1>3
<1>9. /\ acquired'[r] = acquired[r] \cup (IF phase[r] = "granted" THEN {target[r]} ELSE {})
      /\ \A q \in Readers \ {r} : acquired'[q] = acquired[q]
  BY <1>2
<1>10. S \in SUBSET Relays /\ S # {} /\ AcquireOne(r, S)
  BY <1>1
<1> QED BY <1>2, <1>4, <1>5, <1>6, <1>7, <1>8, <1>9, <1>10, AcquireOneStep

LEMMA ContinueStep ==
  ASSUME IInv, NEW r \in Readers, Continue(r)
  PROVE  IInv'
<1> DEFINE todo == want[r] \ acquired'[r]
<1>1. /\ phase[r] = "granted"
      /\ acquired' = [acquired EXCEPT ![r] = @ \cup {target[r]}]
      /\ want' = want /\ aborted' = aborted /\ closed' = closed
      /\ \/ todo # {} /\ AcquireOne(r, todo)
         \/ /\ todo = {}
            /\ phase' = [phase EXCEPT ![r] = "holding"]
            /\ active' = active /\ queues' = queues /\ target' = target
  BY DEF Continue
<1>2. Shape /\ TargetInOrder /\ QueuesMatchWaiters /\ SlotAccounting /\ Bounded /\ NoLostWakeup
  BY DEF IInv
<1>3. /\ acquired' \in [Readers -> SUBSET Relays]
      /\ acquired'[r] = acquired[r] \cup {target[r]}
      /\ \A q \in Readers \ {r} : acquired'[q] = acquired[q]
  BY <1>1, <1>2 DEF Shape
<1>4. CASE todo # {} /\ AcquireOne(r, todo)
  <2>1. todo \in SUBSET Relays
    BY <1>2 DEF Shape
  <2>2. \A y \in acquired'[r], z \in todo : y < z
    <3> SUFFICES ASSUME NEW y \in acquired'[r], NEW z \in todo PROVE y < z
      OBVIOUS
    <3>1. z \in want[r] \ acquired[r] /\ z # target[r] /\ z \in Int /\ target[r] \in Int /\ y \in Int
      BY <1>2, <1>3, <2>1 DEF Shape, Relays
    <3>2. target[r] <= z /\ (y = target[r] \/ y < target[r])
      BY <1>1, <1>2, <1>3, <3>1 DEF TargetInOrder
    <3> QED BY <3>1, <3>2
  <2>3. want' \in [Readers -> SUBSET Relays] /\ aborted' \in [Readers -> BOOLEAN] /\ closed' \in BOOLEAN
    BY <1>1, <1>2 DEF Shape
  <2>4. todo = want'[r] \ acquired'[r] /\ \A q \in Readers \ {r} : want'[q] = want[q]
    BY <1>1
  <2> HIDE DEF todo
  <2> QED BY <1>1, <1>3, <1>4, <2>1, <2>2, <2>3, <2>4, AcquireOneStep
<1>5. CASE /\ todo = {}
           /\ phase' = [phase EXCEPT ![r] = "holding"]
           /\ active' = active /\ queues' = queues /\ target' = target
  <2>1. \A q \in Readers : phase'[q] = IF q = r THEN "holding" ELSE phase[q]
    BY <1>2, <1>5 DEF Shape
  <2>2. Shape'
    BY <1>1, <1>2, <1>3, <1>5 DEF Shape, Phases
  <2>3. TargetInOrder'
    BY <1>1, <1>2, <1>3, <1>5, <2>1 DEF TargetInOrder
  <2>4. QueuesMatchWaiters'
    BY <1>1, <1>2, <1>5, <2>1 DEF QueuesMatchWaiters
  <2>5. \A y \in Relays : Holders(y)' = Holders(y)
    BY <1>1, <1>3, <1>5, <2>1 DEF Holders
  <2>6. SlotAccounting' /\ Bounded' /\ NoLostWakeup'
    BY <1>2, <1>5, <2>5 DEF SlotAccounting, Bounded, NoLostWakeup
  <2> QED BY <2>2, <2>3, <2>4, <2>6 DEF IInv
<1> QED BY <1>1, <1>4, <1>5

LEMMA AbortStep ==
  ASSUME IInv, NEW r \in Readers, Abort(r)
  PROVE  IInv'
<1>1. Shape /\ TargetInOrder /\ QueuesMatchWaiters /\ SlotAccounting /\ Bounded /\ NoLostWakeup
  BY DEF IInv
<1>2. /\ active' = active /\ want' = want /\ acquired' = acquired
      /\ target' = target /\ closed' = closed
      /\ aborted' = [aborted EXCEPT ![r] = TRUE]
  BY DEF Abort
<1>3. aborted' \in [Readers -> BOOLEAN]
  BY <1>1, <1>2, Zenon DEF Shape
<1>4. CASE phase[r] = "queued"
  <2> DEFINE x == target[r]
  <2>1. /\ queues' = [queues EXCEPT ![x] = Without(@, r)]
        /\ phase' = [phase EXCEPT ![r] = "rejected"]
    BY <1>4 DEF Abort
  <2>2. x \in Relays /\ queues[x] \in Seq(Readers) /\ Distinct(queues[x]) /\ Among(r, queues[x])
    BY <1>1, <1>4 DEF Shape, QueuesMatchWaiters
  <2> HIDE DEF x
  <2>3. /\ Without(queues[x], r) \in Seq(Readers)
        /\ Distinct(Without(queues[x], r))
        /\ \A q : Among(q, Without(queues[x], r)) <=> (q # r /\ Among(q, queues[x]))
        /\ queues[x] # <<>>
    BY <2>2, WithoutFacts
  <2>4. \A y \in Relays : queues'[y] = IF y = x THEN Without(queues[x], r) ELSE queues[y]
    BY <1>1, <2>1 DEF Shape
  <2>5. \A q \in Readers : phase'[q] = IF q = r THEN "rejected" ELSE phase[q]
    BY <1>1, <2>1 DEF Shape
  <2>6. Shape'
    BY <1>1, <1>2, <1>3, <2>1, <2>2, <2>3 DEF Shape, Phases
  <2>7. TargetInOrder'
    BY <1>1, <1>2, <1>4, <2>5 DEF TargetInOrder
  <2>8. QueuesMatchWaiters'
    BY <1>1, <1>2, <1>4, <2>2, <2>3, <2>4, <2>5 DEF QueuesMatchWaiters, x
  <2>9. \A y \in Relays : Holders(y)' = Holders(y)
    BY <1>2, <1>4, <2>5 DEF Holders
  <2>10. SlotAccounting' /\ Bounded'
    BY <1>1, <1>2, <2>9 DEF SlotAccounting, Bounded
  <2>11. NoLostWakeup'
    BY <1>1, <1>2, <2>2, <2>3, <2>4 DEF NoLostWakeup
  <2> QED BY <2>6, <2>7, <2>8, <2>10, <2>11 DEF IInv
<1>5. CASE phase[r] # "queued"
  <2>1. queues' = queues /\ phase' = phase
    BY <1>5 DEF Abort
  <2>2. \A y \in Relays : Holders(y)' = Holders(y)
    BY <1>2, <2>1 DEF Holders
  <2> QED BY <1>1, <1>2, <1>3, <2>1, <2>2
         DEF IInv, Shape, TargetInOrder, QueuesMatchWaiters, SlotAccounting, Bounded, NoLostWakeup
<1> QED BY <1>4, <1>5

LEMMA CloseStep ==
  ASSUME IInv, Close
  PROVE  IInv'
<1>1. Shape /\ TargetInOrder /\ QueuesMatchWaiters /\ SlotAccounting /\ Bounded /\ NoLostWakeup
  BY DEF IInv
<1>2. /\ active' = active /\ want' = want /\ acquired' = acquired
      /\ target' = target /\ closed' = TRUE
  BY DEF Close
<1>3. aborted' \in [Readers -> BOOLEAN]
  <2>1. \A r \in Readers : (aborted[r] \/ phase[r] # "idle") \in BOOLEAN
    OBVIOUS
  <2> QED BY <2>1, Zenon DEF Close
<1>4. \A y \in Relays : queues'[y] = <<>>
  BY DEF Close
<1>5. \A q \in Readers : phase'[q] = IF phase[q] = "queued" THEN "rejected" ELSE phase[q]
  BY DEF Close
<1>6. Shape'
  <2>1. queues' \in [Relays -> Seq(Readers)]
    BY EmptySeq DEF Close
  <2>2. phase' \in [Readers -> Phases]
    BY <1>1 DEF Close, Shape, Phases
  <2> QED BY <1>1, <1>2, <1>3, <2>1, <2>2 DEF Shape
<1>7. TargetInOrder'
  BY <1>1, <1>2, <1>5 DEF TargetInOrder
<1>8. QueuesMatchWaiters'
  <2>1. Distinct(<<>>) /\ \A q : ~ Among(q, <<>>)
    BY DEF Distinct, Among
  <2> QED BY <1>4, <1>5, <2>1 DEF QueuesMatchWaiters
<1>9. \A y \in Relays : Holders(y)' = Holders(y)
  BY <1>2, <1>5 DEF Holders
<1>10. SlotAccounting' /\ Bounded' /\ NoLostWakeup'
  BY <1>1, <1>2, <1>4, <1>9 DEF SlotAccounting, Bounded, NoLostWakeup
<1> QED BY <1>6, <1>7, <1>8, <1>10 DEF IInv

LEMMA NextIInv == IInv /\ [Next]_vars => IInv'
<1> SUFFICES ASSUME IInv, [Next]_vars PROVE IInv'
  OBVIOUS
<1>1. ASSUME NEW r \in Readers, Begin(r) PROVE IInv'
  BY <1>1, BeginStep
<1>2. ASSUME NEW r \in Readers, Continue(r) PROVE IInv'
  BY <1>2, ContinueStep
<1>3. ASSUME NEW r \in Readers, Fail(r) PROVE IInv'
  BY <1>3, ReleaseAllStep DEF Fail
<1>4. ASSUME NEW r \in Readers, Release(r) PROVE IInv'
  BY <1>4, ReleaseAllStep DEF Release
<1>5. ASSUME NEW r \in Readers, Abort(r) PROVE IInv'
  BY <1>5, AbortStep
<1>6. CASE Close
  BY <1>6, CloseStep
<1>7. CASE UNCHANGED vars
  <2>1. \A y \in Relays : Holders(y)' = Holders(y)
    BY <1>7 DEF vars, Holders
  <2> QED BY <1>7, <2>1
         DEF vars, IInv, Shape, TargetInOrder, QueuesMatchWaiters, SlotAccounting, Bounded, NoLostWakeup
<1> QED BY <1>1, <1>2, <1>3, <1>4, <1>5, <1>6, <1>7 DEF Next

----------------------------------------------------------------------------
(* What the invariant implies *)

LEMMA IInvTypeOK == IInv => TypeOK
<1> SUFFICES ASSUME IInv PROVE TypeOK
  OBVIOUS
<1>1. \A x \in Relays : active[x] \in 0..Max
  BY HoldersFinite, MaxAssumption DEF IInv, Shape, SlotAccounting, Bounded
<1>2. active \in [Relays -> 0..Max]
  BY <1>1 DEF IInv, Shape
<1> QED BY <1>2 DEF IInv, Shape, TypeOK

\* In a set of queued reads take one that waits for the largest relay.  That
\* relay is full, so somebody owns one of its slots; an owner inside the set
\* would wait for a relay after it.
LEMMA IInvNoCircularWait == IInv => NoCircularWait
<1> SUFFICES ASSUME IInv, NEW D \in (SUBSET Readers) \ {{}}, \A r \in D : phase[r] = "queued"
             PROVE  \E r \in D : ~ (Holders(target[r]) \subseteq D)
  BY DEF NoCircularWait
<1> DEFINE T == {target[r] : r \in D}
<1>1. T \in SUBSET Relays /\ T # {}
  <2>1. \A r \in D : target[r] \in Relays
    BY DEF IInv, Shape
  <2>2. PICK r \in D : TRUE
    OBVIOUS
  <2>3. target[r] \in T
    OBVIOUS
  <2> QED BY <2>1, <2>3
<1>2. PICK x \in T : \A y \in T : y <= x
  <2> HIDE DEF T
  <2> QED BY <1>1, LargestRelay
<1>3. PICK r \in D : target[r] = x
  OBVIOUS
<1>4. x \in Relays /\ phase[r] = "queued" /\ r \in Readers
  BY <1>1
<1>5. queues[x] # <<>>
  <2>1. Among(r, queues[x])
    BY <1>3, <1>4 DEF IInv, QueuesMatchWaiters
  <2> QED BY <2>1 DEF Among
<1>6. PICK h \in Holders(x) : TRUE
  <2>1. Cardinality(Holders(x)) = Max
    BY <1>4, <1>5 DEF IInv, NoLostWakeup, SlotAccounting
  <2>2. Holders(x) # {}
    BY <2>1, MaxAssumption, FS_EmptySet
  <2> QED BY <2>2
<1>7. h \notin D
  <2> SUFFICES ASSUME h \in D PROVE FALSE
    OBVIOUS
  <2>1. phase[h] = "queued" /\ target[h] \in T
    OBVIOUS
  <2>2. x \in acquired[h]
    BY <1>6, <2>1 DEF Holders
  <2>3. x < target[h] /\ target[h] <= x /\ x \in Int /\ target[h] \in Int
    BY <1>1, <1>2, <1>4, <2>1, <2>2 DEF IInv, TargetInOrder, Relays
  <2> QED BY <2>3
<1> QED BY <1>3, <1>6, <1>7

----------------------------------------------------------------------------
(* Theorems *)

LEMMA Invariance == Spec => []IInv
<1>1. Init => IInv
  BY InitIInv
<1>2. IInv /\ [Next]_vars => IInv'
  BY NextIInv
<1> QED BY <1>1, <1>2, PTL DEF Spec

\* Every variable keeps its type, and no relay ever serves more than Max
\* paged reads at once.
THEOREM TypeCorrect == Spec => []TypeOK
<1>1. IInv => TypeOK
  BY IInvTypeOK
<1> QED BY <1>1, Invariance, PTL

\* The count of a relay is the number of reads that own one of its slots,
\* whatever is granted, aborted, failed, released or closed in between.
THEOREM SlotsAccounted == Spec => []SlotAccounting
<1>1. IInv => SlotAccounting
  BY DEF IInv
<1> QED BY <1>1, Invariance, PTL

\* A relay with a free slot has no waiter, and the queues hold exactly the
\* calls that are suspended.
THEOREM WakeupsKept == Spec => [](NoLostWakeup /\ QueuesMatchWaiters)
<1>1. IInv => NoLostWakeup /\ QueuesMatchWaiters
  BY DEF IInv
<1> QED BY <1>1, Invariance, PTL

\* Reads that take their relays in the order of limitedReadRelays never wait
\* for each other in a circle.
THEOREM DeadlockFree == Spec => []NoCircularWait
<1>1. IInv => NoCircularWait
  BY IInvNoCircularWait
<1> QED BY <1>1, Invariance, PTL

----------------------------------------------------------------------------
(* The limiter implements ReadAdmission *)
(* The invariant so far counts the slots; what is added here ties them to  *)
(* the calls: a call that holds owns a slot at every relay it asked for,   *)
(* and one that is rejected was aborted.                                   *)


CallsKnowTheirSlots ==
  \A r \in Readers :
    /\ acquired[r] \subseteq want[r]
    /\ phase[r] = "holding" => acquired[r] = want[r]
    /\ phase[r] = "rejected" => aborted[r]

JInv == IInv /\ CallsKnowTheirSlots

LEMMA InitJInv == Init => JInv
<1>1. Init => CallsKnowTheirSlots
  BY DEF Init, CallsKnowTheirSlots
<1> QED BY <1>1, InitIInv DEF JInv

\* A call that goes on to ask for another relay does not hold, and is rejected
\* only when it is aborted.
LEMMA AcquireOnePhase ==
  ASSUME IInv, NEW r \in Readers, NEW S, AcquireOne(r, S)
  PROVE  /\ phase' \in [Readers -> Phases]
         /\ \A q \in Readers \ {r} : phase'[q] = phase[q]
         /\ phase'[r] \in {"queued", "granted", "rejected"}
         /\ phase'[r] = "rejected" => aborted'[r]
BY DEF AcquireOne, IInv, Shape, Phases

\* The end of a call wakes readers up; it neither adds to nor takes from the
\* slots of another call.
LEMMA ReleaseAllPhase ==
  ASSUME IInv, NEW r \in Readers, ReleaseAll(r, acquired[r], "idle")
  PROVE  /\ phase'[r] = "idle"
         /\ \A q \in Readers \ {r} :
              \/ phase'[q] = phase[q]
              \/ phase'[q] = "granted" /\ phase[q] = "queued"
<1>1. /\ acquired[r] \subseteq Relays /\ QueuesMatchWaiters
      /\ queues \in [Relays -> Seq(Readers)]
  BY DEF IInv, Shape
<1>2. phase' = [q \in Readers |-> IF q = r THEN "idle"
                                  ELSE IF q \in Woken(acquired[r]) THEN "granted" ELSE phase[q]]
  BY DEF ReleaseAll
<1>3. ASSUME NEW q \in Woken(acquired[r]) PROVE phase[q] = "queued"
  <2>1. PICK x \in acquired[r] : queues[x] # <<>> /\ q = Head(queues[x])
    BY <1>3 DEF Woken
  <2>2. x \in Relays /\ q \in Readers /\ queues[x] \in Seq(Readers)
    BY <1>1, <1>3, <2>1 DEF Woken
  <2>3. Len(queues[x]) \in Nat \ {0} /\ DOMAIN queues[x] = 1..Len(queues[x])
    BY <2>1, <2>2, EmptySeq, LenProperties
  <2>4. 1 \in DOMAIN queues[x] /\ Head(queues[x]) = queues[x][1]
    BY <2>2, <2>3
  <2>5. Among(q, queues[x])
    BY <2>1, <2>4 DEF Among
  <2> QED BY <1>1, <2>2, <2>5 DEF QueuesMatchWaiters
<1> QED BY <1>2, <1>3

LEMMA NextJInv == JInv /\ [Next]_vars => JInv'
<1> SUFFICES ASSUME JInv, [Next]_vars PROVE CallsKnowTheirSlots'
  BY NextIInv DEF JInv
<1> USE DEF CallsKnowTheirSlots
<1>1. /\ IInv /\ CallsKnowTheirSlots /\ TargetInOrder
      /\ phase \in [Readers -> Phases] /\ want \in [Readers -> SUBSET Relays]
      /\ acquired \in [Readers -> SUBSET Relays] /\ aborted \in [Readers -> BOOLEAN]
  BY DEF JInv, IInv, Shape
<1>2. ASSUME NEW r \in Readers, Begin(r) PROVE CallsKnowTheirSlots'
  <2>1. PICK S \in (SUBSET Relays) \ {{}}, pre \in BOOLEAN :
          /\ want' = [want EXCEPT ![r] = S]
          /\ aborted' = [aborted EXCEPT ![r] = pre]
          /\ AcquireOne(r, S)
    BY <1>2 DEF Begin
  <2>2. acquired' = acquired /\ acquired[r] = {}
    BY <1>1, <1>2 DEF Begin, TargetInOrder
  <2> QED BY <1>1, <2>1, <2>2, AcquireOnePhase
<1>3. ASSUME NEW r \in Readers, Continue(r) PROVE CallsKnowTheirSlots'
  <2>1. /\ acquired' = [acquired EXCEPT ![r] = @ \cup {target[r]}]
        /\ want' = want /\ aborted' = aborted /\ target[r] \in want[r]
    BY <1>1, <1>3 DEF Continue, TargetInOrder
  <2>2. CASE AcquireOne(r, want[r] \ acquired'[r])
    BY <1>1, <2>1, <2>2, AcquireOnePhase
  <2>3. CASE want[r] \ acquired'[r] = {} /\ phase' = [phase EXCEPT ![r] = "holding"]
    BY <1>1, <2>1, <2>3
  <2> QED BY <1>3, <2>2, <2>3 DEF Continue
<1>4. ASSUME NEW r \in Readers, Fail(r) \/ Release(r) PROVE CallsKnowTheirSlots'
  <2>1. /\ ReleaseAll(r, acquired[r], "idle")
        /\ acquired' = [acquired EXCEPT ![r] = {}] /\ want' = [want EXCEPT ![r] = {}]
        /\ aborted' = aborted
    BY <1>4 DEF Fail, Release
  <2> QED BY <1>1, <2>1, ReleaseAllPhase
<1>5. ASSUME NEW r \in Readers, Abort(r) PROVE CallsKnowTheirSlots'
  BY <1>1, <1>5 DEF Abort
<1>6. CASE Close
  BY <1>1, <1>6 DEF Close
<1>7. CASE UNCHANGED vars
  BY <1>1, <1>7 DEF vars
<1> QED BY <1>2, <1>3, <1>4, <1>5, <1>6, <1>7 DEF Next

----------------------------------------------------------------------------
(* The steps *)

\* The stages after a step, from the phases after it.
LEMMA StageFacts ==
  ASSUME NEW r \in Readers
  PROVE  /\ Stage(r) = "idle" <=> phase[r] = "idle"
         /\ Stage(r) = "admitted" <=> phase[r] = "holding"
         /\ Stage(r) = "asking" <=> phase[r] \notin {"idle", "holding"}
BY DEF Stage

\* There is room for a call that is about to hold: it owns one of the slots
\* of each of its relays, and whoever was admitted owns another one.
LEMMA RoomForLast ==
  ASSUME JInv, NEW r \in Readers, phase[r] = "granted",
         want[r] \subseteq acquired[r] \cup {target[r]}, NEW x \in want[r]
  PROVE  Cardinality({q \in Readers : Stage(q) = "admitted" /\ x \in want[q]}) < Max
<1> DEFINE crowd == {q \in Readers : Stage(q) = "admitted" /\ x \in want[q]}
<1>1. /\ IInv /\ CallsKnowTheirSlots /\ x \in Relays
  BY DEF JInv, IInv, Shape
<1>2. r \in Holders(x) /\ r \notin crowd
  BY StageFacts DEF Holders
<1>3. crowd \subseteq Holders(x)
  BY <1>1, StageFacts DEF CallsKnowTheirSlots, Holders
<1>4. IsFiniteSet(Holders(x)) /\ Cardinality(Holders(x)) <= Max
  BY <1>1, HoldersFinite DEF IInv, SlotAccounting, Bounded
<1>5. crowd \in SUBSET Holders(x) /\ crowd # Holders(x)
  BY <1>2, <1>3
<1> HIDE DEF crowd
<1>6. /\ IsFiniteSet(crowd)
      /\ Cardinality(crowd) <= Cardinality(Holders(x))
      /\ Cardinality(Holders(x)) # Cardinality(crowd)
  BY <1>4, <1>5, FS_Subset
<1>7. Cardinality(crowd) \in Nat /\ Cardinality(Holders(x)) \in Nat
  BY <1>4, <1>6, FS_CardinalityType
<1>8. Cardinality(crowd) < Max
  BY <1>4, <1>6, <1>7, MaxAssumption
<1> QED BY <1>8 DEF crowd

\* ReadAdmission counts as this module does.
LEMMA SameCardinality == ASSUME NEW S PROVE Admission!Cardinality(S) = Cardinality(S)
BY DEF Admission!Cardinality, Cardinality

\* What the callers see of a step: the stages of all calls but that of r stay.
LEMMA OthersStay ==
  ASSUME NEW r \in Readers, \A q \in Readers \ {r} : Stage(q)' = Stage(q)
  PROVE  [q \in Readers |-> Stage(q)]' = [[q \in Readers |-> Stage(q)] EXCEPT ![r] = Stage(r)']
OBVIOUS

\* A call that asks for its next relay is still asking, whatever the answer.
LEMMA AskingStage ==
  ASSUME IInv, NEW r \in Readers, NEW S, AcquireOne(r, S)
  PROVE  /\ Stage(r)' = "asking"
         /\ \A q \in Readers \ {r} : Stage(q)' = Stage(q)
<1>1. phase'[r] \notin {"idle", "holding"} /\ \A q \in Readers \ {r} : phase'[q] = phase[q]
  BY AcquireOnePhase
<1> QED BY <1>1 DEF Stage

\* The end of a call is its own: the readers it wakes up are asking, as before.
LEMMA EndingStage ==
  ASSUME IInv, NEW r \in Readers, ReleaseAll(r, acquired[r], "idle")
  PROVE  /\ Stage(r)' = "idle"
         /\ \A q \in Readers \ {r} : Stage(q)' = Stage(q)
<1>1. /\ phase'[r] = "idle"
      /\ \A q \in Readers \ {r} :
           \/ phase'[q] = phase[q]
           \/ phase'[q] = "granted" /\ phase[q] = "queued"
  BY ReleaseAllPhase
<1> QED BY <1>1 DEF Stage

\* A step of the limiter is a step of the promise, or invisible to it.
LEMMA StepRefines == JInv /\ [Next]_vars => [Admission!Next]_(Admission!vars)
<1> SUFFICES ASSUME JInv, [Next]_vars PROVE Admission!Next \/ UNCHANGED Admission!vars
  OBVIOUS
<1>1. IInv /\ CallsKnowTheirSlots /\ TargetInOrder
  BY DEF JInv, IInv
<1>2. ASSUME NEW r \in Readers, Begin(r) PROVE Admission!Ask(r)
  <2>1. PICK S \in (SUBSET Relays) \ {{}}, pre \in BOOLEAN :
          /\ want' = [want EXCEPT ![r] = S]
          /\ aborted' = [aborted EXCEPT ![r] = pre]
          /\ AcquireOne(r, S)
    BY <1>2 DEF Begin
  <2>2. /\ Stage(r)' = "asking"
        /\ [q \in Readers |-> Stage(q)]' = [[q \in Readers |-> Stage(q)] EXCEPT ![r] = Stage(r)']
    BY <1>1, <2>1, AskingStage, OthersStay
  <2>3. ~closed /\ closed' = closed /\ Stage(r) = "idle"
    BY <1>2, StageFacts DEF Begin
  <2> QED BY <2>1, <2>2, <2>3 DEF Admission!Ask
<1>3. ASSUME NEW r \in Readers, Continue(r) PROVE Admission!Admit(r) \/ UNCHANGED Admission!vars
  <2>1. /\ Stage(r) = "asking" /\ phase[r] = "granted"
        /\ want' = want /\ aborted' = aborted /\ closed' = closed
        /\ acquired' = [acquired EXCEPT ![r] = @ \cup {target[r]}]
    BY <1>3, StageFacts DEF Continue
  <2>2. CASE AcquireOne(r, want[r] \ acquired'[r])
    <3>1. /\ Stage(r)' = Stage(r)
          /\ \A q \in Readers \ {r} : Stage(q)' = Stage(q)
      BY <1>1, <2>1, <2>2, AskingStage
    <3>2. [q \in Readers |-> Stage(q)]' = [q \in Readers |-> Stage(q)]
      BY <3>1
    <3> QED BY <2>1, <3>2 DEF Admission!vars
  <2>3. CASE want[r] \ acquired'[r] = {} /\ phase' = [phase EXCEPT ![r] = "holding"]
    <3>1. want[r] \subseteq acquired[r] \cup {target[r]}
      BY <1>1, <2>1, <2>3 DEF IInv, Shape
    <3>2. \A x \in want[r] : Cardinality(Admission!Crowd(x)) < Max
      <4> SUFFICES ASSUME NEW x \in want[r] PROVE Cardinality(Admission!Crowd(x)) < Max
        OBVIOUS
      <4>1. Admission!Crowd(x) = {q \in Readers : Stage(q) = "admitted" /\ x \in want[q]}
        BY DEF Admission!Crowd
      <4>2. Cardinality({q \in Readers : Stage(q) = "admitted" /\ x \in want[q]}) < Max
        BY <2>1, <3>1, RoomForLast
      <4> QED BY <4>1, <4>2
    <3>3. phase'[r] = "holding" /\ \A q \in Readers \ {r} : phase'[q] = phase[q]
      BY <1>1, <2>3 DEF IInv, Shape
    <3>4. Stage(r)' = "admitted" /\ \A q \in Readers \ {r} : Stage(q)' = Stage(q)
      BY <3>3 DEF Stage
    <3>5. [q \in Readers |-> Stage(q)]' = [[q \in Readers |-> Stage(q)] EXCEPT ![r] = "admitted"]
      BY <3>4, OthersStay
    <3> QED BY <2>1, <3>2, <3>5, SameCardinality DEF Admission!Admit
  <2> QED BY <1>3, <2>2, <2>3 DEF Continue
<1>4. ASSUME NEW r \in Readers, Fail(r) PROVE Admission!Refuse(r)
  <2>1. /\ Stage(r)' = "idle"
        /\ [q \in Readers |-> Stage(q)]' = [[q \in Readers |-> Stage(q)] EXCEPT ![r] = Stage(r)']
    BY <1>1, <1>4, EndingStage, OthersStay DEF Fail
  <2>2. Stage(r) = "asking" /\ aborted[r]
    BY <1>1, <1>4, StageFacts DEF Fail, CallsKnowTheirSlots
  <2> QED BY <1>4, <2>1, <2>2 DEF Fail, Admission!Refuse, Admission!Ends
<1>5. ASSUME NEW r \in Readers, Release(r) PROVE Admission!Leave(r)
  <2>1. /\ Stage(r)' = "idle"
        /\ [q \in Readers |-> Stage(q)]' = [[q \in Readers |-> Stage(q)] EXCEPT ![r] = Stage(r)']
    BY <1>1, <1>5, EndingStage, OthersStay DEF Release
  <2>2. Stage(r) = "admitted"
    BY <1>5, StageFacts DEF Release
  <2> QED BY <1>5, <2>1, <2>2 DEF Release, Admission!Leave, Admission!Ends
<1>6. ASSUME NEW r \in Readers, Abort(r) PROVE Admission!Revoke(r)
  <2>1. \A q \in Readers : \/ phase'[q] = phase[q]
                           \/ phase[q] = "queued" /\ phase'[q] = "rejected"
    BY <1>1, <1>6 DEF Abort, IInv, Shape
  <2>2. \A q \in Readers : Stage(q)' = Stage(q)
    BY <2>1 DEF Stage
  <2>3. Stage(r) # "idle"
    BY <1>6, StageFacts DEF Abort
  <2> QED BY <1>6, <2>2, <2>3 DEF Abort, Admission!Revoke
<1>7. CASE Close
  <2>1. \A q \in Readers : \/ phase'[q] = phase[q]
                           \/ phase[q] = "queued" /\ phase'[q] = "rejected"
    BY <1>7 DEF Close
  <2>2. \A q \in Readers : Stage(q)' = Stage(q)
    BY <2>1 DEF Stage
  <2>3. \A q \in Readers : Stage(q) # "idle" <=> phase[q] # "idle"
    BY StageFacts
  <2>4. aborted' = [q \in Readers |-> aborted[q] \/ Stage(q) # "idle"]
    BY <1>7, <2>3, Zenon DEF Close
  <2>5. Admission!Close
    BY <1>7, <2>2, <2>4 DEF Close, Admission!Close
  <2> QED BY <2>5 DEF Admission!Next
<1>8. CASE UNCHANGED vars
  <2>1. \A q \in Readers : Stage(q)' = Stage(q)
    BY <1>8 DEF vars, Stage
  <2> QED BY <1>8, <2>1 DEF vars, Admission!vars
<1> QED BY <1>2, <1>3, <1>4, <1>5, <1>6, <1>7, <1>8 DEF Next, Admission!Next

----------------------------------------------------------------------------

\* The limiter implements ReadAdmission: for every number of readers, relays
\* and slots, acquire() looks to its callers like an admission to all relays
\* at once that keeps every relay at Max reads and refuses only aborted ones.
THEOREM LimiterImplementsAdmission == Spec => ImplementsAdmission
<1>1. Init => JInv
  BY InitJInv
<1>2. JInv /\ [Next]_vars => JInv'
  BY NextJInv
<1>3. Init => Admission!Init
  BY DEF Init, Admission!Init, Stage
<1>4. JInv /\ [Next]_vars => [Admission!Next]_(Admission!vars)
  BY StepRefines
<1> QED BY <1>1, <1>2, <1>3, <1>4, PTL DEF Spec, ImplementsAdmission, Admission!Spec
=============================================================================
