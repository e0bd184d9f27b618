-------------------------- MODULE LiveLeaseProofs --------------------------
(***************************************************************************)
(* Proofs about LiveLease, for every set of owners and of prints, and about*)
(* the relay client that serves the leases, for all ids, sockets and caps. *)
(***************************************************************************)
EXTENDS LiveLease, RelayClient, SequenceTheorems, WellFoundedInduction, TLAPS

Shape == /\ shown \in [Owners -> Visibilities]
         /\ demand \in [Owners -> [Prints -> Visibilities \cup {"none"}]]
         /\ lease \subseteq Prints
         /\ wire \subseteq lease

\* A demand is registered with the visibility of its owner's tab, so an attach
\* that overwrites a registration never hides one whose wire is open.
Current == \A o \in Owners, p \in Prints : demand[o][p] \in {"none", shown[o]}

IInv == Shape /\ Current /\ WireOnlyWhileVisible /\ LeaseHasOwner

LEMMA InitIInv == Init => IInv
BY DEF Init, IInv, Shape, Current, Visibilities, WireOnlyWhileVisible, LeaseHasOwner

\* demand' only differs from demand at one owner.
LEMMA SetDemand ==
  ASSUME Shape, NEW o \in Owners, NEW p \in Prints, NEW v \in Visibilities \cup {"none"},
         demand' = [demand EXCEPT ![o][p] = v]
  PROVE  /\ demand' \in [Owners -> [Prints -> Visibilities \cup {"none"}]]
         /\ \A q \in Owners, r \in Prints :
              demand'[q][r] = IF q = o /\ r = p THEN v ELSE demand[q][r]
BY DEF Shape

LEMMA AttachStep ==
  ASSUME IInv, NEW o \in Owners, NEW p \in Prints, Attach(o, p)
  PROVE  IInv'
<1>1. Shape /\ shown[o] \in Visibilities /\ shown' = shown
  BY DEF IInv, Shape, Attach
<1>2. demand' = [demand EXCEPT ![o][p] = shown[o]] /\ demand[o][p] \in {"none", shown[o]}
  BY DEF Attach, IInv, Current
<1>3. /\ demand' \in [Owners -> [Prints -> Visibilities \cup {"none"}]]
      /\ \A q \in Owners, r \in Prints :
           demand'[q][r] = IF q = o /\ r = p THEN shown[o] ELSE demand[q][r]
  BY <1>1, <1>2, SetDemand
<1>4. Current'
  BY <1>1, <1>3 DEF IInv, Current
<1>5. CASE shown[o] = "hidden"
  <2>1. lease' = lease /\ wire' = wire
    BY <1>5 DEF Attach
  <2>2. Shape'
    BY <1>1, <1>3, <2>1 DEF Shape
  <2>3. WireOnlyWhileVisible'
    BY <1>1, <1>2, <1>3, <1>5, <2>1
       DEF IInv, Shape, Visibilities, WireOnlyWhileVisible, VisibleOwners
  <2>4. LeaseHasOwner'
    BY <1>1, <1>3, <1>5, <2>1 DEF IInv, Shape, LeaseHasOwner, HasOwners
  <2> QED BY <1>4, <2>2, <2>3, <2>4 DEF IInv
<1>6. CASE shown[o] = "visible"
  <2>1. /\ lease' = lease \cup {p}
        /\ wire' = IF p \in lease THEN wire ELSE wire \cup {p}
    BY <1>6 DEF Attach
  <2>2. Shape'
    BY <1>1, <1>3, <2>1 DEF Shape
  <2>3. WireOnlyWhileVisible'
    BY <1>1, <1>3, <1>6, <2>1 DEF IInv, Shape, WireOnlyWhileVisible, VisibleOwners
  <2>4. LeaseHasOwner'
    BY <1>1, <1>3, <1>6, <2>1 DEF IInv, Shape, LeaseHasOwner, HasOwners
  <2> QED BY <1>4, <2>2, <2>3, <2>4 DEF IInv
<1> QED BY <1>1, <1>5, <1>6 DEF Visibilities

LEMMA DetachStep ==
  ASSUME IInv, NEW o \in Owners, NEW p \in Prints, Detach(o, p)
  PROVE  IInv'
<1>1. Shape
  BY DEF IInv
<1>2. /\ demand' = [demand EXCEPT ![o][p] = "none"]
      /\ lease' = {q \in lease : q = p => HasOwners(demand', q)}
      /\ wire' = {q \in wire : q = p => VisibleOwners(demand', q) # {}}
      /\ shown' = shown
  BY DEF Detach
<1>3. /\ demand' \in [Owners -> [Prints -> Visibilities \cup {"none"}]]
      /\ \A q \in Owners, r \in Prints :
           demand'[q][r] = IF q = o /\ r = p THEN "none" ELSE demand[q][r]
  BY <1>1, <1>2, SetDemand
<1>4. Current'
  BY <1>2, <1>3 DEF IInv, Current
<1>5. wire' \subseteq lease' /\ lease' \subseteq Prints
  BY <1>1, <1>2 DEF Shape, HasOwners, VisibleOwners
<1>6. Shape'
  BY <1>1, <1>2, <1>3, <1>5 DEF Shape
<1>7. WireOnlyWhileVisible'
  BY <1>1, <1>2, <1>3 DEF IInv, Shape, WireOnlyWhileVisible, VisibleOwners
<1>8. LeaseHasOwner'
  BY <1>1, <1>2, <1>3 DEF IInv, Shape, LeaseHasOwner, HasOwners
<1> QED BY <1>4, <1>6, <1>7, <1>8 DEF IInv

\* pauseOwner and resumeOwner rewrite every registration of one owner.
LEMMA SetVisibility ==
  ASSUME Shape, NEW o \in Owners, NEW v \in Visibilities,
         demand' = [demand EXCEPT ![o] = [p \in Prints |-> IF @[p] = "none" THEN "none" ELSE v]]
  PROVE  /\ demand' \in [Owners -> [Prints -> Visibilities \cup {"none"}]]
         /\ \A q \in Owners, r \in Prints :
              demand'[q][r] = IF q = o THEN (IF demand[o][r] = "none" THEN "none" ELSE v)
                              ELSE demand[q][r]
         /\ \A r \in Prints : HasOwners(demand', r) <=> HasOwners(demand, r)
<1>1. /\ demand' \in [Owners -> [Prints -> Visibilities \cup {"none"}]]
      /\ \A q \in Owners, r \in Prints :
           demand'[q][r] = IF q = o THEN (IF demand[o][r] = "none" THEN "none" ELSE v)
                           ELSE demand[q][r]
  BY DEF Shape
<1>2. v # "none"
  BY DEF Visibilities
<1> QED BY <1>1, <1>2 DEF HasOwners

LEMMA PauseStep ==
  ASSUME IInv, NEW o \in Owners, Pause(o)
  PROVE  IInv'
<1>1. Shape /\ "hidden" \in Visibilities
  BY DEF IInv, Visibilities
<1>2. /\ shown' = [shown EXCEPT ![o] = "hidden"]
      /\ wire' = {p \in wire : VisibleOwners(demand', p) # {}}
      /\ lease' = lease
  BY DEF Pause
<1>3. /\ demand' \in [Owners -> [Prints -> Visibilities \cup {"none"}]]
      /\ \A q \in Owners, r \in Prints :
           demand'[q][r] = IF q = o THEN (IF demand[o][r] = "none" THEN "none" ELSE "hidden")
                           ELSE demand[q][r]
      /\ \A r \in Prints : HasOwners(demand', r) <=> HasOwners(demand, r)
  BY <1>1, SetVisibility DEF Pause
<1>4. Shape'
  BY <1>1, <1>2, <1>3 DEF Shape
<1>5. WireOnlyWhileVisible'
  BY <1>2 DEF WireOnlyWhileVisible
<1>6. LeaseHasOwner'
  BY <1>1, <1>2, <1>3 DEF IInv, Shape, LeaseHasOwner
<1>7. Current'
  BY <1>1, <1>2, <1>3 DEF IInv, Shape, Current
<1> QED BY <1>4, <1>5, <1>6, <1>7 DEF IInv

LEMMA ResumeStep ==
  ASSUME IInv, NEW o \in Owners, Resume(o)
  PROVE  IInv'
<1>1. Shape /\ "visible" \in Visibilities
  BY DEF IInv, Visibilities
<1>2. /\ shown' = [shown EXCEPT ![o] = "visible"]
      /\ wire' = wire \cup {p \in lease : demand'[o][p] # "none"}
      /\ lease' = lease
  BY DEF Resume
<1>3. /\ demand' \in [Owners -> [Prints -> Visibilities \cup {"none"}]]
      /\ \A q \in Owners, r \in Prints :
           demand'[q][r] = IF q = o THEN (IF demand[o][r] = "none" THEN "none" ELSE "visible")
                           ELSE demand[q][r]
      /\ \A r \in Prints : HasOwners(demand', r) <=> HasOwners(demand, r)
  BY <1>1, SetVisibility DEF Resume
<1>4. Shape'
  BY <1>1, <1>2, <1>3 DEF Shape
<1>5. WireOnlyWhileVisible'
  BY <1>1, <1>2, <1>3 DEF IInv, Shape, WireOnlyWhileVisible, VisibleOwners
<1>6. LeaseHasOwner'
  BY <1>1, <1>2, <1>3 DEF IInv, Shape, LeaseHasOwner
<1>7. Current'
  BY <1>1, <1>2, <1>3 DEF IInv, Shape, Current
<1> QED BY <1>4, <1>5, <1>6, <1>7 DEF IInv

LEMMA ReleaseOwnerStep ==
  ASSUME IInv, NEW o \in Owners, ReleaseOwner(o)
  PROVE  IInv'
<1> DEFINE left == {p \in lease : demand[o][p] # "none"}
<1>1. Shape
  BY DEF IInv
<1>2. /\ demand' = [demand EXCEPT ![o] = [p \in Prints |-> "none"]]
      /\ lease' = lease \ {p \in left : ~ HasOwners(demand', p)}
      /\ wire' = wire \ {p \in left : VisibleOwners(demand', p) = {}}
      /\ shown' = shown
  BY DEF ReleaseOwner
<1>3. /\ demand' \in [Owners -> [Prints -> Visibilities \cup {"none"}]]
      /\ \A q \in Owners, r \in Prints :
           demand'[q][r] = IF q = o THEN "none" ELSE demand[q][r]
  BY <1>1, <1>2 DEF Shape
<1>4. \A p \in lease' : HasOwners(demand', p)
  BY <1>1, <1>2, <1>3 DEF IInv, Shape, LeaseHasOwner, HasOwners
<1>5. \A p \in wire' : VisibleOwners(demand', p) # {}
  BY <1>1, <1>2, <1>3 DEF IInv, Shape, WireOnlyWhileVisible, VisibleOwners
<1>6. wire' \subseteq lease' /\ lease' \subseteq Prints
  BY <1>1, <1>2, <1>5 DEF Shape, HasOwners, VisibleOwners
<1>7. Shape'
  BY <1>1, <1>2, <1>3, <1>6 DEF Shape
<1>8. Current'
  BY <1>2, <1>3 DEF IInv, Current
<1> QED BY <1>4, <1>5, <1>7, <1>8 DEF IInv, WireOnlyWhileVisible, LeaseHasOwner

LEMMA NextIInv == IInv /\ [Next]_vars => IInv'
<1> SUFFICES ASSUME IInv, [Next]_vars PROVE IInv'
  OBVIOUS
<1>1. ASSUME NEW o \in Owners, NEW p \in Prints, Attach(o, p) PROVE IInv'
  BY <1>1, AttachStep
<1>2. ASSUME NEW o \in Owners, NEW p \in Prints, Detach(o, p) PROVE IInv'
  BY <1>2, DetachStep
<1>3. ASSUME NEW o \in Owners, Pause(o) PROVE IInv'
  BY <1>3, PauseStep
<1>4. ASSUME NEW o \in Owners, Resume(o) PROVE IInv'
  BY <1>4, ResumeStep
<1>5. ASSUME NEW o \in Owners, ReleaseOwner(o) PROVE IInv'
  BY <1>5, ReleaseOwnerStep
<1>6. CASE Close
  BY <1>6 DEF Close, IInv, Shape, Current, WireOnlyWhileVisible, LeaseHasOwner
<1>7. CASE UNCHANGED vars
  BY <1>7 DEF vars, IInv, Shape, Current, WireOnlyWhileVisible, LeaseHasOwner,
              HasOwners, VisibleOwners
<1> QED BY <1>1, <1>2, <1>3, <1>4, <1>5, <1>6, <1>7 DEF Next

LEMMA Invariance == Spec => []IInv
<1>1. Init => IInv
  BY InitIInv
<1>2. IInv /\ [Next]_vars => IInv'
  BY NextIInv
<1> QED BY <1>1, <1>2, PTL DEF Spec

\* No wire is open for tabs that are all hidden or gone.
THEOREM WiresAreVisible == Spec => []WireOnlyWhileVisible
<1>1. IInv => WireOnlyWhileVisible
  BY DEF IInv
<1> QED BY <1>1, Invariance, PTL

\* No lease record outlives the registrations of the owners that share it,
\* however often they attach and whichever of their handles they release.
THEOREM NothingOutlivesItsOwner == Spec => []LeaseHasOwner
<1>1. IInv => LeaseHasOwner
  BY DEF IInv
<1> QED BY <1>1, Invariance, PTL

\* A step that closes a wire, other than the orchestrator's own close, leaves
\* no visible owner for its print.
LEMMA CutStep ==
  ASSUME IInv, [Next]_vars, ~closed', NEW p \in wire \ wire'
  PROVE  VisibleOwners(demand', p) = {}
<1>1. ASSUME NEW o \in Owners, NEW q \in Prints, Attach(o, q) PROVE FALSE
  BY <1>1 DEF Attach
<1>2. ASSUME NEW o \in Owners, NEW q \in Prints, Detach(o, q)
      PROVE  VisibleOwners(demand', p) = {}
  BY <1>2 DEF Detach
<1>3. ASSUME NEW o \in Owners, Pause(o) PROVE VisibleOwners(demand', p) = {}
  BY <1>3 DEF Pause
<1>4. ASSUME NEW o \in Owners, Resume(o) PROVE FALSE
  BY <1>4 DEF Resume
<1>5. ASSUME NEW o \in Owners, ReleaseOwner(o) PROVE VisibleOwners(demand', p) = {}
  BY <1>5 DEF ReleaseOwner
<1>6. ~ Close
  BY DEF Close
<1>7. ~ UNCHANGED vars
  BY DEF vars
<1> QED BY <1>1, <1>2, <1>3, <1>4, <1>5, <1>6, <1>7 DEF Next

\* Whatever one tab does, the stream of another visible tab is not cut.
THEOREM StreamsAreNotCut == Spec => NoCutUnderVisibleOwner
<1>1. IInv /\ [Next]_vars => [~closed' => \A p \in wire \ wire' : VisibleOwners(demand', p) = {}]_vars
  BY CutStep
<1> QED BY <1>1, Invariance, PTL DEF Spec, NoCutUnderVisibleOwner

-----------------------------------------------------------------------------
(* The relay client *)

Elems(q) == {q[k] : k \in DOMAIN q}
Once(q)  == \A a, b \in DOMAIN q : q[a] = q[b] => a = b

SocketsTyped ==
    /\ socks \in [Sockets -> Statuses] /\ DOMAIN remote = Sockets
    /\ socket \in Sockets \cup {None}
    /\ pc \in {"none", "closing", "erroring", "microtasks"}

\* A socket that is open and in use can be sent on, but in the error handler.
InUse == socket # None =>
    /\ socks[socket] # "unused"
    /\ socks[socket] = "open" /\ pc # "erroring" => state = "open"

\* Before the first connection everything that is active is queued.
FirstOpens == ~opened => active \subseteq queue /\ \A s \in Sockets : socks[s] # "open"

\* An id is pending once, and not while it is known: the close of a known id
\* does not undo the start of a pending one.
Places ==
    /\ pending \in Seq(Ids) /\ Once(pending)
    /\ wanted \subseteq Ids /\ known \subseteq wanted /\ Elems(pending) \subseteq wanted \ known
    /\ finallyClosed => active = {} /\ wanted = {}

Served(i) ==
    \/ ~Restorable(i)
    \/ reconnectTimer
    \/ socket # None /\ socks[socket] \in {"connecting", "closing", "failed"}
    \/ CanSend /\ \/ i \in remote[socket]
                  \/ \E m \in answers : m.socket = socket /\ m.id = i /\ m.kind # "eose"

AllServed == pc \in {"none", "microtasks"} => \A i \in active : Served(i)

ClientInv == SocketsTyped /\ InUse /\ FirstOpens /\ Places /\ AllServed

\* Lists of ids

LEMMA DropAtFacts ==
  ASSUME NEW q \in Seq(Ids), NEW j \in DOMAIN q, Once(q)
  PROVE  /\ DropAt(q, j) \in Seq(Ids) /\ Once(DropAt(q, j))
         /\ Elems(DropAt(q, j)) = Elems(q) \ {q[j]}
<1> DEFINE d    == DropAt(q, j)
           at(k) == IF k < j THEN k ELSE k + 1
<1>1. j \in 1..Len(q) /\ Len(q) \in Nat /\ DOMAIN q = 1..Len(q)
  BY LenProperties
<1>2. /\ d \in Seq(Ids) /\ DOMAIN d = 1..(Len(q) - 1)
      /\ \A k \in 1..(Len(q) - 1) : d[k] = q[at(k)]
  <2> DEFINE before == SubSeq(q, 1, j - 1)
             after  == SubSeq(q, j + 1, Len(q))
  <2>1. /\ before \in Seq(Ids) /\ Len(before) = j - 1
        /\ \A k \in 1..(j - 1) : before[k] = q[k]
    BY <1>1, SubSeqProperties
  <2>2. /\ after \in Seq(Ids) /\ Len(after) = Len(q) - j
        /\ \A k \in 1..(Len(q) - j) : after[k] = q[j + k]
    BY <1>1, SubSeqProperties
  <2>3. d = before \o after
    BY DEF DropAt
  <2> HIDE DEF before, after, d
  <2>4. /\ d \in Seq(Ids) /\ Len(d) = Len(before) + Len(after)
        /\ \A k \in 1..(Len(before) + Len(after)) :
              d[k] = IF k <= Len(before) THEN before[k] ELSE after[k - Len(before)]
    BY <2>1, <2>2, <2>3, ConcatProperties
  <2>5. Len(d) = Len(q) - 1 /\ DOMAIN d = 1..(Len(q) - 1)
    BY <1>1, <2>1, <2>2, <2>4, LenProperties
  <2>6. ASSUME NEW k \in 1..(Len(q) - 1) PROVE d[k] = q[at(k)]
    <3>1. CASE k < j
      BY <1>1, <2>1, <2>4, <3>1
    <3>2. CASE ~ (k < j)
      <4>1. d[k] = after[k - (j - 1)]
        BY <1>1, <2>1, <2>2, <2>4, <3>2
      <4>2. k - (j - 1) \in 1..(Len(q) - j) /\ j + (k - (j - 1)) = k + 1
        BY <1>1, <3>2
      <4>3. after[k - (j - 1)] = q[j + (k - (j - 1))]
        BY <2>2, <4>2
      <4> QED BY <3>2, <4>1, <4>2, <4>3
    <3> QED BY <3>1, <3>2
  <2> QED BY <2>4, <2>5, <2>6
<1>3. \A k \in DOMAIN d : at(k) \in DOMAIN q \ {j}
  BY <1>1, <1>2
<1>4. \A k \in DOMAIN q \ {j} : \E x \in DOMAIN d : at(x) = k
  <2> SUFFICES ASSUME NEW k \in DOMAIN q \ {j} PROVE \E x \in DOMAIN d : at(x) = k
    OBVIOUS
  <2>1. CASE k < j
    BY <1>1, <1>2, <2>1
  <2>2. CASE k > j
    <3>1. k - 1 \in 1..(Len(q) - 1) /\ at(k - 1) = k
      BY <1>1, <2>2
    <3> QED BY <1>2, <3>1
  <2> QED BY <1>1, <2>1, <2>2
<1>5. \A a, b \in DOMAIN d : at(a) = at(b) => a = b
  BY <1>1, <1>2
<1> HIDE DEF d, at
<1>6. Once(d)
  BY <1>2, <1>3, <1>5 DEF Once
<1>7. Elems(d) = Elems(q) \ {q[j]}
  <2>1. \A x \in Elems(d) : x \in Elems(q) \ {q[j]}
    BY <1>2, <1>3 DEF Elems, Once
  <2>2. \A x \in Elems(q) \ {q[j]} : x \in Elems(d)
    BY <1>2, <1>4 DEF Elems
  <2> QED BY <2>1, <2>2
<1> QED BY <1>2, <1>6, <1>7 DEF d

LEMMA WithoutFacts ==
  ASSUME NEW q \in Seq(Ids), NEW i, Once(q)
  PROVE  /\ Without(q, i) \in Seq(Ids) /\ Once(Without(q, i))
         /\ Elems(Without(q, i)) = Elems(q) \ {i}
<1>1. CASE \E j \in DOMAIN q : q[j] = i
  <2> DEFINE j == CHOOSE j \in DOMAIN q : q[j] = i
  <2>1. j \in DOMAIN q /\ q[j] = i
    BY <1>1
  <2>2. Without(q, i) = DropAt(q, j)
    BY <1>1 DEF Without
  <2> HIDE DEF j
  <2> QED BY <2>1, <2>2, DropAtFacts
<1>2. CASE ~ \E j \in DOMAIN q : q[j] = i
  BY <1>2 DEF Without, Elems
<1> QED BY <1>1, <1>2

LEMMA EnqueueFacts ==
  ASSUME NEW q \in Seq(Ids), NEW i \in Ids, Once(q), i \notin Elems(q)
  PROVE  /\ Enqueue(q, i) \in Seq(Ids) /\ Once(Enqueue(q, i))
         /\ Elems(Enqueue(q, i)) \subseteq Elems(q) \cup {i}
<1>1. ASSUME NEW r \in Seq(Ids), Once(r), i \notin Elems(r), Elems(r) \subseteq Elems(q)
      PROVE  /\ Append(r, i) \in Seq(Ids) /\ Once(Append(r, i))
             /\ Elems(Append(r, i)) \subseteq Elems(q) \cup {i}
  <2> DEFINE a == Append(r, i)
  <2>1. /\ a \in Seq(Ids) /\ Len(r) \in Nat /\ DOMAIN a = 1..(Len(r) + 1)
        /\ DOMAIN r = 1..Len(r) /\ a[Len(r) + 1] = i
        /\ \A k \in 1..Len(r) : a[k] = r[k]
    BY AppendProperties, LenProperties
  <2> HIDE DEF a
  <2>2. \A k \in DOMAIN r : r[k] # i /\ r[k] \in Elems(q)
    BY <1>1 DEF Elems
  <2>3. \A k \in DOMAIN a : k \in DOMAIN r \/ k = Len(r) + 1
    BY <2>1
  <2>4. Once(a)
    BY <1>1, <2>1, <2>2, <2>3 DEF Once
  <2>5. Elems(a) \subseteq Elems(q) \cup {i}
    BY <2>1, <2>2, <2>3 DEF Elems
  <2> QED BY <2>1, <2>4, <2>5 DEF a
<1> DEFINE paged == {j \in DOMAIN q : q[j] \notin Live}
           j == IF paged = {} THEN 1 ELSE CHOOSE x \in paged : \A y \in paged : x <= y
<1>2. CASE Len(q) >= MaxPending
  <2>1. j \in DOMAIN q
    <3>1. 1 \in DOMAIN q /\ DOMAIN q \subseteq Nat
      BY <1>2, LenProperties, ClientAssumption
    <3>2. paged # {} => \E x \in paged : \A y \in paged : x <= y
      <4> SUFFICES ASSUME paged # {} PROVE \E x \in paged : \A y \in paged : x <= y
        OBVIOUS
      <4>1. paged \in SUBSET Nat
        BY <3>1
      <4> HIDE DEF paged
      <4>2. PICK x \in paged : \A y \in paged : ~ (<<y, x>> \in OpToRel(<, Nat))
        BY <4>1, NatLessThanWellFounded, WFMin
      <4>3. \A y \in paged : ~ (y < x)
        BY <4>1, <4>2 DEF OpToRel
      <4> QED BY <4>1, <4>3
    <3>3. paged \subseteq DOMAIN q
      OBVIOUS
    <3> HIDE DEF paged
    <3> QED BY <3>1, <3>2, <3>3
  <2>2. Enqueue(q, i) = Append(DropAt(q, j), i)
    BY <1>2 DEF Enqueue
  <2> HIDE DEF j, paged
  <2>3. /\ DropAt(q, j) \in Seq(Ids) /\ Once(DropAt(q, j))
        /\ Elems(DropAt(q, j)) \subseteq Elems(q) /\ i \notin Elems(DropAt(q, j))
    BY <2>1, DropAtFacts
  <2> QED BY <1>1, <2>2, <2>3
<1>3. CASE ~ (Len(q) >= MaxPending)
  <2>1. Enqueue(q, i) = Append(q, i)
    BY <1>3 DEF Enqueue
  <2> QED BY <1>1, <2>1
<1> QED BY <1>2, <1>3

\* What is started leaves the list of pending REQs.
LEMMA FillFacts ==
  ASSUME NEW act, NEW pend \in Seq(Ids), Once(pend)
  PROVE  /\ Fill(act, pend).active = act \cup Fill(act, pend).started
         /\ Fill(act, pend).started \subseteq Elems(pend)
         /\ Fill(act, pend).pending \in Seq(Ids) /\ Once(Fill(act, pend).pending)
         /\ Elems(Fill(act, pend).pending) \subseteq Elems(pend) \ Fill(act, pend).started
<1> DEFINE room    == MaxActive - Cardinality(act)
           fits(n) == {pend[m] : m \in 1..n} \ Oversized
           full(n) == Cardinality(fits(n)) >= room
           k       == CHOOSE n \in 0..Len(pend) :
                        /\ full(n) \/ n = Len(pend)
                        /\ \A m \in 0..(n - 1) : ~full(m)
           rest    == SubSeq(pend, k + 1, Len(pend))
<1>1. /\ Fill(act, pend).active = act \cup fits(k) /\ Fill(act, pend).started = fits(k)
      /\ Fill(act, pend).pending = rest
  BY DEF Fill
<1>2. k \in 0..Len(pend)
  <2> DEFINE ends == {n \in 0..Len(pend) : full(n) \/ n = Len(pend)}
  <2> HIDE DEF full
  <2>1. ends \in SUBSET Nat /\ Len(pend) \in ends
    BY LenProperties
  <2>2. \A n \in ends : n \in 0..Len(pend) /\ (full(n) \/ n = Len(pend))
    OBVIOUS
  <2>3. \A n \in 0..Len(pend) : full(n) => n \in ends
    OBVIOUS
  <2>4. PICK n \in ends : \A m \in ends : ~ (m < n)
    <3> HIDE DEF ends
    <3>1. PICK n \in ends : \A m \in ends : ~ (<<m, n>> \in OpToRel(<, Nat))
      BY <2>1, NatLessThanWellFounded, WFMin
    <3> QED BY <2>1, <3>1 DEF OpToRel
  <2> HIDE DEF ends
  <2>5. \A m \in 0..(n - 1) : ~full(m)
    BY <2>1, <2>2, <2>3, <2>4
  <2> QED BY <2>2, <2>5
<1> HIDE DEF k
<1>3. fits(k) \subseteq Elems(pend)
  BY <1>2, LenProperties DEF Elems
<1>4. /\ rest \in Seq(Ids) /\ DOMAIN rest = 1..(Len(pend) - k)
      /\ \A n \in 1..(Len(pend) - k) : rest[n] = pend[k + n]
  BY <1>2, LenProperties, SubSeqProperties
<1> HIDE DEF rest
<1>5. \A n \in DOMAIN rest : k + n \in DOMAIN pend /\ k + n > k
  BY <1>2, <1>4, LenProperties
<1>6. Once(rest)
  <2> SUFFICES ASSUME NEW a \in DOMAIN rest, NEW b \in DOMAIN rest, rest[a] = rest[b]
               PROVE  a = b
    BY DEF Once
  <2>1. k + a = k + b
    BY <1>4, <1>5 DEF Once
  <2> QED BY <1>2, <1>4, <2>1
<1>7. Elems(rest) \subseteq Elems(pend) \ fits(k)
  <2> SUFFICES ASSUME NEW n \in DOMAIN rest PROVE rest[n] \in Elems(pend) \ fits(k)
    BY DEF Elems
  <2>1. rest[n] = pend[k + n] /\ k + n \in DOMAIN pend
    BY <1>4, <1>5
  <2>2. \A m \in 1..k : m \in DOMAIN pend /\ m # k + n
    BY <1>2, <1>5, LenProperties
  <2>3. \A m \in 1..k : pend[m] # rest[n]
    BY <2>1, <2>2 DEF Once
  <2> QED BY <2>1, <2>3 DEF Elems
<1> HIDE DEF fits
<1> QED BY <1>1, <1>3, <1>4, <1>6, <1>7

-----------------------------------------------------------------------------
\* What REQs that start, and CLOSE frames, leave of the invariant: those that
\* start are sent, or queued for a socket that is connecting.
LEMMA LaunchKeeps ==
  ASSUME ClientInv, NEW a \in SUBSET active, NEW started \in SUBSET Ids, NEW gone,
         Launch(started, gone), a \cap gone = {}, started \cap gone = {},
         active' = a \cup started, UNCHANGED <<opened, pc>>,
         \A i \in a \ started : Restorable(i)' => Restorable(i),
         \A m \in answers : m.id \in a /\ m.kind # "eose" => m \in answers'
  PROVE  SocketsTyped' /\ InUse' /\ FirstOpens' /\ AllServed'
<1>1. /\ SocketsTyped /\ InUse /\ FirstOpens /\ AllServed /\ pc' = pc /\ opened' = opened
  BY DEF ClientInv
<1>2. CanSend => opened
  BY <1>1 DEF CanSend, FirstOpens, SocketsTyped
<1>3. CASE (started = {} \/ Connected) /\ UNCHANGED net
  <2>1. /\ state' = state /\ socket' = socket /\ socks' = socks
        /\ reconnectTimer' = reconnectTimer /\ (CanSend)' = CanSend
    BY <1>3 DEF net, CanSend
  <2>2. SocketsTyped' /\ InUse'
    BY <1>1, <2>1 DEF SocketsTyped, InUse, Launch
  <2>3. FirstOpens'
    <3>1. ~opened => queue' = queue \cup started
      BY <1>2 DEF Launch
    <3> QED BY <1>1, <2>1, <3>1 DEF FirstOpens
  <2>4. ASSUME NEW i \in active', pc \in {"none", "microtasks"} PROVE Served(i)'
    <3>1. CASE CanSend
      <4>1. /\ remote' = [remote EXCEPT ![socket] = (@ \cup started) \ gone]
            /\ socket \in Sockets
        BY <1>1, <3>1 DEF Launch, CanSend, SocketsTyped
      <4>2. remote'[socket] = (remote[socket] \cup started) \ gone
        BY <1>1, <4>1 DEF SocketsTyped
      <4>3. CASE i \in started
        BY <2>1, <3>1, <4>2, <4>3 DEF Served
      <4>4. CASE i \notin started
        <5>1. Served(i) /\ i \in a /\ (Restorable(i)' => Restorable(i))
          BY <1>1, <2>4, <4>4 DEF AllServed
        <5> QED BY <2>1, <3>1, <4>2, <5>1 DEF Served
      <4> QED BY <4>3, <4>4
    <3>2. CASE ~CanSend
      <4>1. CASE i \in started
        <5>1. socket # None /\ state # "closed" /\ socks[socket] \in Statuses
          BY <1>1, <1>3, <4>1 DEF Connected, SocketsTyped
        <5>2. socks[socket] \in {"connecting", "closing", "failed"}
          BY <1>1, <2>4, <3>2, <5>1 DEF InUse, CanSend, Statuses
        <5> QED BY <2>1, <5>1, <5>2 DEF Served
      <4>2. CASE i \notin started
        <5>1. Served(i) /\ i \in a /\ (Restorable(i)' => Restorable(i))
          BY <1>1, <2>4, <4>2 DEF AllServed
        <5> QED BY <2>1, <3>2, <5>1 DEF Served
      <4> QED BY <4>1, <4>2
    <3> QED BY <3>1, <3>2
  <2> QED BY <1>1, <2>2, <2>3, <2>4 DEF AllServed
<1>4. ASSUME NEW s \in Sockets, ~Connected, Connect(s)
      PROVE  SocketsTyped' /\ InUse' /\ FirstOpens' /\ AllServed'
  <2>1. ~CanSend
    BY <1>4 DEF CanSend, Connected
  <2>2. /\ state' = "connecting" /\ socket' = s /\ s # None
        /\ socks' = [socks EXCEPT ![s] = "connecting"]
        /\ queue' = queue \cup started /\ remote' = remote
    BY <1>4, <2>1, ClientAssumption DEF Connect, Launch
  <2>3. socks'[s] = "connecting"
    BY <1>1, <2>2 DEF SocketsTyped
  <2>4. SocketsTyped' /\ InUse'
    BY <1>1, <2>2, <2>3 DEF SocketsTyped, InUse, Statuses
  <2>5. FirstOpens'
    BY <1>1, <2>2 DEF FirstOpens, SocketsTyped
  <2>6. AllServed'
    BY <2>2, <2>3 DEF AllServed, Served
  <2> QED BY <2>4, <2>5, <2>6
<1> QED BY <1>3, <1>4 DEF Launch

LEMMA SubscribeKeeps == ASSUME ClientInv, NEW i \in Ids, Subscribe(i) PROVE ClientInv'
<1> DEFINE act == active \ {i}
           r   == IF i \in Oversized THEN Fill(act, pending)
                  ELSE [active |-> act \cup {i}, pending |-> pending, started |-> {i}]
<1> SUFFICES ClientInv' OBVIOUS
<1>1. /\ ClientInv /\ Places /\ ~finallyClosed /\ finallyClosed' = finallyClosed /\ i \notin wanted
      /\ wanted' = wanted \cup {i} /\ UNCHANGED <<opened, pc, answers>>
  BY DEF Subscribe, ClientInv
<1>2. /\ r.active = act \cup r.started /\ r.started \subseteq Elems(pending) \cup {i}
      /\ r.pending \in Seq(Ids) /\ Once(r.pending)
      /\ Elems(r.pending) \subseteq Elems(pending) \ r.started
  <2>1. pending \in Seq(Ids) /\ Once(pending) /\ i \notin Elems(pending)
    BY <1>1 DEF Places
  <2>2. CASE i \in Oversized
    BY <2>1, <2>2, FillFacts
  <2>3. CASE i \notin Oversized
    BY <2>1, <2>3
  <2> QED BY <2>2, <2>3
<1>3. CASE Cardinality(act) < MaxActive
  <2>1. /\ active' = r.active /\ pending' = r.pending
        /\ Launch(r.started, {}) /\ Tables(r.started, {})
    BY <1>3 DEF Subscribe
  <2> HIDE DEF r
  <2>2. known' = known \cup r.started /\ expired' = expired \ r.started
    BY <2>1 DEF Tables
  <2>3. Places'
    BY <1>1, <1>2, <2>1, <2>2 DEF Places
  <2>4. SocketsTyped' /\ InUse' /\ FirstOpens' /\ AllServed'
    <3>1. act \subseteq active /\ r.started \subseteq Ids
      BY <1>1, <1>2 DEF Places
    <3>2. \A x \in act \ r.started : Restorable(x)' => Restorable(x)
      BY <2>2 DEF Restorable
    <3> HIDE DEF act
    <3> QED BY <1>1, <1>2, <2>1, <3>1, <3>2, LaunchKeeps
  <2> QED BY <2>3, <2>4 DEF ClientInv
<1>4. CASE ~ (Cardinality(act) < MaxActive)
  <2>1. /\ active' = act /\ pending' = Enqueue(Without(pending, i), i)
        /\ UNCHANGED <<net, queue, remote, table>>
    BY <1>4 DEF Subscribe
  <2>2. Places'
    <3>1. /\ Without(pending, i) \in Seq(Ids) /\ Once(Without(pending, i))
          /\ Elems(Without(pending, i)) = Elems(pending) \ {i}
      BY <1>1, WithoutFacts DEF Places
    <3>2. /\ pending' \in Seq(Ids) /\ Once(pending')
          /\ Elems(pending') \subseteq Elems(pending) \cup {i}
      BY <2>1, <3>1, EnqueueFacts
    <3>3. known' = known
      BY <2>1 DEF table
    <3> QED BY <1>1, <3>2, <3>3 DEF Places
  <2>3. SocketsTyped' /\ InUse' /\ FirstOpens'
    BY <1>1, <2>1 DEF ClientInv, SocketsTyped, InUse, FirstOpens, net
  <2>4. AllServed'
    BY <1>1, <2>1 DEF ClientInv, AllServed, Served, Restorable, CanSend, net, table
  <2> QED BY <2>2, <2>3, <2>4 DEF ClientInv
<1> QED BY <1>3, <1>4

LEMMA UnsubscribeKeeps ==
  ASSUME ClientInv, NEW i \in Ids, CloseSubscription(i) PROVE ClientInv'
<1> DEFINE r    == Fill(active \ {i}, Without(pending, i))
           gone == IF WasClosed(i) THEN {} ELSE {i}
           act  == active \ {i}
<1> SUFFICES ClientInv' OBVIOUS
<1>1. /\ ClientInv /\ Places /\ ~finallyClosed /\ finallyClosed' = finallyClosed
      /\ wanted' = wanted \ {i} /\ UNCHANGED <<opened, pc, answers>>
      /\ active' = r.active /\ pending' = r.pending
      /\ Launch(r.started, gone) /\ Tables(r.started, {i})
  BY DEF CloseSubscription, ClientInv
<1>2. /\ r.active = act \cup r.started /\ r.started \subseteq Elems(pending) \ {i}
      /\ r.pending \in Seq(Ids) /\ Once(r.pending)
      /\ Elems(r.pending) \subseteq (Elems(pending) \ {i}) \ r.started
  <2> DEFINE q == Without(pending, i)
  <2>1. q \in Seq(Ids) /\ Once(q) /\ Elems(q) = Elems(pending) \ {i}
    BY <1>1, WithoutFacts DEF Places
  <2> HIDE DEF q
  <2>2. /\ Fill(act, q).active = act \cup Fill(act, q).started
        /\ Fill(act, q).started \subseteq Elems(q)
        /\ Fill(act, q).pending \in Seq(Ids) /\ Once(Fill(act, q).pending)
        /\ Elems(Fill(act, q).pending) \subseteq Elems(q) \ Fill(act, q).started
    BY <2>1, FillFacts
  <2> QED BY <2>1, <2>2 DEF q
<1>3. act \subseteq active /\ act \cap gone = {} /\ gone \subseteq {i}
  OBVIOUS
<1> HIDE DEF r, gone
<1>4. known' = (known \ {i}) \cup r.started /\ expired' = expired \ (r.started \cup {i})
  BY <1>1 DEF Tables
<1>5. Places'
  BY <1>1, <1>2, <1>4 DEF Places
<1>6. SocketsTyped' /\ InUse' /\ FirstOpens' /\ AllServed'
  <2>1. r.started \subseteq Ids /\ r.started \cap gone = {}
    BY <1>1, <1>2, <1>3 DEF Places
  <2>2. \A x \in act \ r.started : Restorable(x)' => Restorable(x)
    BY <1>4 DEF Restorable
  <2> HIDE DEF act
  <2> QED BY <1>1, <1>2, <1>3, <2>1, <2>2, LaunchKeeps
<1> QED BY <1>5, <1>6 DEF ClientInv

LEMMA CloseKeeps == ASSUME ClientInv, CloseClient PROVE ClientInv'
<1>1. SocketsTyped' /\ InUse' /\ FirstOpens' /\ AllServed'
  BY DEF CloseClient, ClientInv, SocketsTyped, InUse, FirstOpens, AllServed, Statuses
<1>2. Places'
  <2>1. known' = {}
    BY DEF CloseClient, Tables, ClientInv, Places
  <2>2. pending' \in Seq(Ids) /\ Once(pending') /\ Elems(pending') = {}
    BY DEF CloseClient, Once, Elems
  <2> QED BY <2>1, <2>2 DEF CloseClient, Places
<1> QED BY <1>1, <1>2 DEF ClientInv

-----------------------------------------------------------------------------
\* Steps that leave the places of the ids.

LEMMA TimerKeeps ==
  ASSUME ClientInv,
         \/ \E s \in Sockets : ConnectTimeout(s) \/ StartsClosing(s) \/ Closes(s) \/ Fails(s)
         \/ Reconnect \/ AfterClosed \/ AfterError
         \/ \E i \in Ids : Expire(i)
  PROVE  ClientInv'
<1>1. Places'
  BY DEF ConnectTimeout, StartsClosing, Closes, Fails, Reconnect, AfterClosed, AfterError, Expire,
         table, ClientInv, Places
<1>2. SocketsTyped /\ InUse /\ FirstOpens /\ AllServed
  BY DEF ClientInv
<1>3. ASSUME NEW s \in Sockets, ConnectTimeout(s) \/ StartsClosing(s) \/ Closes(s) \/ Fails(s)
      PROVE  ClientInv'
  <2>1. SocketsTyped' /\ FirstOpens'
    BY <1>2, <1>3 DEF ConnectTimeout, StartsClosing, Closes, Fails, Lost, relay, SocketsTyped,
                      FirstOpens, Statuses
  <2>2. InUse'
    BY <1>2, <1>3 DEF ConnectTimeout, StartsClosing, Closes, Fails, SocketsTyped, InUse
  <2>3. AllServed'
    <3>1. CASE ConnectTimeout(s) /\ state # "connecting"
      BY <1>2, <3>1 DEF ConnectTimeout, AllServed, Served, Restorable, CanSend, relay, table
    <3>2. CASE StartsClosing(s)
      <4>1. /\ pc = "none" /\ socks[s] = "open" /\ socks' = [socks EXCEPT ![s] = "closing"]
            /\ remote' = [remote EXCEPT ![s] = {}]
            /\ UNCHANGED <<state, socket, reconnectTimer, active, table, answers, pc>>
        BY <3>2 DEF StartsClosing
      <4>2. \A t \in Sockets : socks'[t] = IF t = s THEN "closing" ELSE socks[t]
        BY <1>2, <4>1 DEF SocketsTyped
      <4>3. \A t \in Sockets : t # s => remote'[t] = remote[t]
        BY <1>2, <4>1 DEF SocketsTyped
      <4>4. socket # None => socket \in Sockets
        BY <1>2 DEF SocketsTyped
      <4> QED BY <1>2, <4>1, <4>2, <4>3, <4>4 DEF AllServed, Served, Restorable, CanSend, table
    <3>3. CASE pc' \in {"closing", "erroring"}
      BY <3>3 DEF AllServed
    <3> QED BY <1>3, <3>1, <3>2, <3>3 DEF ConnectTimeout, Closes, Fails
  <2> QED BY <1>1, <2>1, <2>2, <2>3 DEF ClientInv
<1>4. CASE Reconnect
  <2>1. PICK s \in Sockets : Connect(s)
    BY <1>4 DEF Reconnect
  <2>2. /\ state' = "connecting" /\ socket' = s /\ s # None /\ socks'[s] = "connecting"
        /\ socks' = [socks EXCEPT ![s] = "connecting"]
        /\ UNCHANGED <<remote, pc, opened, queue, active>>
    BY <1>2, <1>4, <2>1, ClientAssumption DEF Connect, Reconnect, relay, SocketsTyped
  <2>3. SocketsTyped' /\ InUse' /\ FirstOpens'
    BY <1>2, <2>2 DEF SocketsTyped, InUse, FirstOpens, Statuses
  <2>4. AllServed'
    BY <2>2 DEF AllServed, Served
  <2> QED BY <1>1, <2>3, <2>4 DEF ClientInv
<1>5. CASE AfterClosed \/ AfterError
  <2>1. /\ reconnectTimer' = (reconnectTimer \/ ShouldReconnect)
        /\ socket' \in {socket, None} /\ pc' \in {"none", "microtasks"}
        /\ AfterClosed => pc = "closing"
        /\ AfterError => socket' = None
        /\ UNCHANGED <<state, socks, opened, queue, active, table, remote, finallyClosed>>
    BY <1>2, <1>5 DEF AfterClosed, AfterError, relay
  <2>2. SocketsTyped' /\ InUse' /\ FirstOpens'
    BY <1>2, <1>5, <2>1 DEF SocketsTyped, InUse, FirstOpens
  <2>3. \A i \in active' : Restorable(i)' => reconnectTimer'
    <3> SUFFICES ASSUME NEW i \in active', Restorable(i)' PROVE reconnectTimer'
      OBVIOUS
    <3>1. i \in active /\ Restorable(i)
      BY <2>1 DEF Restorable, table
    <3>2. ~finallyClosed
      BY <3>1 DEF ClientInv, Places
    <3> QED BY <2>1, <3>1, <3>2 DEF ShouldReconnect
  <2>4. AllServed'
    BY <2>3 DEF AllServed, Served
  <2> QED BY <1>1, <2>2, <2>4 DEF ClientInv
<1>6. ASSUME NEW i \in Ids, Expire(i) PROVE ClientInv'
  <2>1. /\ expired' = expired \cup {i} /\ pc' = pc
        /\ UNCHANGED <<net, opened, queue, active, relay>>
    BY <1>6 DEF Expire, relay
  <2>2. SocketsTyped' /\ InUse' /\ FirstOpens'
    BY <1>2, <2>1 DEF SocketsTyped, InUse, FirstOpens, net, relay
  <2>3. AllServed'
    BY <1>2, <2>1 DEF AllServed, Served, Restorable, CanSend, net, relay
  <2> QED BY <1>1, <2>2, <2>3 DEF ClientInv
<1> QED BY <1>3, <1>4, <1>5, <1>6

-----------------------------------------------------------------------------
\* A reopened client gives the places of what it does not restore away.
Refilled == IF opened THEN Fill({i \in active : Restorable(i)}, pending)
            ELSE [active |-> active, pending |-> pending, started |-> {}]

LEMMA RefilledFacts ==
  ASSUME ClientInv
  PROVE  /\ Refilled.pending \in Seq(Ids) /\ Once(Refilled.pending)
         /\ Refilled.started \subseteq Elems(pending)
         /\ Refilled.active \subseteq active \cup Refilled.started
         /\ Elems(Refilled.pending) \subseteq Elems(pending) \ Refilled.started
         /\ ~opened => Refilled.active = active
<1> DEFINE a == {i \in active : Restorable(i)}
<1>1. pending \in Seq(Ids) /\ Once(pending)
  BY DEF ClientInv, Places
<1>2. CASE opened
  <2>1. Refilled = Fill(a, pending) /\ a \subseteq active
    BY <1>2 DEF Refilled
  <2> HIDE DEF a
  <2> QED BY <1>1, <1>2, <2>1, FillFacts
<1>3. CASE ~opened
  BY <1>1, <1>3 DEF Refilled
<1> QED BY <1>2, <1>3

LEMMA RefillPlaces ==
  ASSUME ClientInv, active' = Refilled.active, pending' = Refilled.pending,
         Tables(Refilled.started, {}), UNCHANGED <<finallyClosed, wanted>>
  PROVE  Places'
<1>1. known' = known \cup Refilled.started
  BY DEF Tables
<1>2. Places
  BY DEF ClientInv
<1>3. finallyClosed => Refilled.active = {}
  BY <1>2, RefilledFacts DEF Places
<1> QED BY <1>1, <1>2, <1>3, RefilledFacts DEF Places

LEMMA OpensKeeps == ASSUME ClientInv, NEW s \in Sockets, Opens(s) PROVE ClientInv'
<1>1. /\ SocketsTyped /\ FirstOpens /\ Places /\ s = socket /\ s # None
      /\ state' = "open" /\ opened' /\ socks' = [socks EXCEPT ![s] = "open"]
      /\ socket' = socket /\ pc' = pc /\ UNCHANGED <<finallyClosed, wanted>>
  BY ClientAssumption DEF Opens, ClientInv
<1>2. socks'[s] = "open"
  BY <1>1 DEF SocketsTyped
<1>3. Places' /\ active' \subseteq remote'[s] /\ DOMAIN remote' = Sockets
  <2>1. CASE opened
    <3>1. /\ active' = Refilled.active /\ pending' = Refilled.pending
          /\ Tables(Refilled.started, {})
          /\ remote' = [remote EXCEPT ![s] = Refilled.active \cup queue]
      BY <2>1 DEF Opens, Refilled
    <3> QED BY <1>1, <3>1, RefillPlaces DEF SocketsTyped
  <2>2. CASE ~opened
    <3>1. /\ remote' = [remote EXCEPT ![s] = queue]
          /\ UNCHANGED <<active, pending, table>>
      BY <2>2 DEF Opens
    <3> QED BY <1>1, <2>2, <3>1 DEF SocketsTyped, FirstOpens, Places, table
  <2> QED BY <2>1, <2>2
<1>4. SocketsTyped' /\ InUse' /\ FirstOpens'
  BY <1>1, <1>2, <1>3 DEF SocketsTyped, InUse, FirstOpens, Statuses
<1>5. AllServed'
  BY <1>1, <1>2, <1>3 DEF AllServed, Served, CanSend
<1> QED BY <1>3, <1>4, <1>5 DEF ClientInv

LEMMA StrayOpensKeeps == ASSUME ClientInv, NEW s \in Sockets, StrayOpens(s) PROVE ClientInv'
<1> DEFINE again == IF opened THEN Refilled.active ELSE {}
           here  == socket # None /\ socks[socket] = "open"
<1>1. /\ SocketsTyped /\ InUse /\ FirstOpens /\ AllServed /\ pc = "none" /\ s # socket
      /\ opened' /\ pc' = pc /\ UNCHANGED <<finallyClosed, wanted, answers>>
      /\ active' = Refilled.active /\ pending' = Refilled.pending /\ Tables(Refilled.started, {})
      /\ remote' = IF here THEN [remote EXCEPT ![socket] = @ \cup again \cup queue]
                   ELSE remote
  BY DEF StrayOpens, ClientInv, Refilled
<1>2. \/ /\ socket # None \/ again = {}
         /\ state' = "open" /\ socks' = [socks EXCEPT ![s] = "open"]
         /\ UNCHANGED <<socket, reconnectTimer>>
      \/ \E t \in Sockets : /\ Free(t) /\ state' = "connecting" /\ socket' = t
                            /\ socks' = [socks EXCEPT ![s] = "open", ![t] = "connecting"]
  BY DEF StrayOpens, Refilled
<1>3. Places'
  BY <1>1, RefillPlaces
<1>4. DOMAIN remote' = Sockets
  BY <1>1 DEF SocketsTyped
<1>5. \A i \in active' : Restorable(i)' /\ ~opened => i \in active /\ Restorable(i)
  <2>1. ~opened => Refilled.active = active /\ Refilled.started = {}
    BY RefilledFacts DEF Refilled
  <2> QED BY <1>1, <2>1 DEF Tables, Restorable
<1>6. CASE /\ socket # None \/ again = {}
           /\ state' = "open" /\ socks' = [socks EXCEPT ![s] = "open"]
           /\ UNCHANGED <<socket, reconnectTimer>>
  <2>1. socket # None => socks'[socket] = socks[socket] /\ socks[socket] \in Statuses \ {"unused"}
    BY <1>1, <1>6 DEF SocketsTyped, InUse
  <2>2. SocketsTyped' /\ InUse' /\ FirstOpens'
    BY <1>1, <1>4, <1>6, <2>1 DEF SocketsTyped, InUse, FirstOpens, Statuses
  <2>3. CASE opened
    <3>1. ASSUME NEW i \in active' PROVE Served(i)'
      <4>1. i \in again
        BY <1>1, <2>3, <3>1
      <4>2. socket # None
        BY <1>6, <4>1
      <4>3. CASE here
        <5>1. i \in remote'[socket]
          BY <1>1, <4>1, <4>2, <4>3 DEF SocketsTyped
        <5> QED BY <1>6, <2>1, <4>2, <4>3, <5>1 DEF Served, CanSend
      <4>4. CASE ~here
        BY <1>6, <2>1, <4>2, <4>4 DEF Served, Statuses
      <4> QED BY <4>3, <4>4
    <3>2. AllServed'
      BY <3>1 DEF AllServed
    <3> QED BY <1>3, <2>2, <3>2 DEF ClientInv
  <2>4. CASE ~opened
    <3>1. ASSUME NEW i \in active', Restorable(i)' PROVE Served(i)'
      <4>1. Served(i) /\ Restorable(i) /\ ~CanSend
        BY <1>1, <1>5, <2>4, <3>1 DEF AllServed, FirstOpens, CanSend, SocketsTyped
      <4> QED BY <1>6, <2>1, <4>1 DEF Served
    <3>2. \A i : ~Restorable(i)' => Served(i)'
      BY DEF Served
    <3>3. AllServed'
      BY <3>1, <3>2 DEF AllServed
    <3> QED BY <1>3, <2>2, <3>3 DEF ClientInv
  <2> QED BY <2>3, <2>4
<1>7. ASSUME NEW t \in Sockets, Free(t), state' = "connecting", socket' = t,
             socks' = [socks EXCEPT ![s] = "open", ![t] = "connecting"]
      PROVE  ClientInv'
  <2>1. socks'[t] = "connecting" /\ t # None
    BY <1>1, <1>7, ClientAssumption DEF SocketsTyped
  <2>2. SocketsTyped' /\ InUse' /\ FirstOpens'
    BY <1>1, <1>4, <1>7, <2>1 DEF SocketsTyped, InUse, FirstOpens, Statuses
  <2>3. AllServed'
    BY <1>7, <2>1 DEF AllServed, Served
  <2> QED BY <1>3, <2>2, <2>3 DEF ClientInv
<1> QED BY <1>2, <1>6, <1>7

-----------------------------------------------------------------------------
\* Messages. A CLOSED message stands for what it closed until it is handled.

LEMMA AnswerKeeps ==
  ASSUME ClientInv, NEW s \in Sockets, NEW i \in Ids, NEW kind, Answer(s, i, kind)
  PROVE  ClientInv'
<1> DEFINE m == [socket |-> s, id |-> i, kind |-> kind]
<1>1. /\ answers' = answers \cup {m}
      /\ remote' = IF kind = "eose" THEN remote ELSE [remote EXCEPT ![s] = @ \ {i}]
      /\ UNCHANGED <<net, opened, finallyClosed, queue, active, pending, table, pc, wanted>>
  BY DEF Answer
<1>2. SocketsTyped' /\ InUse' /\ FirstOpens' /\ Places'
  BY <1>1 DEF ClientInv, SocketsTyped, InUse, FirstOpens, Places, net, table
<1>3. AllServed'
  <2> SUFFICES ASSUME NEW j \in active, Served(j) PROVE Served(j)'
    BY <1>1 DEF ClientInv, AllServed
  <2>1. \A t \in Sockets : j \in remote[t] => \/ j \in remote'[t]
                                              \/ t = s /\ j = i /\ kind # "eose"
    BY <1>1 DEF ClientInv, SocketsTyped
  <2>2. m \in answers' /\ m.socket = s /\ m.id = i /\ m.kind = kind /\ answers \subseteq answers'
    BY <1>1
  <2> HIDE DEF m
  <2>3. /\ socket' = socket /\ socks' = socks /\ reconnectTimer' = reconnectTimer
        /\ (CanSend)' = CanSend /\ (Restorable(j))' = Restorable(j)
        /\ CanSend => socket \in Sockets
    BY <1>1 DEF net, table, CanSend, Restorable, ClientInv, SocketsTyped
  <2> QED BY <2>1, <2>2, <2>3 DEF Served
<1> QED BY <1>2, <1>3 DEF ClientInv

\* The places after a message about id took it from the active ones.
LEMMA ReleasePlaces ==
  ASSUME ClientInv, NEW id, active' = Fill(active \ {id}, pending).active,
         pending' = Fill(active \ {id}, pending).pending,
         known' = known \cup Fill(active \ {id}, pending).started,
         UNCHANGED <<finallyClosed, wanted>>
  PROVE  /\ Places'
         /\ Fill(active \ {id}, pending).active =
              (active \ {id}) \cup Fill(active \ {id}, pending).started
         /\ Fill(active \ {id}, pending).started \subseteq Elems(pending)
<1> DEFINE a == active \ {id}
<1>1. Places
  BY DEF ClientInv
<1>2. /\ Fill(a, pending).active = a \cup Fill(a, pending).started
      /\ Fill(a, pending).started \subseteq Elems(pending)
      /\ Fill(a, pending).pending \in Seq(Ids) /\ Once(Fill(a, pending).pending)
      /\ Elems(Fill(a, pending).pending) \subseteq Elems(pending) \ Fill(a, pending).started
  <2> HIDE DEF a
  <2> QED BY <1>1, FillFacts DEF Places
<1> QED BY <1>1, <1>2 DEF Places

LEMMA EoseKeeps == ASSUME ClientInv, NEW m \in answers, ReceiveEose(m) PROVE ClientInv'
<1>1. /\ m.kind = "eose" /\ answers' = answers \ {m} /\ Places
      /\ UNCHANGED <<opened, finallyClosed, pc, wanted>>
  BY DEF ReceiveEose, ClientInv
<1>2. CASE m.id \in known \ Live
  <2> DEFINE r == Fill(active \ {m.id}, pending)
  <2>1. /\ active' = r.active /\ pending' = r.pending /\ Launch(r.started, {m.id})
        /\ known' = known \cup r.started /\ expired' = expired \ r.started
    BY <1>2 DEF ReceiveEose
  <2>2. /\ Places' /\ r.active = (active \ {m.id}) \cup r.started
        /\ r.started \subseteq Elems(pending)
    BY <1>1, <2>1, ReleasePlaces
  <2> HIDE DEF r
  <2>3. r.started \subseteq Ids /\ r.started \cap {m.id} = {}
    BY <1>1, <1>2, <2>2 DEF Places
  <2>4. SocketsTyped' /\ InUse' /\ FirstOpens' /\ AllServed'
    <3> DEFINE a == active \ {m.id}
               gone == {m.id}
    <3>1. a \subseteq active /\ a \cap gone = {} /\ r.started \cap gone = {}
      BY <2>3
    <3>2. \A x \in a \ r.started : Restorable(x)' => Restorable(x)
      BY <2>1 DEF Restorable
    <3>3. \A n \in answers : n.id \in a /\ n.kind # "eose" => n \in answers'
      BY <1>1
    <3>4. Launch(r.started, gone) /\ active' = a \cup r.started
      BY <2>1, <2>2
    <3> HIDE DEF a, gone
    <3> QED BY <1>1, <2>3, <3>1, <3>2, <3>3, <3>4, LaunchKeeps
  <2> QED BY <2>2, <2>4 DEF ClientInv
<1>3. CASE m.id \notin known \ Live
  <2>1. UNCHANGED <<net, queue, active, pending, known, expired, remote>>
    BY <1>3 DEF ReceiveEose
  <2>2. SocketsTyped' /\ InUse' /\ FirstOpens' /\ Places'
    BY <1>1, <2>1 DEF ClientInv, SocketsTyped, InUse, FirstOpens, Places, net
  <2>3. AllServed'
    BY <1>1, <2>1 DEF ClientInv, AllServed, Served, Restorable, CanSend, net
  <2> QED BY <2>2, <2>3 DEF ClientInv
<1> QED BY <1>2, <1>3

LEMMA ClosedKeeps == ASSUME ClientInv, NEW m \in answers, ReceiveClosed(m) PROVE ClientInv'
<1> DEFINE r == Fill(active \ {m.id}, pending)
<1>1. /\ answers' = answers \ {m} /\ Places /\ UNCHANGED <<opened, finallyClosed, pc, wanted>>
      /\ active' = r.active /\ pending' = r.pending /\ Launch(r.started, {})
      /\ known' = known \cup r.started /\ expired' = expired \ r.started
  BY DEF ReceiveClosed, ClientInv
<1>2. /\ Places' /\ r.active = (active \ {m.id}) \cup r.started
      /\ r.started \subseteq Elems(pending)
  BY <1>1, ReleasePlaces
<1> HIDE DEF r
<1>3. SocketsTyped' /\ InUse' /\ FirstOpens' /\ AllServed'
  <2> DEFINE a == active \ {m.id}
  <2>1. a \subseteq active /\ r.started \subseteq Ids
    BY <1>1, <1>2 DEF Places
  <2>2. \A x \in a \ r.started : Restorable(x)' => Restorable(x)
    BY <1>1 DEF Restorable
  <2>3. \A n \in answers : n.id \in a /\ n.kind # "eose" => n \in answers'
    BY <1>1
  <2>4. active' = a \cup r.started
    BY <1>1, <1>2
  <2> HIDE DEF a
  <2> QED BY <1>1, <2>1, <2>2, <2>3, <2>4, LaunchKeeps
<1> QED BY <1>2, <1>3 DEF ClientInv

-----------------------------------------------------------------------------
LEMMA ClientStarts == ClientInit => ClientInv
<1> SUFFICES ASSUME ClientInit PROVE ClientInv OBVIOUS
<1>1. pending \in Seq(Ids) /\ Once(pending) /\ Elems(pending) = {}
  BY DEF ClientInit, Once, Elems
<1> QED BY <1>1 DEF ClientInit, ClientInv, SocketsTyped, InUse, FirstOpens, Places, AllServed,
                    Statuses

LEMMA ClientStep == ClientInv /\ [ClientNext]_clientVars => ClientInv'
<1> SUFFICES ASSUME ClientInv, [ClientNext]_clientVars PROVE ClientInv' OBVIOUS
<1>1. ASSUME NEW i \in Ids, Subscribe(i) \/ CloseSubscription(i) \/ Expire(i) PROVE ClientInv'
  BY <1>1, SubscribeKeeps, UnsubscribeKeeps, TimerKeeps
<1>2. CASE CloseClient \/ Reconnect \/ AfterClosed \/ AfterError
  BY <1>2, CloseKeeps, TimerKeeps
<1>3. ASSUME NEW s \in Sockets, \/ ConnectTimeout(s) \/ Opens(s) \/ StrayOpens(s)
                                \/ StartsClosing(s) \/ Closes(s) \/ Fails(s)
      PROVE  ClientInv'
  BY <1>3, TimerKeeps, OpensKeeps, StrayOpensKeeps
<1>4. ASSUME NEW s \in Sockets, NEW i \in Ids, NEW k \in Kinds, Answer(s, i, k)
      PROVE  ClientInv'
  BY <1>4, AnswerKeeps
<1>5. ASSUME NEW m \in answers, ReceiveEose(m) \/ ReceiveClosed(m) PROVE ClientInv'
  BY <1>5, EoseKeeps, ClosedKeeps
<1>6. CASE UNCHANGED clientVars
  <2>1. SocketsTyped' /\ InUse' /\ FirstOpens' /\ Places'
    BY <1>6 DEF clientVars, net, table, relay, ClientInv, SocketsTyped, InUse, FirstOpens, Places
  <2>2. AllServed'
    BY <1>6 DEF clientVars, net, table, relay, ClientInv, AllServed, Served, Restorable, CanSend
  <2> QED BY <2>1, <2>2 DEF ClientInv
<1> QED BY <1>1, <1>2, <1>3, <1>4, <1>5, <1>6 DEF ClientNext

\* However the sockets of a relay open, hang, fail and close, with whatever
\* listeners and continuations call in between, no active subscription that is
\* worth restoring is stranded.
THEOREM SubscriptionsAreServed == ClientSpec => []ActiveIsServed
<1>1. ClientInv => ActiveIsServed
  <2> SUFFICES ASSUME ClientInv, pc = "none", NEW i \in active, Served(i)
               PROVE  \/ ~Restorable(i)
                      \/ reconnectTimer
                      \/ socket # None /\ socks[socket] \in {"connecting", "closing", "failed"}
                      \/ CanSend /\ \/ i \in remote[socket]
                                    \/ \E m \in answers : m.socket = socket /\ m.id = i
    BY DEF ClientInv, AllServed, ActiveIsServed
  <2> QED BY DEF Served
<1> QED BY <1>1, ClientStarts, ClientStep, PTL DEF ClientSpec
=============================================================================
