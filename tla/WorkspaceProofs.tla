-------------------------- MODULE WorkspaceProofs --------------------------
(***************************************************************************)
(* The workspace of a page (WorkspaceSession), for any startup tabs, keys  *)
(* and names and any number of commands, saves and page loads: no command  *)
(* makes a workspace that a start would have to repair, and only a close   *)
(* takes a tab.  First what the filters and insertions of PaneLayout and   *)
(* TabWorkspace do to sequences, groups and layouts.                       *)
(***************************************************************************)
EXTENDS WorkspaceSession, SequenceTheorems, FiniteSetTheorems, WellFoundedInduction, TLAPS

------------------------------------------------------------------------------
(* Filters                                                                 *)

\* The natural numbers are reached one by one.
LEMMA UpToEveryNumber ==
    ASSUME NEW T, T \subseteq Nat, 0 \in T, \A n \in T : n + 1 \in T
    PROVE  \A n \in Nat : n \in T
<1> SUFFICES ASSUME Nat \ T # {} PROVE FALSE
  OBVIOUS
<1> DEFINE R == OpToRel(<, Nat)
<1>1. PICK n \in Nat \ T : \A m \in Nat \ T : <<m, n>> \notin R
  <2>1. IsWellFoundedOn(R, Nat)
    BY NatLessThanWellFounded
  <2> HIDE DEF R
  <2> QED BY <2>1, WFMin
<1>2. \A m \in Nat \ T : ~(m < n)
  BY <1>1 DEF OpToRel
<1>3. n - 1 \in Nat
  OBVIOUS
<1>4. n - 1 \in T
  BY <1>2, <1>3
<1> QED BY <1>4

\* The function Filtered is defined by.
Passed(s, S, f, n) ==
    IF n = 0 THEN <<>>
    ELSE IF s[n] \in S THEN Append(f[n - 1], s[n]) ELSE f[n - 1]
Filters(s, S, f) == f = [n \in 0..Len(s) |-> Passed(s, S, f, n)]

LEMMA FiltersExist ==
    ASSUME NEW X, NEW s \in Seq(X), NEW S
    PROVE  \E f : Filters(s, S, f)
<1> DEFINE UpTo(f, n) == \A k \in 0..n : f[k] = Passed(s, S, f, k)
           T == {n \in Nat : \E f : UpTo(f, n)}
<1>1. 0 \in T
  <2> DEFINE f == [k \in {0} |-> <<>>]
  <2>1. \A k \in 0..0 : k = 0
    OBVIOUS
  <2>2. f[0] = <<>>
    OBVIOUS
  <2>3. UpTo(f, 0)
    BY <2>1, <2>2 DEF Passed
  <2> HIDE DEF UpTo, f
  <2> QED BY <2>3
<1>2. ASSUME NEW n \in T PROVE n + 1 \in T
  <2>1. PICK f : UpTo(f, n)
    OBVIOUS
  <2> DEFINE h == [k \in 0..(n + 1) |-> IF k <= n THEN f[k] ELSE Passed(s, S, f, n + 1)]
  <2>2. \A k \in 0..n : h[k] = f[k]
    OBVIOUS
  <2>3. h[n + 1] = Passed(s, S, f, n + 1)
    OBVIOUS
  <2> HIDE DEF h
  <2>4. ASSUME NEW k \in 0..(n + 1) PROVE Passed(s, S, h, k) = Passed(s, S, f, k)
    <3>1. k = 0 \/ (k - 1 \in 0..n)
      OBVIOUS
    <3> QED BY <2>2, <3>1 DEF Passed
  <2>5. UpTo(h, n + 1)
    <3> SUFFICES ASSUME NEW k \in 0..(n + 1) PROVE h[k] = Passed(s, S, h, k)
      OBVIOUS
    <3>1. k \in 0..n \/ k = n + 1
      OBVIOUS
    <3> HIDE DEF T
    <3> QED BY <2>1, <2>2, <2>3, <2>4, <3>1
  <2> HIDE DEF UpTo
  <2> QED BY <2>5
<1>3. Len(s) \in T
  <2>1. T \subseteq Nat /\ Len(s) \in Nat
    OBVIOUS
  <2> HIDE DEF T
  <2>2. \A n \in T : n + 1 \in T
    BY <1>2
  <2>3. \A n \in Nat : n \in T
    BY <1>1, <2>1, <2>2, UpToEveryNumber
  <2> QED BY <2>1, <2>3
<1>4. PICK f : UpTo(f, Len(s))
  BY <1>3
<1> DEFINE h == [k \in 0..Len(s) |-> f[k]]
<1>5. \A k \in 0..Len(s) : Passed(s, S, h, k) = Passed(s, S, f, k)
  <2> SUFFICES ASSUME NEW k \in 0..Len(s) PROVE Passed(s, S, h, k) = Passed(s, S, f, k)
    OBVIOUS
  <2>1. k = 0 \/ (k - 1 \in 0..Len(s))
    OBVIOUS
  <2>2. \A m \in 0..Len(s) : h[m] = f[m]
    OBVIOUS
  <2> HIDE DEF h
  <2> QED BY <2>1, <2>2 DEF Passed
<1>6. Filters(s, S, h)
  BY <1>4, <1>5 DEF Filters
<1> QED BY <1>6

\* What a filter returns: entries of the sequence, all those in the set, each
\* as often as before, and the sequence itself where all are in the set.
LEMMA FilteredEntries ==
    ASSUME NEW X, NEW s \in Seq(X), NEW S
    PROVE  /\ Filtered(s, S) \in Seq(X \cap S)
           /\ ToSet(Filtered(s, S)) = ToSet(s) \cap S
           /\ IsInjective(s) => IsInjective(Filtered(s, S))
           /\ ToSet(s) \subseteq S => Filtered(s, S) = s
<1> DEFINE f == CHOOSE f : Filters(s, S, f)
           First(n) == {s[k] : k \in 1..n}
<1>1. Filters(s, S, f)
  BY FiltersExist
<1>2. Filtered(s, S) = f[Len(s)]
  BY DEF Filtered, Filters, Passed
<1>3. \A n \in 0..Len(s) : f[n] = Passed(s, S, f, n)
  <2> HIDE DEF f
  <2> QED BY <1>1 DEF Filters
<1> HIDE DEF f
<1> DEFINE Good(n) ==
      /\ f[n] \in Seq(X \cap S)
      /\ ToSet(f[n]) = First(n) \cap S
      /\ IsInjective(s) => IsInjective(f[n])
      /\ First(n) \subseteq S => f[n] = SubSeq(s, 1, n)
    T == {n \in Nat : n <= Len(s) => Good(n)}
<1>4. Good(0)
  <2>1. f[0] = <<>>
    <3>1. 0 \in 0..Len(s)
      OBVIOUS
    <3>2. Passed(s, S, f, 0) = <<>>
      BY DEF Passed
    <3> QED BY <1>3, <3>1, <3>2
  <2>2. First(0) = {} /\ SubSeq(s, 1, 0) = <<>>
    OBVIOUS
  <2>3. f[0] \in Seq(X \cap S) /\ ToSet(f[0]) = {} /\ IsInjective(f[0])
    BY <2>1 DEF ToSet, IsInjective
  <2> QED BY <2>1, <2>2, <2>3
<1>5. ASSUME NEW n \in T PROVE n + 1 \in T
  <2> SUFFICES ASSUME n + 1 <= Len(s) PROVE Good(n + 1)
    OBVIOUS
  <2>1. Good(n) /\ n \in Nat
    OBVIOUS
  <2>2. s[n + 1] \in X /\ First(n + 1) = First(n) \cup {s[n + 1]}
    OBVIOUS
  <2>3. CASE s[n + 1] \in S
    <3>1. f[n + 1] = Append(f[n], s[n + 1])
      <4>1. n + 1 \in 0..Len(s) /\ (n + 1) - 1 = n /\ n + 1 # 0
        BY <2>1
      <4>2. Passed(s, S, f, n + 1) = Append(f[n], s[n + 1])
        BY <2>3, <4>1 DEF Passed
      <4> HIDE DEF T
      <4> QED BY <1>3, <4>1, <4>2
    <3>2. IsInjective(s) => s[n + 1] \notin First(n)
      BY <2>1 DEF IsInjective
    <3> HIDE DEF T
    <3> DEFINE q == f[n]
               e == s[n + 1]
    <3>3. q \in Seq(X \cap S) /\ e \in X \cap S
      BY <2>1, <2>2, <2>3
    <3>4. f[n + 1] = Append(q, e)
      BY <3>1
    <3>5. ToSet(Append(q, e)) = ToSet(q) \cup {e}
      <4> HIDE DEF q, e
      <4>1. q \in Seq(X) /\ e \in X
        BY <3>3
      <4>3. \A i \in 1..Len(q) : Append(q, e)[i] = q[i]
        BY <4>1
      <4>4. Append(q, e)[Len(q) + 1] = e
        BY <4>1
      <4>5. DOMAIN Append(q, e) = 1..(Len(q) + 1) /\ DOMAIN q = 1..Len(q)
        BY <4>1
      <4> QED BY <4>1, <4>3, <4>4, <4>5 DEF ToSet
    <3>6. IsInjective(q) /\ e \notin ToSet(q) => IsInjective(Append(q, e))
      <4> HIDE DEF q, e
      <4> QED BY <3>3 DEF ToSet, IsInjective
    <3>7. q = SubSeq(s, 1, n) => Append(q, e) = SubSeq(s, 1, n + 1)
      BY <2>1
    <3>8. f[n + 1] \in Seq(X \cap S)
      BY <3>3, <3>4
    <3>9. ToSet(f[n + 1]) = First(n + 1) \cap S
      BY <2>1, <2>2, <2>3, <3>4, <3>5
    <3>10. IsInjective(s) => IsInjective(f[n + 1])
      BY <2>1, <3>2, <3>4, <3>6
    <3>11. First(n + 1) \subseteq S => f[n + 1] = SubSeq(s, 1, n + 1)
      BY <2>1, <2>2, <3>4, <3>7
    <3> QED BY <3>8, <3>9, <3>10, <3>11
  <2>4. CASE s[n + 1] \notin S
    <3>1. f[n + 1] = f[n]
      BY <1>3, <2>4, <2>1 DEF Passed
    <3> QED BY <2>1, <2>2, <2>4, <3>1
  <2> QED BY <2>3, <2>4
<1>6. Len(s) \in T
  <2>1. 0 \in T /\ T \subseteq Nat /\ Len(s) \in Nat
    BY <1>4
  <2> HIDE DEF T
  <2>2. \A n \in T : n + 1 \in T
    BY <1>5
  <2>3. \A n \in Nat : n \in T
    BY <2>1, <2>2, UpToEveryNumber
  <2> QED BY <2>1, <2>3
<1>7. Good(Len(s))
  BY <1>6
<1>8. First(Len(s)) = ToSet(s) /\ SubSeq(s, 1, Len(s)) = s
  BY DEF ToSet
<1> QED BY <1>2, <1>7, <1>8

\* A sequence with an entry inserted at a place.
LEMMA InsertedEntries ==
    ASSUME NEW X, NEW s \in Seq(X), NEW e \in X, NEW i \in 1..(Len(s) + 1)
    PROVE  /\ InsertAt(s, i, e) \in Seq(X)
           /\ Len(InsertAt(s, i, e)) = Len(s) + 1
           /\ \A j \in 1..(Len(s) + 1) :
                InsertAt(s, i, e)[j] = IF j < i THEN s[j] ELSE IF j = i THEN e ELSE s[j - 1]
<1> DEFINE left == SubSeq(s, 1, i - 1)
           right == SubSeq(s, i, Len(s))
<1>1. left \in Seq(X) /\ Len(left) = i - 1 /\ \A j \in 1..(i - 1) : left[j] = s[j]
  OBVIOUS
<1>2. right \in Seq(X) /\ Len(right) = Len(s) - i + 1
      /\ \A j \in 1..(Len(s) - i + 1) : right[j] = s[i + j - 1]
  OBVIOUS
<1> HIDE DEF left, right
<1> DEFINE front == left \o <<e>>
<1>3. front \in Seq(X) /\ Len(front) = i /\ front[i] = e /\ \A j \in 1..(i - 1) : front[j] = s[j]
  BY <1>1
<1> HIDE DEF front
<1>4. InsertAt(s, i, e) = front \o right
  BY DEF InsertAt, front, left, right
<1>5. \A j \in 1..(Len(s) + 1) :
        (front \o right)[j] = IF j < i THEN s[j] ELSE IF j = i THEN e ELSE s[j - 1]
  <2> SUFFICES ASSUME NEW j \in 1..(Len(s) + 1)
               PROVE  (front \o right)[j] = IF j < i THEN s[j] ELSE IF j = i THEN e ELSE s[j - 1]
    OBVIOUS
  <2>1. CASE j <= i
    BY <1>2, <1>3, <2>1
  <2>2. CASE j > i
    <3>1. (front \o right)[j] = right[j - i]
      BY <1>2, <1>3, <2>2
    <3>2. right[j - i] = s[i + (j - i) - 1]
      BY <1>2, <2>2
    <3> QED BY <2>2, <3>1, <3>2
  <2>3. j <= i \/ j > i
    OBVIOUS
  <2> QED BY <2>1, <2>2, <2>3, Zenon
<1>6. front \o right \in Seq(X) /\ Len(front \o right) = Len(s) + 1
  <2>1. front \o right \in Seq(X) /\ Len(front \o right) = Len(front) + Len(right)
    BY <1>2, <1>3, ConcatProperties
  <2>2. Len(front) + Len(right) = Len(s) + 1
    BY <1>2, <1>3
  <2> QED BY <2>1, <2>2
<1> QED BY <1>4, <1>5, <1>6, Zenon

------------------------------------------------------------------------------
(* Tab groups                                                              *)

\* A group of tabs: it lists tabs, each once, and its active one among them.
GoodGroup(g, tabs) ==
    /\ g \in [ids : Seq(tabs), active : tabs]
    /\ IsInjective(g.ids)
    /\ g.active \in ToSet(g.ids)

LEMMA GroupOfMoreTabs ==
    ASSUME NEW T, NEW U, T \subseteq U, NEW g, GoodGroup(g, T)
    PROVE  GoodGroup(g, U)
<1>1. g.ids \in Seq(U) /\ g.active \in U
  BY DEF GoodGroup
<1> QED BY <1>1 DEF GoodGroup

\* The tabs a good group lists are of the set.
LEMMA GroupLists ==
    ASSUME NEW T, NEW g, GoodGroup(g, T)
    PROVE  ToSet(g.ids) \subseteq T /\ g.ids # <<>> /\ ToSet(g.ids) # {}
BY DEF GoodGroup, ToSet

\* A group is as good for any set of tabs that holds those it lists.
LEMMA GroupOfItsTabs ==
    ASSUME NEW T, NEW U, NEW g, GoodGroup(g, T), ToSet(g.ids) \subseteq U
    PROVE  GoodGroup(g, U)
<1>1. \A i \in 1..Len(g.ids) : g.ids[i] \in U
  BY DEF GoodGroup, ToSet
<1>2. g.ids \in Seq(U)
  <2>1. g.ids = [i \in 1..Len(g.ids) |-> g.ids[i]] /\ Len(g.ids) \in Nat
    BY DEF GoodGroup
  <2> QED BY <1>1, <2>1
<1>3. g.active \in U
  BY DEF GoodGroup
<1> QED BY <1>2, <1>3 DEF GoodGroup

LEMMA OneTabGroup ==
    ASSUME NEW T, NEW t \in T
    PROVE  GoodGroup(NewGroup(t), T) /\ ToSet(NewGroup(t).ids) = {t}
<1>1. NewGroup(t) = [ids |-> <<t>>, active |-> t]
  BY DEF NewGroup
<1>2. <<t>> \in Seq(T) /\ ToSet(<<t>>) = {t} /\ IsInjective(<<t>>)
  BY DEF ToSet, IsInjective
<1> QED BY <1>1, <1>2 DEF GoodGroup

LEMMA ActivatedGroup ==
    ASSUME NEW T, NEW g, GoodGroup(g, T), NEW t, Has(g, t)
    PROVE  GoodGroup(Activate(g, t), T) /\ Activate(g, t).ids = g.ids
<1>1. Activate(g, t) = [ids |-> g.ids, active |-> t]
  BY DEF Activate, GoodGroup
<1>2. t \in T /\ t \in ToSet(g.ids)
  BY GroupLists DEF Has
<1> QED BY <1>1, <1>2 DEF GoodGroup

LEMMA AppendedEntries ==
    ASSUME NEW X, NEW s \in Seq(X), NEW e \in X
    PROVE  /\ Append(s, e) \in Seq(X)
           /\ ToSet(Append(s, e)) = ToSet(s) \cup {e}
           /\ IsInjective(s) /\ e \notin ToSet(s) => IsInjective(Append(s, e))
<1>1. \A i \in 1..Len(s) : Append(s, e)[i] = s[i]
  OBVIOUS
<1>2. Append(s, e)[Len(s) + 1] = e
  OBVIOUS
<1>3. DOMAIN Append(s, e) = 1..(Len(s) + 1) /\ DOMAIN s = 1..Len(s)
  OBVIOUS
<1>4. ToSet(Append(s, e)) = ToSet(s) \cup {e}
  BY <1>1, <1>2, <1>3 DEF ToSet
<1>5. IsInjective(s) /\ e \notin ToSet(s) => IsInjective(Append(s, e))
  BY <1>1, <1>2, <1>3 DEF ToSet, IsInjective
<1> QED BY <1>4, <1>5

LEMMA AddedTab ==
    ASSUME NEW T, NEW g, GoodGroup(g, T), NEW t \in T
    PROVE  GoodGroup(AddTab(g, t), T) /\ ToSet(AddTab(g, t).ids) = ToSet(g.ids) \cup {t}
<1>1. CASE Has(g, t)
  BY <1>1, ActivatedGroup DEF AddTab, Has
<1>2. CASE ~Has(g, t)
  <2>1. AddTab(g, t) = [ids |-> Append(g.ids, t), active |-> t]
    BY <1>2 DEF AddTab
  <2>2. g.ids \in Seq(T) /\ IsInjective(g.ids) /\ t \notin ToSet(g.ids)
    BY <1>2 DEF GoodGroup, Has
  <2>3. /\ Append(g.ids, t) \in Seq(T)
        /\ ToSet(Append(g.ids, t)) = ToSet(g.ids) \cup {t}
        /\ IsInjective(Append(g.ids, t))
    BY <2>2, AppendedEntries
  <2> QED BY <2>1, <2>3 DEF GoodGroup
<1> QED BY <1>1, <1>2

\* What is left of a group that a tab leaves.  A group that is left empty held
\* no other tab.
LEMMA LeftGroup ==
    ASSUME NEW T, NEW g, GoodGroup(g, T), NEW t \in ToSet(g.ids)
    PROVE  /\ Without(g, t).ids \in Seq(T)
           /\ ToSet(Without(g, t).ids) = ToSet(g.ids) \ {t}
           /\ Without(g, t).ids # <<>> => GoodGroup(Without(g, t), T)
           /\ Without(g, t).ids = <<>> => Len(g.ids) = 1
<1> DEFINE ids == Filtered(g.ids, ToSet(g.ids) \ {t})
<1>1. Without(g, t) = [ids |-> ids, active |-> IF g.active = t THEN LastOf(ids) ELSE g.active]
  BY DEF Without
<1>2. g.ids \in Seq(T) /\ IsInjective(g.ids) /\ g.active \in ToSet(g.ids)
  BY DEF GoodGroup
<1>3. ids \in Seq(T) /\ ToSet(ids) = ToSet(g.ids) \ {t} /\ IsInjective(ids)
  <2>1. /\ ids \in Seq(T \cap (ToSet(g.ids) \ {t}))
        /\ ToSet(ids) = ToSet(g.ids) \cap (ToSet(g.ids) \ {t})
        /\ IsInjective(ids)
    BY <1>2, FilteredEntries
  <2> HIDE DEF ids
  <2> QED BY <2>1
<1> HIDE DEF ids
<1>4. ASSUME ids # <<>> PROVE LastOf(ids) \in ToSet(ids) /\ ToSet(ids) \subseteq T
  BY <1>3, <1>4 DEF LastOf, Last, ToSet
<1>5. ASSUME ids # <<>> PROVE GoodGroup(Without(g, t), T)
  <2>1. Without(g, t).active \in ToSet(ids)
    BY <1>1, <1>2, <1>3, <1>4, <1>5
  <2> QED BY <1>1, <1>3, <1>4, <1>5, <2>1 DEF GoodGroup
<1>6. ASSUME ids = <<>> PROVE Len(g.ids) = 1
  <2>1. ToSet(ids) = {}
    BY <1>6 DEF ToSet
  <2>2. \A i \in 1..Len(g.ids) : g.ids[i] = t
    <3>1. ToSet(g.ids) \ {t} = {}
      BY <1>3, <2>1
    <3>2. \A i \in 1..Len(g.ids) : g.ids[i] \in ToSet(g.ids)
      BY <1>2 DEF ToSet
    <3> QED BY <3>1, <3>2
  <2>3. Len(g.ids) \in Nat /\ DOMAIN g.ids = 1..Len(g.ids)
    BY <1>2
  <2>4. 1 \in DOMAIN g.ids
    BY <2>3 DEF ToSet
  <2>5. ~(2 \in DOMAIN g.ids)
    BY <1>2, <2>2, <2>3, <2>4 DEF IsInjective
  <2>6. \A n \in Nat : 1 \in 1..n /\ ~(2 \in 1..n) => n = 1
    OBVIOUS
  <2> QED BY <2>3, <2>4, <2>5, <2>6, Zenon
<1> QED BY <1>1, <1>3, <1>5, <1>6

LEMMA MovedTab ==
    ASSUME NEW T, NEW g, GoodGroup(g, T), NEW t \in T, NEW index \in Nat
    PROVE  /\ GoodGroup(InsertMoved(g, t, index), T)
           /\ ToSet(InsertMoved(g, t, index).ids) = ToSet(g.ids) \cup {t}
<1> DEFINE ids == Filtered(g.ids, ToSet(g.ids) \ {t})
           at == IF index < Len(ids) THEN index ELSE Len(ids)
           next == InsertAt(ids, at + 1, t)
<1>1. InsertMoved(g, t, index) = [ids |-> next, active |-> t]
  BY DEF InsertMoved
<1>2. g.ids \in Seq(T) /\ IsInjective(g.ids)
  BY DEF GoodGroup
<1>3. ids \in Seq(T) /\ ToSet(ids) = ToSet(g.ids) \ {t} /\ IsInjective(ids)
  <2>1. /\ ids \in Seq(T \cap (ToSet(g.ids) \ {t}))
        /\ ToSet(ids) = ToSet(g.ids) \cap (ToSet(g.ids) \ {t})
        /\ IsInjective(ids)
    BY <1>2, FilteredEntries
  <2> HIDE DEF ids
  <2> QED BY <2>1
<1> HIDE DEF ids
<1>4. at + 1 \in 1..(Len(ids) + 1) /\ Len(ids) \in Nat
  BY <1>3
<1> DEFINE i == at + 1
<1> HIDE DEF at
<1>5. i \in 1..(Len(ids) + 1)
  BY <1>4
<1>6. next = InsertAt(ids, i, t)
  OBVIOUS
<1> HIDE DEF next, i
<1>7. /\ next \in Seq(T) /\ Len(next) = Len(ids) + 1
      /\ \A j \in 1..(Len(ids) + 1) :
           next[j] = IF j < i THEN ids[j] ELSE IF j = i THEN t ELSE ids[j - 1]
  <2>1. ids \in Seq(T)
    BY <1>3
  <2>2. InsertAt(ids, i, t) \in Seq(T) /\ Len(InsertAt(ids, i, t)) = Len(ids) + 1
    BY <1>5, <2>1, InsertedEntries
  <2>3. \A j \in 1..(Len(ids) + 1) :
          InsertAt(ids, i, t)[j] = IF j < i THEN ids[j] ELSE IF j = i THEN t ELSE ids[j - 1]
    BY <1>5, <2>1, InsertedEntries
  <2> QED BY <1>6, <2>2, <2>3
<1>8. t \notin ToSet(ids) /\ DOMAIN ids = 1..Len(ids) /\ DOMAIN next = 1..(Len(ids) + 1)
  BY <1>3, <1>7
<1>9. ToSet(next) = ToSet(ids) \cup {t}
  <2>1. ToSet(next) \subseteq ToSet(ids) \cup {t}
    <3> SUFFICES ASSUME NEW j \in DOMAIN next PROVE next[j] \in ToSet(ids) \cup {t}
      BY DEF ToSet
    <3>1. j < i => j \in DOMAIN ids /\ next[j] = ids[j]
      BY <1>4, <1>5, <1>7, <1>8
    <3>2. j = i => next[j] = t
      BY <1>7, <1>8
    <3>3. j > i => j - 1 \in DOMAIN ids /\ next[j] = ids[j - 1]
      BY <1>4, <1>5, <1>7, <1>8
    <3>4. j < i \/ j = i \/ j > i
      BY <1>4, <1>5, <1>8
    <3> QED BY <3>1, <3>2, <3>3, <3>4 DEF ToSet
  <2>2. ASSUME NEW k \in 1..Len(ids) PROVE ids[k] \in ToSet(next)
    <3>1. CASE k < i
      <4>1. next[k] = ids[k] /\ k \in DOMAIN next
        BY <1>4, <1>5, <1>7, <1>8, <3>1
      <4> QED BY <4>1 DEF ToSet
    <3>2. CASE ~(k < i)
      <4>1. next[k + 1] = ids[k] /\ k + 1 \in DOMAIN next
        BY <1>4, <1>5, <1>7, <1>8, <3>2
      <4> QED BY <4>1 DEF ToSet
    <3> QED BY <3>1, <3>2
  <2>3. t \in ToSet(next)
    BY <1>5, <1>7, <1>8 DEF ToSet
  <2> QED BY <1>8, <2>1, <2>2, <2>3 DEF ToSet
<1>10. IsInjective(next)
  <2> SUFFICES ASSUME NEW j \in DOMAIN next, NEW k \in DOMAIN next, j < k
               PROVE  next[j] # next[k]
    BY <1>4, <1>8 DEF IsInjective
  <2> DEFINE Was(m) == IF m < i THEN m ELSE m - 1
  <2>1. \A m \in DOMAIN next : m # i => Was(m) \in DOMAIN ids /\ next[m] = ids[Was(m)]
    BY <1>4, <1>5, <1>7, <1>8
  <2>2. j # i /\ k # i => Was(j) # Was(k)
    BY <1>4, <1>5, <1>8
  <2>3. next[i] = t
    BY <1>5, <1>7
  <2> HIDE DEF Was
  <2>4. CASE j # i /\ k # i
    BY <1>3, <2>1, <2>2, <2>4 DEF IsInjective
  <2>5. CASE j = i
    <3>1. k # i
      BY <1>4, <1>5, <1>8, <2>5
    <3> QED BY <1>8, <2>1, <2>3, <2>5, <3>1 DEF ToSet
  <2>6. CASE k = i
    <3>1. j # i
      BY <1>4, <1>5, <1>8, <2>6
    <3> QED BY <1>8, <2>1, <2>3, <2>6, <3>1 DEF ToSet
  <2> QED BY <2>4, <2>5, <2>6
<1>11. ToSet(next) = ToSet(g.ids) \cup {t}
  BY <1>3, <1>9
<1> QED BY <1>1, <1>7, <1>10, <1>11 DEF GoodGroup

------------------------------------------------------------------------------
(* Layouts                                                                 *)

Names == PaneNames \cup {"recovered", "welcome", "main"}
SplitNodes == [id : PaneNames \cup {"root"}, dir : Directions]
PaneNodes == [id : Names, group : Names, splits : Seq(SplitNodes)]

\* The panes of a layout are different, and show different groups.
Placed(l) ==
    /\ l \in Seq(PaneNodes)
    /\ \A i, j \in DOMAIN l : l[i].id = l[j].id \/ l[i].group = l[j].group => i = j

GroupsOf(l) == {l[i].group : i \in DOMAIN l}

LEMMA PaneIsFound ==
    ASSUME NEW l, Placed(l), NEW p \in PaneIds(l)
    PROVE  /\ PlaceOf(l, p) \in 1..Len(l) /\ FindPane(l, p) = l[PlaceOf(l, p)]
           /\ FindPane(l, p) \in PaneNodes
           /\ FindPane(l, p).id = p /\ FindPane(l, p).group \in GroupsOf(l)
           /\ \A i \in DOMAIN l : l[i].id = p => i = PlaceOf(l, p)
<1>1. DOMAIN l = 1..Len(l) /\ \A i \in DOMAIN l : l[i] \in PaneNodes
  BY DEF Placed
<1>2. \E i \in DOMAIN l : l[i].id = p
  BY DEF PaneIds
<1>3. PlaceOf(l, p) \in DOMAIN l /\ l[PlaceOf(l, p)].id = p
  BY <1>2 DEF PlaceOf
<1> QED BY <1>1, <1>3 DEF FindPane, GroupsOf, Placed

\* The groups shown are those of the panes, one each.
LEMMA GroupsOfPanes ==
    ASSUME NEW l, Placed(l)
    PROVE  /\ GroupsOf(l) = {FindPane(l, p).group : p \in PaneIds(l)}
           /\ \A p, q \in PaneIds(l) : FindPane(l, p).group = FindPane(l, q).group => p = q
<1>1. ASSUME NEW i \in DOMAIN l PROVE l[i].id \in PaneIds(l) /\ FindPane(l, l[i].id) = l[i]
  <2>1. l[i].id \in PaneIds(l)
    BY DEF PaneIds
  <2> QED BY <2>1, PaneIsFound
<1>2. ASSUME NEW p \in PaneIds(l), NEW q \in PaneIds(l), FindPane(l, p).group = FindPane(l, q).group
      PROVE  p = q
  <2>1. DOMAIN l = 1..Len(l)
    BY DEF Placed
  <2> QED BY <1>2, <2>1, PaneIsFound DEF Placed
<1>3. \A p \in PaneIds(l) : FindPane(l, p).group \in GroupsOf(l)
  BY PaneIsFound
<1> QED BY <1>1, <1>2, <1>3 DEF GroupsOf

\* A new pane anywhere in the sequence.
LEMMA PaneAdded ==
    ASSUME NEW l, Placed(l), NEW i \in 1..(Len(l) + 1), NEW n \in PaneNodes,
           n.id \notin PaneIds(l), n.group \notin GroupsOf(l)
    PROVE  /\ Placed(InsertAt(l, i, n))
           /\ PaneIds(InsertAt(l, i, n)) = PaneIds(l) \cup {n.id}
           /\ GroupsOf(InsertAt(l, i, n)) = GroupsOf(l) \cup {n.group}
<1> DEFINE m == InsertAt(l, i, n)
           Was(j) == IF j < i THEN j ELSE j - 1
           Now(j) == IF j < i THEN j ELSE j + 1
<1>1. l \in Seq(PaneNodes) /\ Len(l) \in Nat /\ DOMAIN l = 1..Len(l)
  BY DEF Placed
<1>2. /\ m \in Seq(PaneNodes) /\ Len(m) = Len(l) + 1
      /\ \A j \in 1..(Len(l) + 1) : m[j] = IF j < i THEN l[j] ELSE IF j = i THEN n ELSE l[j - 1]
  BY <1>1, InsertedEntries
<1> HIDE DEF m
<1>3. DOMAIN m = 1..(Len(l) + 1)
  BY <1>2
<1>4. m[i] = n /\ i \in DOMAIN m
  BY <1>2, <1>3
<1>5. \A j \in DOMAIN m : j # i => Was(j) \in DOMAIN l /\ m[j] = l[Was(j)]
  BY <1>1, <1>2, <1>3
<1>6. \A j \in DOMAIN l : Now(j) \in DOMAIN m /\ m[Now(j)] = l[j]
  BY <1>1, <1>2, <1>3
<1>7. \A j, k \in DOMAIN m : j # i /\ k # i /\ Was(j) = Was(k) => j = k
  BY <1>1, <1>3
<1> HIDE DEF Was, Now
<1>8. \A j \in DOMAIN m : j # i => m[j].id \in PaneIds(l) /\ m[j].group \in GroupsOf(l)
  BY <1>5 DEF PaneIds, GroupsOf
<1>9. ASSUME NEW j \in DOMAIN m, NEW k \in DOMAIN m, m[j].id = m[k].id \/ m[j].group = m[k].group
      PROVE  j = k
  <2>1. CASE j # i /\ k # i
    <3>1. Was(j) \in DOMAIN l /\ Was(k) \in DOMAIN l
          /\ (l[Was(j)].id = l[Was(k)].id \/ l[Was(j)].group = l[Was(k)].group)
      BY <1>5, <1>9, <2>1
    <3>2. Was(j) = Was(k)
      BY <3>1 DEF Placed
    <3> QED BY <1>7, <2>1, <3>2
  <2>2. CASE j = i \/ k = i
    BY <1>4, <1>8, <1>9, <2>2
  <2> QED BY <2>1, <2>2
<1>10. Placed(m)
  BY <1>2, <1>9 DEF Placed
<1>11. PaneIds(m) = PaneIds(l) \cup {n.id} /\ GroupsOf(m) = GroupsOf(l) \cup {n.group}
  <2>1. PaneIds(m) \subseteq PaneIds(l) \cup {n.id} /\ GroupsOf(m) \subseteq GroupsOf(l) \cup {n.group}
    BY <1>4, <1>8 DEF PaneIds, GroupsOf
  <2>2. n.id \in PaneIds(m) /\ n.group \in GroupsOf(m)
    BY <1>4 DEF PaneIds, GroupsOf
  <2>3. PaneIds(l) \subseteq PaneIds(m) /\ GroupsOf(l) \subseteq GroupsOf(m)
    BY <1>6 DEF PaneIds, GroupsOf
  <2> QED BY <2>1, <2>2, <2>3
<1> QED BY <1>10, <1>11 DEF m

\* Other splits around a pane.
LEMMA PaneWrapped ==
    ASSUME NEW l, Placed(l), NEW i \in DOMAIN l, NEW around \in Seq(SplitNodes)
    PROVE  /\ Placed([l EXCEPT ![i].splits = around])
           /\ PaneIds([l EXCEPT ![i].splits = around]) = PaneIds(l)
           /\ GroupsOf([l EXCEPT ![i].splits = around]) = GroupsOf(l)
           /\ Len([l EXCEPT ![i].splits = around]) = Len(l)
<1> DEFINE m == [l EXCEPT ![i].splits = around]
<1>1. l \in Seq(PaneNodes) /\ DOMAIN l = 1..Len(l) /\ \A j \in DOMAIN l : l[j] \in PaneNodes
  BY DEF Placed
<1>2. DOMAIN m = DOMAIN l /\ \A j \in DOMAIN l : m[j] = IF j = i THEN [l[i] EXCEPT !.splits = around] ELSE l[j]
  BY <1>1
<1>3. [l[i] EXCEPT !.splits = around] \in PaneNodes
      /\ [l[i] EXCEPT !.splits = around].id = l[i].id
      /\ [l[i] EXCEPT !.splits = around].group = l[i].group
  BY <1>1 DEF PaneNodes
<1>4. \A j \in DOMAIN l : m[j] \in PaneNodes /\ m[j].id = l[j].id /\ m[j].group = l[j].group
  BY <1>1, <1>2, <1>3
<1>5. m \in Seq(PaneNodes) /\ Len(m) = Len(l)
  <2>1. m = [j \in 1..Len(l) |-> m[j]]
    BY <1>1
  <2> HIDE DEF m
  <2>2. Len(l) \in Nat
    BY <1>1
  <2> QED BY <1>1, <1>4, <2>1, <2>2
<1> HIDE DEF m
<1>6. Placed(m)
  BY <1>2, <1>4, <1>5 DEF Placed
<1>7. PaneIds(m) = PaneIds(l) /\ GroupsOf(m) = GroupsOf(l)
  BY <1>2, <1>4 DEF PaneIds, GroupsOf
<1> QED BY <1>5, <1>6, <1>7 DEF m

\* What a new pane does to a layout, wherever it comes to be.
LEMMA LeafSplit ==
    ASSUME NEW l, Placed(l), NEW p \in PaneIds(l), NEW split \in SplitNodes,
           NEW before \in BOOLEAN, NEW new \in Names, NEW g \in Names,
           new \notin PaneIds(l), g \notin GroupsOf(l)
    PROVE  /\ Placed(SplitLeaf(l, p, split, before, new, g))
           /\ PaneIds(SplitLeaf(l, p, split, before, new, g)) = PaneIds(l) \cup {new}
           /\ GroupsOf(SplitLeaf(l, p, split, before, new, g)) = GroupsOf(l) \cup {g}
<1> DEFINE i == PlaceOf(l, p)
           around == Append(l[i].splits, split)
           m == [l EXCEPT ![i].splits = around]
           at == IF before THEN i ELSE i + 1
           n == Pane(new, g, around)
<1>1. i \in DOMAIN l /\ DOMAIN l = 1..Len(l) /\ l[i] \in PaneNodes
  BY PaneIsFound DEF Placed
<1>2. around \in Seq(SplitNodes)
  BY <1>1 DEF PaneNodes
<1>3. n \in PaneNodes /\ n.id = new /\ n.group = g
  BY <1>2 DEF Pane, PaneNodes
<1>4. Placed(m) /\ PaneIds(m) = PaneIds(l) /\ GroupsOf(m) = GroupsOf(l) /\ Len(m) = Len(l)
  <2> HIDE DEF i, around
  <2> QED BY <1>1, <1>2, PaneWrapped
<1>5. SplitLeaf(l, p, split, before, new, g) = InsertAt(m, at, n)
  BY DEF SplitLeaf
<1>6. at \in 1..(Len(m) + 1)
  BY <1>1, <1>4
<1> HIDE DEF m, n, at
<1> QED BY <1>3, <1>4, <1>5, <1>6, PaneAdded

LEMMA PaneSplit ==
    ASSUME NEW l, Placed(l), NEW p \in PaneIds(l), NEW split \in SplitNodes,
           NEW new \in Names, NEW g \in Names, new \notin PaneIds(l), g \notin GroupsOf(l)
    PROVE  /\ Placed(SplitPane(l, p, split, new, g))
           /\ PaneIds(SplitPane(l, p, split, new, g)) = PaneIds(l) \cup {new}
           /\ GroupsOf(SplitPane(l, p, split, new, g)) = GroupsOf(l) \cup {g}
<1>1. SplitPane(l, p, split, new, g) = SplitLeaf(l, p, split, FALSE, new, g)
  BY DEF SplitPane
<1> DEFINE before == FALSE
<1>2. before \in BOOLEAN
  OBVIOUS
<1>3. SplitPane(l, p, split, new, g) = SplitLeaf(l, p, split, before, new, g)
  BY <1>1
<1> HIDE DEF before
<1> QED BY <1>2, <1>3, LeafSplit

LEMMA PaneInserted ==
    ASSUME NEW l, Placed(l), NEW p \in PaneIds(l), NEW split \in SplitNodes,
           NEW before \in BOOLEAN, NEW new \in Names, NEW g \in Names,
           new \notin PaneIds(l), g \notin GroupsOf(l)
    PROVE  /\ Placed(InsertPane(l, p, split, before, new, g))
           /\ PaneIds(InsertPane(l, p, split, before, new, g)) = PaneIds(l) \cup {new}
           /\ GroupsOf(InsertPane(l, p, split, before, new, g)) = GroupsOf(l) \cup {g}
<1> DEFINE i == PlaceOf(l, p)
           at == IF before THEN i ELSE i + 1
           n == Pane(new, g, l[i].splits)
<1>1. i \in DOMAIN l /\ DOMAIN l = 1..Len(l) /\ l[i] \in PaneNodes
  BY PaneIsFound DEF Placed
<1>2. n \in PaneNodes /\ n.id = new /\ n.group = g
  BY <1>1 DEF Pane, PaneNodes
<1>3. at \in 1..(Len(l) + 1)
  BY <1>1
<1>4. /\ Placed(InsertAt(l, at, n))
      /\ PaneIds(InsertAt(l, at, n)) = PaneIds(l) \cup {new}
      /\ GroupsOf(InsertAt(l, at, n)) = GroupsOf(l) \cup {g}
  <2> HIDE DEF n, at
  <2> QED BY <1>2, <1>3, PaneAdded
<1>5. \/ InsertPane(l, p, split, before, new, g) = InsertAt(l, at, n)
      \/ InsertPane(l, p, split, before, new, g) = SplitLeaf(l, p, split, before, new, g)
  BY Zenon DEF InsertPane
<1> HIDE DEF n, at
<1> QED BY <1>4, <1>5, LeafSplit

LEMMA CompactKeepsPanes ==
    ASSUME NEW l, Placed(l)
    PROVE  Placed(Compact(l)) /\ PaneIds(Compact(l)) = PaneIds(l) /\ GroupsOf(Compact(l)) = GroupsOf(l)
<1> DEFINE branching == Branching(l)
           m == [i \in DOMAIN l |-> [l[i] EXCEPT !.splits = Filtered(@, branching)]]
<1>1. Compact(l) = m
  BY DEF Compact
<1>2. DOMAIN l = 1..Len(l) /\ Len(l) \in Nat /\ \A i \in DOMAIN l : l[i] \in PaneNodes
  BY DEF Placed
<1> HIDE DEF branching
<1>3. ASSUME NEW i \in DOMAIN l
      PROVE  m[i] \in PaneNodes /\ m[i].id = l[i].id /\ m[i].group = l[i].group
  <2> DEFINE inner == Filtered(l[i].splits, branching)
  <2>1. l[i] \in PaneNodes /\ l[i].splits \in Seq(SplitNodes)
    BY <1>2 DEF PaneNodes
  <2>2. inner \in Seq(SplitNodes)
    <3>1. inner \in Seq(SplitNodes \cap branching)
      BY <2>1, FilteredEntries
    <3> HIDE DEF inner
    <3> QED BY <3>1
  <2>3. m[i] = [l[i] EXCEPT !.splits = inner]
    OBVIOUS
  <2> HIDE DEF inner, m
  <2> QED BY <2>1, <2>2, <2>3 DEF PaneNodes
<1>4. DOMAIN m = DOMAIN l
  OBVIOUS
<1>5. m = [i \in 1..Len(l) |-> m[i]]
  BY <1>2
<1> HIDE DEF m
<1>6. m \in Seq(PaneNodes)
  BY <1>2, <1>3, <1>5
<1>7. Placed(m)
  BY <1>3, <1>4, <1>6 DEF Placed
<1>8. PaneIds(m) = PaneIds(l) /\ GroupsOf(m) = GroupsOf(l)
  BY <1>3, <1>4 DEF PaneIds, GroupsOf
<1> QED BY <1>1, <1>7, <1>8

\* A pane that goes takes its group with it, and nothing else.
LEMMA PaneRemoved ==
    ASSUME NEW l, Placed(l), NEW p \in PaneIds(l)
    PROVE  /\ Placed(RemovePane(l, p))
           /\ PaneIds(RemovePane(l, p)) = PaneIds(l) \ {p}
           /\ GroupsOf(RemovePane(l, p)) = GroupsOf(l) \ {FindPane(l, p).group}
<1> DEFINE others == {pane \in ToSet(l) : pane.id # p}
           m == Filtered(l, others)
<1>1. l \in Seq(PaneNodes) /\ DOMAIN l = 1..Len(l)
  BY DEF Placed
<1>2. IsInjective(l)
  BY <1>1 DEF Placed, IsInjective
<1>3. m \in Seq(PaneNodes \cap others) /\ ToSet(m) = others /\ IsInjective(m)
  <2>1. ToSet(m) = ToSet(l) \cap others
    BY <1>1, FilteredEntries
  <2>2. others \subseteq ToSet(l)
    OBVIOUS
  <2> HIDE DEF others
  <2>3. m \in Seq(PaneNodes \cap others) /\ IsInjective(m)
    BY <1>1, <1>2, FilteredEntries
  <2> HIDE DEF m
  <2> QED BY <2>1, <2>2, <2>3
<1>4. \A pane \in ToSet(l), other \in ToSet(l) :
        pane.id = other.id \/ pane.group = other.group => pane = other
  BY DEF ToSet, Placed
<1>5. FindPane(l, p) \in ToSet(l) /\ FindPane(l, p).id = p
  BY <1>1, PaneIsFound DEF ToSet
<1> HIDE DEF m
<1>6. m \in Seq(PaneNodes) /\ \A i \in DOMAIN m : m[i] \in others
  BY <1>3
<1>7. Placed(m)
  <2> SUFFICES ASSUME NEW i \in DOMAIN m, NEW j \in DOMAIN m,
                      m[i].id = m[j].id \/ m[i].group = m[j].group
               PROVE  i = j
    BY <1>6 DEF Placed
  <2>1. m[i] = m[j]
    BY <1>4, <1>6
  <2> QED BY <1>3, <2>1 DEF IsInjective
<1>8. PaneIds(m) = PaneIds(l) \ {p}
  <2>1. PaneIds(m) = {pane.id : pane \in ToSet(m)} /\ PaneIds(l) = {pane.id : pane \in ToSet(l)}
    BY DEF PaneIds, ToSet
  <2> QED BY <1>3, <2>1
<1>9. GroupsOf(m) = GroupsOf(l) \ {FindPane(l, p).group}
  <2>1. GroupsOf(m) = {pane.group : pane \in ToSet(m)} /\ GroupsOf(l) = {pane.group : pane \in ToSet(l)}
    BY DEF GroupsOf, ToSet
  <2> QED BY <1>3, <1>4, <1>5, <2>1
<1>10. RemovePane(l, p) = Compact(m)
  BY DEF RemovePane, m
<1> QED BY <1>7, <1>8, <1>9, <1>10, CompactKeepsPanes

------------------------------------------------------------------------------
(* Workspaces                                                              *)

Record(l, groups, tabs, pane, tab) ==
    [layout |-> l, groups |-> groups, tabs |-> tabs, pane |-> pane, tab |-> tab]
IsWorkspace(w) == w = Record(w.layout, w.groups, w.tabs, w.pane, w.tab)

Listed(groups) == UNION {ToSet(groups[g].ids) : g \in DOMAIN groups}

\* The groups are those the panes show, and the tabs are those they list.
GroupsFit(l, groups, tabs) ==
    /\ groups = [g \in GroupsOf(l) |-> groups[g]]
    /\ \A g \in GroupsOf(l) : GoodGroup(groups[g], DOMAIN tabs)
    /\ tabs = [t \in Listed(groups) |-> tabs[t]]
    /\ NoTab \notin DOMAIN tabs

\* A workspace that no repair would change.
Sound(w) ==
    /\ IsWorkspace(w)
    /\ Placed(w.layout) /\ w.layout # NoLayout
    /\ GroupsFit(w.layout, w.groups, w.tabs)
    /\ w.pane \in PaneIds(w.layout) /\ w.tab \in DOMAIN w.tabs

LEMMA PanesOfLayout ==
    ASSUME NEW l, Placed(l)
    PROVE  /\ l # NoLayout => FirstPane(l) \in PaneIds(l)
           /\ l # NoLayout <=> PaneIds(l) # {}
<1>1. Len(l) \in Nat /\ DOMAIN l = 1..Len(l) /\ (l = <<>> <=> Len(l) = 0)
  BY DEF Placed
<1>2. l # NoLayout => 1 \in DOMAIN l
  BY <1>1 DEF NoLayout
<1>3. l # NoLayout => FirstPane(l) \in PaneIds(l)
  BY <1>2 DEF PaneIds, FirstPane
<1>4. PaneIds(l) # {} => l # NoLayout
  BY <1>1 DEF PaneIds, NoLayout
<1> QED BY <1>3, <1>4

LEMMA SoundIsKept ==
    ASSUME NEW w, Sound(w)
    PROVE  EnsureUsable(w) = w
<1> DEFINE l == w.layout
           groups == w.groups
           tabs == w.tabs
<1>1. /\ Placed(l) /\ GroupsFit(l, groups, tabs)
      /\ DOMAIN groups = GroupsOf(l) /\ DOMAIN tabs = Listed(groups)
  BY DEF Sound, GroupsFit
<1>2. ASSUME NEW g \in GroupsOf(l)
      PROVE  Filtered(groups[g].ids, DOMAIN tabs) = groups[g].ids /\ groups[g].ids # <<>>
  <2>1. GoodGroup(groups[g], DOMAIN tabs)
    BY <1>1 DEF GroupsFit
  <2>2. groups[g].ids \in Seq(DOMAIN tabs)
    BY <2>1 DEF GoodGroup
  <2>3. ToSet(groups[g].ids) \subseteq DOMAIN tabs /\ groups[g].ids # <<>>
    BY <2>1, GroupLists
  <2> QED BY <2>2, <2>3, FilteredEntries
<1>3. \A p \in PaneIds(l) : GroupOf(w, p) \in GroupsOf(l)
  BY <1>1, PaneIsFound DEF GroupOf
<1>4. Usable(w)
  <2>1. l # NoLayout
    BY DEF Sound
  <2>2. ASSUME NEW p \in PaneIds(l) PROVE HasGroup(w, p) /\ LiveIds(w, p) # <<>>
    BY <1>1, <1>2, <1>3 DEF HasGroup, LiveIds, PaneTabs
  <2> QED BY <2>1, <2>2 DEF Usable
<1> DEFINE shown == {GroupOf(w, p) : p \in PaneIds(l)}
           live(g) == Filtered(groups[g].ids, DOMAIN tabs)
           pane == IF w.pane \in PaneIds(l) THEN w.pane ELSE FirstPane(l)
           shownGroups == [g \in shown |->
                             [ids |-> live(g),
                              active |-> IF groups[g].active \in ToSet(live(g))
                                         THEN groups[g].active ELSE live(g)[1]]]
           listed == UNION {ToSet(live(g)) : g \in shown}
           tab == IF w.tab \in DOMAIN tabs THEN w.tab
                  ELSE shownGroups[GroupOf(w, pane)].active
<1>5. Normalized(w) = Record(l, shownGroups, [t \in listed |-> tabs[t]], pane, tab)
  <2>1. w = Record(l, groups, tabs, w.pane, w.tab)
    BY DEF Sound, IsWorkspace
  <2>2. Normalized(w) = [w EXCEPT !.tabs = Restrict(@, listed), !.groups = shownGroups,
                                  !.pane = pane, !.tab = tab]
    BY DEF Normalized
  <2>3. Restrict(tabs, listed) = [t \in listed |-> tabs[t]]
    BY DEF Restrict
  <2> DEFINE kept == [t \in listed |-> tabs[t]]
  <2>4. Normalized(w) = [w EXCEPT !.tabs = kept, !.groups = shownGroups,
                                  !.pane = pane, !.tab = tab]
    BY <2>2, <2>3
  <2> HIDE DEF kept, shownGroups, pane, tab, listed
  <2> QED BY <2>1, <2>4 DEF Record, kept
<1>6. shown = GroupsOf(l)
  BY <1>1, GroupsOfPanes DEF GroupOf
<1>7. shownGroups = groups
  <2>1. \A g \in GroupsOf(l) : groups[g] = [ids |-> groups[g].ids, active |-> groups[g].active]
                               /\ groups[g].active \in ToSet(groups[g].ids)
    BY <1>1 DEF GroupsFit, GoodGroup
  <2>2. groups = [g \in GroupsOf(l) |-> groups[g]]
    BY <1>1 DEF GroupsFit
  <2>3. \A g \in GroupsOf(l) : shownGroups[g] = groups[g]
    BY <1>2, <1>6, <2>1
  <2>4. DOMAIN shownGroups = GroupsOf(l)
    BY <1>6
  <2>5. shownGroups = [g \in GroupsOf(l) |-> shownGroups[g]]
    BY <1>6
  <2> HIDE DEF shownGroups
  <2> QED BY <2>2, <2>3, <2>5
<1>8. [t \in listed |-> tabs[t]] = tabs
  <2>1. listed = Listed(groups)
    BY <1>1, <1>2, <1>6 DEF Listed
  <2>2. tabs = [t \in Listed(groups) |-> tabs[t]]
    BY <1>1 DEF GroupsFit
  <2> HIDE DEF listed
  <2> QED BY <2>1, <2>2
<1>9. pane = w.pane /\ tab = w.tab
  BY DEF Sound
<1>10. Normalized(w) = w
  <2> HIDE DEF shownGroups, listed, pane, tab
  <2> QED BY <1>5, <1>7, <1>8, <1>9 DEF Sound, IsWorkspace
<1> QED BY <1>4, <1>10 DEF EnsureUsable

\* How the parts of a workspace make it sound: its groups are good for the tabs
\* they list together.
LEMMA SoundRecord ==
    ASSUME NEW l, Placed(l), l # NoLayout, NEW groups, NEW tabs, NEW pane, NEW tab,
           DOMAIN groups = GroupsOf(l), groups = [g \in GroupsOf(l) |-> groups[g]],
           tabs = [t \in Listed(groups) |-> tabs[t]], NoTab \notin Listed(groups),
           NEW T, \A g \in GroupsOf(l) : GoodGroup(groups[g], T),
           pane \in PaneIds(l), tab \in Listed(groups)
    PROVE  Sound(Record(l, groups, tabs, pane, tab))
<1> DEFINE w == Record(l, groups, tabs, pane, tab)
<1>1. /\ w.layout = l /\ w.groups = groups /\ w.tabs = tabs /\ w.pane = pane /\ w.tab = tab
      /\ w = Record(w.layout, w.groups, w.tabs, w.pane, w.tab)
  BY DEF Record
<1> HIDE DEF w
<1>2. DOMAIN tabs = Listed(groups)
  <2> DEFINE listed == Listed(groups)
  <2>1. tabs = [t \in listed |-> tabs[t]]
    OBVIOUS
  <2> HIDE DEF listed
  <2>2. DOMAIN tabs = listed
    BY <2>1
  <2> QED BY <2>2 DEF listed
<1>3. ASSUME NEW g \in GroupsOf(l) PROVE GoodGroup(groups[g], DOMAIN tabs)
  <2>1. ToSet(groups[g].ids) \subseteq DOMAIN tabs
    BY <1>2 DEF Listed
  <2> QED BY <2>1, GroupOfItsTabs
<1>4. GroupsFit(l, groups, tabs)
  BY <1>2, <1>3 DEF GroupsFit
<1>5. Sound(w)
  BY <1>1, <1>2, <1>4 DEF Sound, IsWorkspace
<1> QED BY <1>5 DEF w

LEMMA RecoveredIsSound == Sound(RecoveredWorkspace)
<1> DEFINE id == <<"recovered", "welcome">>
           pane == Pane("recovered", "recovered", <<>>)
           l == <<pane>>
           groups == Put(<<>>, "recovered", NewGroup(id))
           tabs == Put(<<>>, id, Tab("welcome", NoKey))
           T == {id}
<1>1. RecoveredWorkspace = Record(l, groups, tabs, "recovered", id)
  BY DEF RecoveredWorkspace, Record
<1>2. pane \in PaneNodes /\ pane.id = "recovered" /\ pane.group = "recovered"
  BY DEF Pane, PaneNodes, Names
<1> HIDE DEF pane
<1>3. Placed(l) /\ l # NoLayout /\ PaneIds(l) = {"recovered"} /\ GroupsOf(l) = {"recovered"}
  <2>1. l \in Seq(PaneNodes) /\ DOMAIN l = {1} /\ l[1] = pane /\ l # <<>>
    BY <1>2
  <2> HIDE DEF l
  <2> QED BY <1>2, <2>1 DEF Placed, PaneIds, GroupsOf, NoLayout
<1> HIDE DEF l
<1>4. groups = [g \in {"recovered"} |-> groups[g]] /\ groups["recovered"] = NewGroup(id)
      /\ DOMAIN groups = {"recovered"}
  BY DEF Put
<1>5. tabs = [t \in T |-> tabs[t]]
  BY DEF Put
<1>6. NoTab \notin T
  BY DEF NoTab
<1> HIDE DEF groups, tabs
<1>7. id \in T
  OBVIOUS
<1> HIDE DEF T
<1>8. GoodGroup(NewGroup(id), T) /\ ToSet(NewGroup(id).ids) = {id}
  <2> DEFINE t == id
  <2>1. t \in T
    BY <1>7
  <2> HIDE DEF t
  <2>2. GoodGroup(NewGroup(t), T) /\ ToSet(NewGroup(t).ids) = {t}
    BY <2>1, OneTabGroup
  <2> QED BY <2>2 DEF t
<1>9. Listed(groups) = T
  BY <1>4, <1>8 DEF Listed, T
<1> DEFINE p == "recovered"
           t == id
<1>10. p \in PaneIds(l) /\ t \in Listed(groups)
  BY <1>3, <1>7, <1>9
<1>11. DOMAIN groups = GroupsOf(l) /\ groups = [g \in GroupsOf(l) |-> groups[g]]
       /\ \A g \in GroupsOf(l) : GoodGroup(groups[g], T)
  BY <1>3, <1>4, <1>8
<1>12. tabs = [x \in Listed(groups) |-> tabs[x]] /\ NoTab \notin Listed(groups)
  BY <1>5, <1>6, <1>9
<1>13. RecoveredWorkspace = Record(l, groups, tabs, p, t)
  BY <1>1 DEF l, groups, tabs
<1> HIDE DEF p, t
<1> QED BY <1>3, <1>10, <1>11, <1>12, <1>13, SoundRecord

LEMMA BootstrapIsSound == Sound(BootstrapWorkspace)
<1> DEFINE ids == [i \in DOMAIN Startup |-> <<"bootstrap", Startup[i]>>]
           welcome == <<"bootstrap", "welcome">>
           root == <<Split("root", "vertical")>>
           left == Pane("welcome", "welcome", root)
           right == Pane("main", "main", root)
           l == <<left, right>>
           main == [ids |-> ids, active |-> ids[1]]
           groups == Put(Put(<<>>, "welcome", NewGroup(welcome)), "main", main)
           T == ToSet(ids) \cup {welcome}
           tabs == [id \in T |-> Tab(id[2], NoKey)]
<1>1. BootstrapWorkspace = Record(l, groups, tabs, "welcome", welcome)
  BY DEF BootstrapWorkspace, Record
<1>2. /\ left \in PaneNodes /\ left.id = "welcome" /\ left.group = "welcome"
      /\ right \in PaneNodes /\ right.id = "main" /\ right.group = "main"
  <2>1. root \in Seq(SplitNodes)
    BY DEF Split, SplitNodes, Directions
  <2> HIDE DEF root
  <2> QED BY <2>1 DEF Pane, PaneNodes, Names
<1> HIDE DEF left, right
<1>3. /\ Placed(l) /\ l # NoLayout
      /\ PaneIds(l) = {"welcome", "main"} /\ GroupsOf(l) = {"welcome", "main"}
  <2>1. l \in Seq(PaneNodes) /\ DOMAIN l = {1, 2} /\ l[1] = left /\ l[2] = right /\ l # <<>>
    BY <1>2
  <2> HIDE DEF l
  <2> QED BY <1>2, <2>1 DEF Placed, PaneIds, GroupsOf, NoLayout
<1> HIDE DEF l
<1>4. /\ groups = [g \in {"welcome", "main"} |-> groups[g]]
      /\ groups["welcome"] = NewGroup(welcome) /\ groups["main"] = main
      /\ DOMAIN groups = {"welcome", "main"}
  <2>1. DOMAIN groups = {"welcome", "main"}
    BY DEF Put
  <2>2. groups["welcome"] = NewGroup(welcome) /\ groups["main"] = main
    BY DEF Put
  <2>3. groups = [g \in DOMAIN groups |-> groups[g]]
    BY DEF Put
  <2> HIDE DEF groups
  <2> QED BY <2>1, <2>2, <2>3
<1>5. tabs = [t \in T |-> tabs[t]]
  OBVIOUS
<1> HIDE DEF tabs
<1>6. /\ Startup \in Seq(ToSet(Startup)) /\ Len(Startup) \in Nat \ {0}
      /\ DOMAIN Startup = 1..Len(Startup)
  BY StartupAssumption
<1>7. /\ ids \in Seq(ToSet(ids)) /\ IsInjective(ids) /\ ids[1] \in ToSet(ids)
  <2>1. DOMAIN ids = 1..Len(Startup)
    BY <1>6
  <2>2. ids = [i \in 1..Len(Startup) |-> ids[i]]
    BY <1>6
  <2>3. \A i \in DOMAIN Startup : ids[i] = <<"bootstrap", Startup[i]>>
    OBVIOUS
  <2>4. \A i, j \in DOMAIN Startup : ids[i] = ids[j] => Startup[i] = Startup[j]
    BY <2>3
  <2>5. IsInjective(ids)
    BY <1>6, <2>1, <2>4, StartupAssumption DEF IsInjective
  <2> HIDE DEF ids
  <2>6. \A i \in 1..Len(Startup) : ids[i] \in ToSet(ids)
    BY <2>1 DEF ToSet
  <2>7. ids \in Seq(ToSet(ids))
    BY <1>6, <2>2, <2>6
  <2> QED BY <1>6, <2>5, <2>6, <2>7
<1>8. NoTab \notin T
  <2>1. \A i \in DOMAIN ids : ids[i] # NoTab
    BY DEF NoTab
  <2>2. welcome # NoTab
    BY DEF NoTab
  <2> HIDE DEF ids, welcome
  <2> QED BY <2>1, <2>2 DEF ToSet
<1> HIDE DEF groups
<1>9. GoodGroup(main, T) /\ ToSet(main.ids) = ToSet(ids)
  <2> HIDE DEF ids, welcome
  <2>1. ids \in Seq(T) /\ ids[1] \in T
    BY <1>7
  <2> HIDE DEF T
  <2> QED BY <1>7, <2>1 DEF GoodGroup
<1>10. GoodGroup(NewGroup(welcome), T) /\ ToSet(NewGroup(welcome).ids) = {welcome}
  <2>1. welcome \in T
    OBVIOUS
  <2> HIDE DEF T, welcome
  <2> QED BY <2>1, OneTabGroup
<1> HIDE DEF ids, main
<1>11. Listed(groups) = T
  <2> HIDE DEF welcome
  <2> QED BY <1>4, <1>9, <1>10 DEF Listed
<1> DEFINE p == "welcome"
           t == welcome
<1>12. p \in PaneIds(l) /\ t \in Listed(groups)
  BY <1>3, <1>11
<1> HIDE DEF T
<1>13. DOMAIN groups = GroupsOf(l) /\ groups = [g \in GroupsOf(l) |-> groups[g]]
       /\ \A g \in GroupsOf(l) : GoodGroup(groups[g], T)
  BY <1>3, <1>4, <1>9, <1>10
<1>14. tabs = [x \in Listed(groups) |-> tabs[x]] /\ NoTab \notin Listed(groups)
  BY <1>5, <1>8, <1>11
<1>15. BootstrapWorkspace = Record(l, groups, tabs, p, t)
  BY <1>1 DEF l, groups, tabs, T, ids, main, left, right
<1> HIDE DEF p, t
<1> QED BY <1>3, <1>12, <1>13, <1>14, <1>15, SoundRecord

\* What a close hands to the repair: groups may be missing or list tabs that are
\* gone, the focus may be nowhere, but it is not on a tab that no pane shows.
Repairable(w) ==
    /\ IsWorkspace(w)
    /\ Placed(w.layout)
    /\ \A g \in DOMAIN w.groups :
         w.groups[g].ids \in Seq(ToSet(w.groups[g].ids)) /\ IsInjective(w.groups[g].ids)
    /\ NoTab \notin DOMAIN w.tabs
    /\ \/ w.tab \notin DOMAIN w.tabs
       \/ \E g \in GroupsOf(w.layout) : w.tab \in ToSet(w.groups[g].ids)

\* A repair ends with a workspace that needs none.
LEMMA RepairedIsSound ==
    ASSUME NEW w, Repairable(w)
    PROVE  Sound(EnsureUsable(w))
<1> SUFFICES ASSUME Usable(w) PROVE Sound(Normalized(w))
  BY RecoveredIsSound DEF EnsureUsable
<1> DEFINE l == w.layout
           tabs == w.tabs
           D == DOMAIN tabs
           live(g) == Filtered(w.groups[g].ids, D)
           shown == {GroupOf(w, p) : p \in PaneIds(l)}
           pane == IF w.pane \in PaneIds(l) THEN w.pane ELSE FirstPane(l)
           groups == [g \in shown |->
                        [ids |-> live(g),
                         active |-> IF w.groups[g].active \in ToSet(live(g))
                                    THEN w.groups[g].active ELSE live(g)[1]]]
           listed == UNION {ToSet(live(g)) : g \in shown}
           kept == [t \in listed |-> tabs[t]]
           tab == IF w.tab \in D THEN w.tab ELSE groups[GroupOf(w, pane)].active
<1>1. Placed(l) /\ l # NoLayout /\ shown = GroupsOf(l) /\ GroupsOf(l) \subseteq DOMAIN w.groups
  BY GroupsOfPanes DEF Repairable, Usable, GroupOf, HasGroup
<1>2. ASSUME NEW g \in GroupsOf(l)
      PROVE  /\ live(g) \in Seq(ToSet(live(g))) /\ IsInjective(live(g)) /\ live(g) # <<>>
             /\ ToSet(live(g)) = ToSet(w.groups[g].ids) \cap D
             /\ live(g)[1] \in ToSet(live(g))
  <2> DEFINE ids == w.groups[g].ids
             X == ToSet(ids)
  <2>1. ids \in Seq(X) /\ IsInjective(ids)
    BY <1>1 DEF Repairable
  <2> HIDE DEF X
  <2>2. live(g) \in Seq(X \cap D) /\ ToSet(live(g)) = ToSet(ids) \cap D /\ IsInjective(live(g))
    <3> HIDE DEF D
    <3> QED BY <2>1, FilteredEntries
  <2>3. live(g) # <<>>
    <3>1. PICK p \in PaneIds(l) : GroupOf(w, p) = g
      BY <1>1
    <3> QED BY <3>1 DEF Usable, LiveIds, PaneTabs
  <2> DEFINE ls == live(g)
  <2>4. ls \in Seq(X \cap D) /\ ToSet(ls) = X \cap D
    BY <2>2 DEF X
  <2> HIDE DEF ls
  <2>5. ls \in Seq(ToSet(ls))
    BY <2>4
  <2>6. ls # <<>> => ls[1] \in ToSet(ls)
    BY <2>4 DEF ToSet
  <2> QED BY <2>2, <2>3, <2>5, <2>6 DEF ls
<1>3. Normalized(w) = Record(l, groups, kept, pane, tab)
  <2>1. w = Record(l, w.groups, tabs, w.pane, w.tab)
    BY DEF Repairable, IsWorkspace
  <2>2. Normalized(w) = [w EXCEPT !.tabs = Restrict(@, listed), !.groups = groups,
                                  !.pane = pane, !.tab = tab]
    BY DEF Normalized
  <2>3. Restrict(tabs, listed) = kept
    BY DEF Restrict
  <2>4. Normalized(w) = [w EXCEPT !.tabs = kept, !.groups = groups, !.pane = pane, !.tab = tab]
    BY <2>2, <2>3
  <2> HIDE DEF kept, groups, pane, tab, listed
  <2> QED BY <2>1, <2>4 DEF Record
<1>4. DOMAIN groups = GroupsOf(l)
      /\ \A g \in GroupsOf(l) : groups[g].ids = live(g) /\ groups[g].active \in ToSet(live(g))
                               /\ groups[g] = [ids |-> groups[g].ids, active |-> groups[g].active]
  BY <1>1, <1>2
<1>5. groups = [g \in GroupsOf(l) |-> groups[g]]
  BY <1>1
<1> HIDE DEF groups
<1>6. Listed(groups) = listed
  BY <1>1, <1>4 DEF Listed
<1>7. \A g \in GroupsOf(l) : ToSet(live(g)) \subseteq listed
  BY <1>1
<1>8. listed \subseteq D
  BY <1>1, <1>2
<1>9. kept = [t \in listed |-> kept[t]]
  OBVIOUS
<1> HIDE DEF kept, live
<1>10. ASSUME NEW g \in GroupsOf(l) PROVE GoodGroup(groups[g], listed)
  <2> DEFINE X == ToSet(live(g))
  <2>1. live(g) \in Seq(X) /\ X \subseteq listed
    BY <1>2, <1>7
  <2> HIDE DEF X
  <2>2. live(g) \in Seq(listed)
    BY <2>1
  <2> HIDE DEF listed
  <2>3. groups[g].active \in listed
    BY <1>4, <2>1 DEF X
  <2> QED BY <1>2, <1>4, <2>2, <2>3 DEF GoodGroup
<1>11. pane \in PaneIds(l)
  BY <1>1, PanesOfLayout
<1>12. tab \in listed
  <2>1. CASE w.tab \in D
    <3>1. PICK g \in GroupsOf(l) : w.tab \in ToSet(w.groups[g].ids)
      BY <2>1 DEF Repairable
    <3> QED BY <1>2, <1>7, <2>1, <3>1
  <2>2. CASE w.tab \notin D
    <3>1. GroupOf(w, pane) \in GroupsOf(l)
      <4> HIDE DEF pane
      <4> QED BY <1>1, <1>11
    <3> DEFINE g == GroupOf(w, pane)
    <3> HIDE DEF g
    <3>2. g \in GroupsOf(l) /\ tab = groups[g].active
      BY <2>2, <3>1 DEF g
    <3> QED BY <1>4, <1>7, <3>2
  <2> QED BY <2>1, <2>2
<1>13. NoTab \notin listed
  BY <1>8 DEF Repairable
<1> HIDE DEF listed, pane, tab, shown
<1>14. Sound(Record(l, groups, kept, pane, tab))
  BY <1>1, <1>4, <1>5, <1>6, <1>9, <1>10, <1>11, <1>12, <1>13, SoundRecord
<1> QED BY <1>3, <1>14

------------------------------------------------------------------------------
(* Commands                                                                *)

\* No tab goes, and a pane that goes held one tab at most.
Keeps(w, v) ==
    /\ DOMAIN w.tabs \subseteq DOMAIN v.tabs
    /\ \A p \in PaneIds(w.layout) \ PaneIds(v.layout) : ~(Len(PaneTabs(w, p)) > 1)

LEMMA SoundFacts ==
    ASSUME NEW w, Sound(w)
    PROVE  /\ w = Record(w.layout, w.groups, w.tabs, w.pane, w.tab)
           /\ Placed(w.layout) /\ w.layout # NoLayout
           /\ DOMAIN w.groups = GroupsOf(w.layout)
           /\ w.groups = [g \in GroupsOf(w.layout) |-> w.groups[g]]
           /\ \A g \in GroupsOf(w.layout) : GoodGroup(w.groups[g], DOMAIN w.tabs)
           /\ w.tabs = [t \in Listed(w.groups) |-> w.tabs[t]]
           /\ DOMAIN w.tabs = Listed(w.groups) /\ NoTab \notin DOMAIN w.tabs
           /\ \A p \in PaneIds(w.layout) : HasGroup(w, p) /\ GroupOf(w, p) \in GroupsOf(w.layout)
           /\ \A p, q \in PaneIds(w.layout) : GroupOf(w, p) = GroupOf(w, q) => p = q
           /\ w.pane \in PaneIds(w.layout) /\ w.tab \in DOMAIN w.tabs
<1>1. /\ Placed(w.layout) /\ DOMAIN w.groups = GroupsOf(w.layout)
      /\ DOMAIN w.tabs = Listed(w.groups)
  BY DEF Sound, GroupsFit
<1>2. \A p \in PaneIds(w.layout) : HasGroup(w, p) /\ GroupOf(w, p) \in GroupsOf(w.layout)
  BY <1>1, PaneIsFound DEF GroupOf, HasGroup
<1>3. \A p, q \in PaneIds(w.layout) : GroupOf(w, p) = GroupOf(w, q) => p = q
  BY <1>1, GroupsOfPanes DEF GroupOf
<1> QED BY <1>1, <1>2, <1>3 DEF Sound, GroupsFit, IsWorkspace

LEMMA OpenIsSound ==
    ASSUME NEW w, Sound(w), NEW p, NEW t, t # NoTab, NEW tab
    PROVE  Sound(OpenTab(w, p, t, tab)) /\ Keeps(w, OpenTab(w, p, t, tab))
<1> DEFINE l == w.layout
           target == TargetPane(w, p)
           g == GroupOf(w, target)
           n == AddTab(w.groups[g], t)
           groups == Put(w.groups, g, n)
           tabs == Put(w.tabs, t, tab)
           v == Record(l, groups, tabs, target, t)
           T == DOMAIN w.tabs \cup {t}
<1>1. CASE target \notin PaneIds(l)
  <2>1. OpenTab(w, p, t, tab) = w
    BY <1>1 DEF OpenTab
  <2> QED BY <2>1 DEF Keeps
<1>2. CASE target \in PaneIds(l)
  <2>1. g \in GroupsOf(l) /\ Placed(l) /\ l # NoLayout /\ DOMAIN w.groups = GroupsOf(l)
        /\ DOMAIN w.tabs = Listed(w.groups) /\ w = Record(l, w.groups, w.tabs, w.pane, w.tab)
    BY <1>2, SoundFacts
  <2>2. OpenTab(w, p, t, tab) = v
    <3>1. OpenTab(w, p, t, tab)
          = [w EXCEPT !.groups = groups, !.tabs = tabs, !.pane = target, !.tab = t]
      BY <1>2, <2>1 DEF OpenTab, GroupFor
    <3> HIDE DEF groups, tabs, target
    <3> QED BY <2>1, <3>1 DEF Record
  <2>3. /\ DOMAIN groups = GroupsOf(l) /\ groups = [x \in GroupsOf(l) |-> groups[x]]
        /\ groups[g] = n /\ \A x \in GroupsOf(l) : x # g => groups[x] = w.groups[x]
    <3>1. DOMAIN w.groups \cup {g} = GroupsOf(l)
      BY <2>1
    <3> HIDE DEF n, g
    <3> QED BY <2>1, <3>1 DEF Put
  <2>4. DOMAIN tabs = T /\ tabs = [x \in T |-> tabs[x]]
    BY DEF Put
  <2>5. \A x \in GroupsOf(l) : GoodGroup(w.groups[x], T)
    <3>1. \A x \in GroupsOf(l) : GoodGroup(w.groups[x], DOMAIN w.tabs)
      BY SoundFacts
    <3> DEFINE D == DOMAIN w.tabs
    <3>2. D \subseteq T /\ \A x \in GroupsOf(l) : GoodGroup(w.groups[x], D)
      BY <3>1
    <3> HIDE DEF T, D
    <3> QED BY <3>2, GroupOfMoreTabs
  <2>6. GoodGroup(n, T) /\ ToSet(n.ids) = ToSet(w.groups[g].ids) \cup {t}
    <3>1. t \in T
      OBVIOUS
    <3> HIDE DEF T
    <3> QED BY <2>1, <2>5, <3>1, AddedTab
  <2> HIDE DEF groups, tabs, n
  <2>7. Listed(groups) = T
    BY <2>1, <2>3, <2>6 DEF Listed
  <2>8. NoTab \notin T
    BY SoundFacts
  <2>9. \A x \in GroupsOf(l) : GoodGroup(groups[x], T)
    BY <2>3, <2>5, <2>6
  <2>10. t \in Listed(groups)
    BY <2>7
  <2> HIDE DEF T, target
  <2>11. Sound(v)
    BY <1>2, <2>1, <2>3, <2>4, <2>7, <2>8, <2>9, <2>10, SoundRecord
  <2>12. Keeps(w, v)
    BY <2>4 DEF Keeps, Record, T
  <2> QED BY <2>2, <2>11, <2>12
<1> QED BY <1>1, <1>2

LEMMA FocusIsSound ==
    ASSUME NEW w, Sound(w), NEW p, NEW t
    PROVE  /\ Sound(FocusTab(w, p, t)) /\ Keeps(w, FocusTab(w, p, t))
           /\ FocusTab(w, p, t).tabs = w.tabs
<1> DEFINE l == w.layout
           g == GroupOf(w, p)
           n == Activate(w.groups[g], t)
           groups == [w.groups EXCEPT ![g] = n]
           v == Record(l, groups, w.tabs, p, t)
<1>1. CASE ~Holds(w, p, t)
  <2>1. FocusTab(w, p, t) = w
    BY <1>1 DEF FocusTab
  <2> QED BY <2>1 DEF Keeps
<1>2. CASE Holds(w, p, t)
  <2>1. p \in PaneIds(l) /\ Has(w.groups[g], t)
    BY <1>2 DEF Holds, HasGroup
  <2>2. g \in GroupsOf(l) /\ Placed(l) /\ l # NoLayout /\ DOMAIN w.groups = GroupsOf(l)
        /\ DOMAIN w.tabs = Listed(w.groups) /\ w = Record(l, w.groups, w.tabs, w.pane, w.tab)
        /\ w.groups = [x \in GroupsOf(l) |-> w.groups[x]]
    BY <2>1, SoundFacts
  <2>3. FocusTab(w, p, t) = v
    <3>1. FocusTab(w, p, t) = [w EXCEPT !.groups = groups, !.pane = p, !.tab = t]
      BY <1>2, <2>2 DEF FocusTab, Record
    <3> HIDE DEF groups
    <3> QED BY <2>2, <3>1 DEF Record
  <2>4. GoodGroup(n, DOMAIN w.tabs) /\ n.ids = w.groups[g].ids
    <3>1. GoodGroup(w.groups[g], DOMAIN w.tabs)
      BY <2>2, SoundFacts
    <3> DEFINE D == DOMAIN w.tabs
               m == w.groups[g]
    <3>2. GoodGroup(m, D) /\ Has(m, t)
      BY <2>1, <3>1
    <3> HIDE DEF D, m
    <3>3. GoodGroup(Activate(m, t), D) /\ Activate(m, t).ids = m.ids
      BY <3>2, ActivatedGroup
    <3> QED BY <3>3 DEF D, m
  <2>5. /\ DOMAIN groups = GroupsOf(l) /\ groups = [x \in GroupsOf(l) |-> groups[x]]
        /\ groups[g] = n /\ \A x \in GroupsOf(l) : x # g => groups[x] = w.groups[x]
    <3> HIDE DEF n, g
    <3>1. DOMAIN groups = GroupsOf(l)
      BY <2>2
    <3>2. groups[g] = n /\ \A x \in GroupsOf(l) : x # g => groups[x] = w.groups[x]
      BY <2>2
    <3>3. groups = [x \in DOMAIN groups |-> groups[x]]
      BY <2>2
    <3> HIDE DEF groups
    <3> QED BY <3>1, <3>2, <3>3
  <2> HIDE DEF groups, n
  <2>6. Listed(groups) = DOMAIN w.tabs
    BY <2>2, <2>4, <2>5 DEF Listed
  <2>7. \A x \in GroupsOf(l) : GoodGroup(groups[x], DOMAIN w.tabs)
    BY <2>4, <2>5, SoundFacts
  <2>8. t \in Listed(groups)
    BY <2>1, <2>2, <2>6 DEF Listed, Has
  <2>9. w.tabs = [x \in Listed(groups) |-> w.tabs[x]] /\ NoTab \notin Listed(groups)
    BY <2>2, <2>6, SoundFacts
  <2>10. Sound(v)
    BY <2>1, <2>2, <2>5, <2>7, <2>8, <2>9, SoundRecord
  <2>11. Keeps(w, v) /\ v.tabs = w.tabs
    BY DEF Keeps, Record
  <2> QED BY <2>3, <2>10, <2>11
<1> QED BY <1>1, <1>2

\* Another kind and configuration of a tab that is there.
LEMMA ConvertIsSound ==
    ASSUME NEW w, Sound(w), NEW p, NEW t, NEW tab
    PROVE  Sound(ConvertTab(w, p, t, tab)) /\ Keeps(w, ConvertTab(w, p, t, tab))
<1> DEFINE f == FocusTab(w, p, t)
           tabs == [f.tabs EXCEPT ![t] = tab]
           v == Record(f.layout, f.groups, tabs, f.pane, f.tab)
<1>1. Sound(f) /\ Keeps(w, f) /\ f.tabs = w.tabs
  BY FocusIsSound
<1>2. CASE ~(Holds(w, p, t) /\ t \in DOMAIN w.tabs)
  <2>1. ConvertTab(w, p, t, tab) = w
    BY <1>2 DEF ConvertTab
  <2> QED BY <2>1 DEF Keeps
<1>3. CASE Holds(w, p, t) /\ t \in DOMAIN w.tabs
  <2>1. ConvertTab(w, p, t, tab) = [f EXCEPT !.tabs[t] = tab]
    BY <1>3 DEF ConvertTab
  <2> HIDE DEF f
  <2>2. /\ f = Record(f.layout, f.groups, f.tabs, f.pane, f.tab)
        /\ Placed(f.layout) /\ f.layout # NoLayout
        /\ GroupsFit(f.layout, f.groups, f.tabs)
        /\ f.pane \in PaneIds(f.layout) /\ f.tab \in DOMAIN f.tabs
    BY <1>1 DEF Sound, IsWorkspace
  <2>3. [f EXCEPT !.tabs[t] = tab] = [f EXCEPT !.tabs = tabs]
    BY <2>2 DEF Record
  <2>4. DOMAIN tabs = DOMAIN f.tabs /\ tabs = [x \in DOMAIN f.tabs |-> tabs[x]]
    BY <2>2 DEF GroupsFit
  <2> HIDE DEF tabs
  <2>5. [f EXCEPT !.tabs = tabs] = v
    BY <2>2 DEF Record
  <2>6. DOMAIN f.tabs = Listed(f.groups)
    BY <1>1, SoundFacts
  <2>7. GroupsFit(f.layout, f.groups, tabs)
    BY <2>2, <2>4, <2>6 DEF GroupsFit
  <2>8. /\ v.layout = f.layout /\ v.groups = f.groups /\ v.tabs = tabs /\ v.pane = f.pane
        /\ v.tab = f.tab /\ v = Record(v.layout, v.groups, v.tabs, v.pane, v.tab)
    BY DEF Record
  <2> HIDE DEF v
  <2>9. Sound(v)
    BY <2>2, <2>4, <2>7, <2>8 DEF Sound, IsWorkspace
  <2>10. Keeps(w, v)
    BY <1>1, <2>4, <2>8 DEF Keeps
  <2> QED BY <2>1, <2>3, <2>5, <2>9, <2>10
<1> QED BY <1>2, <1>3

\* A new pane with one tab beside those of a workspace.
LEMMA NewPaneIsSound ==
    ASSUME NEW l, Placed(l), l # NoLayout, NEW old, NEW shown, NEW T,
           DOMAIN old = shown, \A g \in shown : GoodGroup(old[g], T),
           NEW p, p \notin shown, GroupsOf(l) = shown \cup {p}, p \in PaneIds(l),
           NEW t \in T, Listed(old) \cup {t} = T, NoTab \notin T,
           NEW tabs, tabs = [x \in T |-> tabs[x]]
    PROVE  Sound(Record(l, Put(old, p, NewGroup(t)), tabs, p, t))
<1> DEFINE n == NewGroup(t)
           groups == Put(old, p, n)
<1>1. GoodGroup(n, T) /\ ToSet(n.ids) = {t}
  BY OneTabGroup
<1> HIDE DEF n
<1>2. /\ DOMAIN groups = GroupsOf(l) /\ groups = [x \in GroupsOf(l) |-> groups[x]]
      /\ groups[p] = n /\ \A x \in shown : groups[x] = old[x]
  BY DEF Put
<1> HIDE DEF groups
<1>3. Listed(groups) = T
  <2>1. Listed(groups) = UNION {ToSet(groups[g].ids) : g \in shown \cup {p}}
    BY <1>2 DEF Listed
  <2>2. UNION {ToSet(groups[g].ids) : g \in shown \cup {p}}
        = (UNION {ToSet(groups[g].ids) : g \in shown}) \cup ToSet(groups[p].ids)
    OBVIOUS
  <2>3. UNION {ToSet(groups[g].ids) : g \in shown} = UNION {ToSet(old[g].ids) : g \in shown}
    BY <1>2
  <2>4. Listed(old) = UNION {ToSet(old[g].ids) : g \in shown}
    BY DEF Listed
  <2> QED BY <1>1, <1>2, <2>1, <2>2, <2>3, <2>4
<1>4. \A g \in GroupsOf(l) : GoodGroup(groups[g], T)
  BY <1>1, <1>2
<1>5. tabs = [x \in Listed(groups) |-> tabs[x]] /\ NoTab \notin Listed(groups) /\ t \in Listed(groups)
  BY <1>3
<1>6. Sound(Record(l, groups, tabs, p, t))
  BY <1>2, <1>4, <1>5, SoundRecord
<1> QED BY <1>6 DEF groups, n

LEMMA SplitIsSound ==
    ASSUME NEW w, Sound(w), NEW dir \in Directions, NEW p \in PaneNames,
           p \notin PaneIds(w.layout), p \notin DOMAIN w.groups, NEW t, t # NoTab
    PROVE  Sound(SplitFocusedPane(w, dir, p, t)) /\ Keeps(w, SplitFocusedPane(w, dir, p, t))
<1> DEFINE l == SplitPane(w.layout, w.pane, Split(p, dir), p, p)
           groups == Put(w.groups, p, NewGroup(t))
           tab == Tab("new-tab", NoKey)
           tabs == Put(w.tabs, t, tab)
           v == Record(l, groups, tabs, p, t)
           T == DOMAIN w.tabs \cup {t}
           shown == GroupsOf(w.layout)
<1>1. CASE w.pane = NoPane
  <2>1. SplitFocusedPane(w, dir, p, t) = w
    BY <1>1 DEF SplitFocusedPane
  <2> QED BY <2>1 DEF Keeps
<1>2. CASE w.pane # NoPane
  <2>1. /\ w = Record(w.layout, w.groups, w.tabs, w.pane, w.tab)
        /\ Placed(w.layout) /\ w.layout # NoLayout /\ w.pane \in PaneIds(w.layout)
        /\ DOMAIN w.groups = shown /\ DOMAIN w.tabs = Listed(w.groups) /\ NoTab \notin DOMAIN w.tabs
        /\ \A g \in shown : GoodGroup(w.groups[g], DOMAIN w.tabs)
    BY SoundFacts
  <2>2. SplitFocusedPane(w, dir, p, t) = v
    <3>1. SplitFocusedPane(w, dir, p, t)
          = [w EXCEPT !.layout = l, !.groups = groups, !.tabs = tabs, !.pane = p, !.tab = t]
      BY <1>2, <2>1 DEF SplitFocusedPane
    <3> HIDE DEF l, groups, tabs
    <3> QED BY <2>1, <3>1 DEF Record
  <2> DEFINE split == Split(p, dir)
  <2>3. split \in SplitNodes /\ p \in Names
    BY DEF Split, SplitNodes, Names
  <2>4. l = SplitPane(w.layout, w.pane, split, p, p)
    OBVIOUS
  <2> HIDE DEF split, l
  <2>5. Placed(l) /\ PaneIds(l) = PaneIds(w.layout) \cup {p} /\ GroupsOf(l) = shown \cup {p}
    BY <2>1, <2>3, <2>4, PaneSplit
  <2>6. l # NoLayout
    BY <2>5, PanesOfLayout
  <2>7. DOMAIN tabs = T /\ tabs = [x \in T |-> tabs[x]]
    BY DEF Put
  <2> HIDE DEF tabs
  <2>8. \A g \in shown : GoodGroup(w.groups[g], T)
    <3> DEFINE D == DOMAIN w.tabs
    <3>1. D \subseteq T /\ \A g \in shown : GoodGroup(w.groups[g], D)
      BY <2>1
    <3> HIDE DEF T, D, shown
    <3> QED BY <3>1, GroupOfMoreTabs
  <2>9. t \in T /\ Listed(w.groups) \cup {t} = T /\ NoTab \notin T
    BY <2>1
  <2>10. Keeps(w, v)
    BY <2>5, <2>7 DEF Keeps, Record
  <2>11. p \notin shown /\ p \in PaneIds(l)
    BY <2>1, <2>5
  <2> HIDE DEF T, shown
  <2>12. Sound(v)
    BY <2>1, <2>5, <2>6, <2>7, <2>8, <2>9, <2>11, NewPaneIsSound
  <2> QED BY <2>2, <2>10, <2>12
<1> QED BY <1>1, <1>2

\* What is left of a workspace when a tab leaves a pane: another group still
\* shows every other tab, and a pane that goes showed no other.
LEMMA SourceIsLeft ==
    ASSUME NEW w, Sound(w), NEW from, NEW t, Holds(w, from, t)
    PROVE  LET v == LeaveSource(w, from, t)
               g == GroupOf(w, from)
           IN /\ v = Record(v.layout, v.groups, w.tabs, w.pane, w.tab)
              /\ Placed(v.layout) /\ DOMAIN v.groups = GroupsOf(v.layout)
              /\ v.groups = [x \in GroupsOf(v.layout) |-> v.groups[x]]
              /\ \A x \in GroupsOf(v.layout) : GoodGroup(v.groups[x], DOMAIN w.tabs)
              /\ GroupsOf(v.layout) \subseteq GroupsOf(w.layout)
              /\ Listed(v.groups) \subseteq DOMAIN w.tabs
              /\ DOMAIN w.tabs \subseteq Listed(v.groups) \cup {t}
              /\ \A x \in GroupsOf(w.layout) : x # g =>
                   x \in GroupsOf(v.layout) /\ v.groups[x] = w.groups[x]
              /\ \/ PaneIds(v.layout) = PaneIds(w.layout)
                 \/ PaneIds(v.layout) = PaneIds(w.layout) \ {from} /\ Len(PaneTabs(w, from)) = 1
<1> DEFINE v == LeaveSource(w, from, t)
           l == w.layout
           D == DOMAIN w.tabs
           g == GroupOf(w, from)
           n == Without(w.groups[g], t)
<1>1. /\ w = Record(l, w.groups, w.tabs, w.pane, w.tab)
      /\ Placed(l) /\ DOMAIN w.groups = GroupsOf(l) /\ w.groups = [x \in GroupsOf(l) |-> w.groups[x]]
      /\ \A x \in GroupsOf(l) : GoodGroup(w.groups[x], D)
      /\ D = Listed(w.groups)
  BY SoundFacts
<1>2. from \in PaneIds(l) /\ g \in GroupsOf(l) /\ t \in ToSet(w.groups[g].ids)
  BY SoundFacts DEF Holds, HasGroup, Has
<1>3. /\ ToSet(n.ids) = ToSet(w.groups[g].ids) \ {t}
      /\ n.ids # <<>> => GoodGroup(n, D)
      /\ n.ids = <<>> => Len(w.groups[g].ids) = 1
      /\ n.ids = <<>> => ToSet(n.ids) = {}
  <2>1. GoodGroup(w.groups[g], D) /\ t \in ToSet(w.groups[g].ids)
    BY <1>1, <1>2
  <2>2. n.ids = <<>> => ToSet(n.ids) = {}
    BY DEF ToSet
  <2> HIDE DEF D, g
  <2> QED BY <2>1, <2>2, LeftGroup
<1>4. CASE n.ids # <<>>
  <2> DEFINE groups == [w.groups EXCEPT ![g] = n]
  <2>1. v = [w EXCEPT !.groups[g] = n]
    BY <1>4 DEF LeaveSource
  <2>2. v = Record(l, groups, w.tabs, w.pane, w.tab)
    <3>1. v = [w EXCEPT !.groups = groups]
      BY <1>1, <2>1 DEF Record
    <3> HIDE DEF groups, v
    <3> QED BY <1>1, <3>1 DEF Record
  <2>3. /\ DOMAIN groups = GroupsOf(l) /\ groups = [x \in GroupsOf(l) |-> groups[x]]
        /\ groups[g] = n /\ \A x \in GroupsOf(l) : x # g => groups[x] = w.groups[x]
    <3> HIDE DEF n, g
    <3> QED BY <1>1, <1>2
  <2> HIDE DEF groups, v, n
  <2>4. v.layout = l /\ v.groups = groups /\ v = Record(v.layout, v.groups, w.tabs, w.pane, w.tab)
    BY <2>2 DEF Record
  <2>5. \A x \in GroupsOf(l) : GoodGroup(groups[x], D)
    BY <1>1, <1>3, <1>4, <2>3
  <2>6. Listed(groups) \subseteq D /\ D \subseteq Listed(groups) \cup {t}
    <3> HIDE DEF D
    <3> QED BY <1>1, <1>2, <1>3, <2>3 DEF Listed
  <2>7. \A x \in GroupsOf(l) : x # g => x \in GroupsOf(v.layout) /\ v.groups[x] = w.groups[x]
    BY <2>3, <2>4
  <2>8. PaneIds(v.layout) = PaneIds(l) /\ GroupsOf(v.layout) = GroupsOf(l)
    BY <2>4
  <2>9. /\ Placed(v.layout) /\ DOMAIN v.groups = GroupsOf(v.layout)
        /\ v.groups = [x \in GroupsOf(v.layout) |-> v.groups[x]]
        /\ \A x \in GroupsOf(v.layout) : GoodGroup(v.groups[x], D)
        /\ Listed(v.groups) \subseteq D /\ D \subseteq Listed(v.groups) \cup {t}
    BY <1>1, <2>3, <2>4, <2>5, <2>6
  <2> QED BY <2>4, <2>7, <2>8, <2>9 DEF v
<1>5. CASE n.ids = <<>>
  <2> DEFINE m == RemovePane(l, from)
             rest == GroupsOf(l) \ {g}
             groups == [x \in rest |-> w.groups[x]]
  <2>1. v = WithoutPane(w, from)
    BY <1>5 DEF LeaveSource
  <2>2. v = Record(m, groups, w.tabs, w.pane, w.tab)
    <3>1. Restrict(w.groups, DOMAIN w.groups \ {g}) = groups
      BY <1>1 DEF Restrict
    <3>2. v = [w EXCEPT !.groups = Restrict(w.groups, DOMAIN w.groups \ {g}), !.layout = m]
      BY <2>1 DEF WithoutPane
    <3>3. v = [w EXCEPT !.groups = groups, !.layout = m]
      BY <3>1, <3>2
    <3> HIDE DEF groups, v, m
    <3> QED BY <1>1, <3>3 DEF Record
  <2>3. Placed(m) /\ PaneIds(m) = PaneIds(l) \ {from} /\ GroupsOf(m) = rest
    <3>1. g = FindPane(l, from).group
      BY DEF GroupOf
    <3> QED BY <1>1, <1>2, <3>1, PaneRemoved
  <2>4. DOMAIN groups = rest /\ groups = [x \in rest |-> groups[x]]
        /\ \A x \in rest : groups[x] = w.groups[x]
    OBVIOUS
  <2> HIDE DEF groups, v, m
  <2>5. v.layout = m /\ v.groups = groups /\ v = Record(v.layout, v.groups, w.tabs, w.pane, w.tab)
    BY <2>2 DEF Record
  <2>6. \A x \in rest : GoodGroup(groups[x], D)
    BY <1>1, <2>4
  <2>7. ToSet(w.groups[g].ids) \subseteq {t}
    BY <1>3, <1>5
  <2>8. Listed(groups) \subseteq D /\ D \subseteq Listed(groups) \cup {t}
    <3> HIDE DEF D
    <3> QED BY <1>1, <1>2, <2>4, <2>7 DEF Listed
  <2>9. Len(PaneTabs(w, from)) = 1
    BY <1>3, <1>5 DEF PaneTabs
  <2>10. /\ Placed(v.layout) /\ DOMAIN v.groups = GroupsOf(v.layout)
         /\ v.groups = [x \in GroupsOf(v.layout) |-> v.groups[x]]
         /\ \A x \in GroupsOf(v.layout) : GoodGroup(v.groups[x], D)
         /\ GroupsOf(v.layout) \subseteq GroupsOf(w.layout)
         /\ Listed(v.groups) \subseteq D /\ D \subseteq Listed(v.groups) \cup {t}
    BY <2>3, <2>4, <2>5, <2>6, <2>8
  <2>11. /\ \A x \in GroupsOf(l) : x # g => x \in GroupsOf(v.layout) /\ v.groups[x] = w.groups[x]
         /\ PaneIds(v.layout) = PaneIds(l) \ {from}
    BY <2>3, <2>4, <2>5
  <2> QED BY <2>5, <2>9, <2>10, <2>11 DEF v
<1> QED BY <1>4, <1>5

\* The tab lands in the other group, which may show it already.
LEMMA LandedIsSound ==
    ASSUME NEW w, Sound(w), NEW to \in PaneIds(w.layout), NEW t \in DOMAIN w.tabs,
           NEW index \in Nat
    PROVE  LET g == GroupOf(w, to)
               v == [w EXCEPT !.groups[g] = InsertMoved(@, t, index), !.pane = to, !.tab = t]
           IN /\ Sound(v)
              /\ v.layout = w.layout /\ v.tabs = w.tabs /\ v.pane = to /\ v.tab = t
              /\ \A x \in GroupsOf(w.layout) : x # g => v.groups[x] = w.groups[x]
              /\ g \in GroupsOf(w.layout) /\ t \in ToSet(v.groups[g].ids)
<1> DEFINE l == w.layout
           D == DOMAIN w.tabs
           g == GroupOf(w, to)
           n == InsertMoved(w.groups[g], t, index)
           groups == [w.groups EXCEPT ![g] = n]
           v == [w EXCEPT !.groups[g] = InsertMoved(@, t, index), !.pane = to, !.tab = t]
<1>1. /\ w = Record(l, w.groups, w.tabs, w.pane, w.tab)
      /\ Placed(l) /\ l # NoLayout
      /\ DOMAIN w.groups = GroupsOf(l) /\ w.groups = [x \in GroupsOf(l) |-> w.groups[x]]
      /\ \A x \in GroupsOf(l) : GoodGroup(w.groups[x], D)
      /\ D = Listed(w.groups) /\ NoTab \notin D
      /\ w.tabs = [x \in Listed(w.groups) |-> w.tabs[x]]
      /\ g \in GroupsOf(l)
  BY SoundFacts
<1>2. GoodGroup(n, D) /\ ToSet(n.ids) = ToSet(w.groups[g].ids) \cup {t}
  <2> DEFINE m == w.groups[g]
  <2>1. GoodGroup(m, D) /\ t \in D
    BY <1>1
  <2> HIDE DEF D, m
  <2>2. GoodGroup(InsertMoved(m, t, index), D)
        /\ ToSet(InsertMoved(m, t, index).ids) = ToSet(m.ids) \cup {t}
    <3>1. GoodGroup(m, D)
      BY <2>1
    <3>2. t \in D
      BY <2>1
    <3>3. \A k \in Nat : GoodGroup(InsertMoved(m, t, k), D)
      BY <3>1, <3>2, MovedTab
    <3>4. \A k \in Nat : ToSet(InsertMoved(m, t, k).ids) = ToSet(m.ids) \cup {t}
      BY <3>1, <3>2, MovedTab
    <3> QED BY <3>3, <3>4
  <2> QED BY <2>2 DEF m
<1>3. v = Record(l, groups, w.tabs, to, t)
  <2>1. v = [w EXCEPT !.groups = groups, !.pane = to, !.tab = t]
    BY <1>1 DEF Record
  <2> HIDE DEF groups, v
  <2> QED BY <1>1, <2>1 DEF Record
<1>4. /\ DOMAIN groups = GroupsOf(l) /\ groups = [x \in GroupsOf(l) |-> groups[x]]
      /\ groups[g] = n /\ \A x \in GroupsOf(l) : x # g => groups[x] = w.groups[x]
  <2> HIDE DEF n, g
  <2> QED BY <1>1
<1> HIDE DEF groups, n
<1>5. Listed(groups) = D
  <2>1. Listed(groups) \subseteq D
    <3> HIDE DEF D
    <3> QED BY <1>1, <1>2, <1>4 DEF Listed
  <2>2. D \subseteq Listed(groups)
    <3> HIDE DEF D
    <3> QED BY <1>1, <1>2, <1>4 DEF Listed
  <2> QED BY <2>1, <2>2
<1>6. \A x \in GroupsOf(l) : GoodGroup(groups[x], D)
  BY <1>1, <1>2, <1>4
<1>7. w.tabs = [x \in Listed(groups) |-> w.tabs[x]] /\ NoTab \notin Listed(groups)
      /\ t \in Listed(groups)
  BY <1>1, <1>5
<1> HIDE DEF D
<1>8. Sound(Record(l, groups, w.tabs, to, t))
  BY <1>1, <1>4, <1>6, <1>7, SoundRecord
<1> HIDE DEF v
<1>9. v.layout = l /\ v.groups = groups /\ v.tabs = w.tabs /\ v.pane = to /\ v.tab = t
  BY <1>3 DEF Record
<1>10. t \in ToSet(n.ids)
  BY <1>2
<1> QED BY <1>1, <1>3, <1>4, <1>8, <1>9, <1>10 DEF v

LEMMA MoveIsSound ==
    ASSUME NEW w, Sound(w), NEW from, NEW to, NEW t, NEW index \in Nat
    PROVE  Sound(MoveTab(w, from, to, t, index)) /\ Keeps(w, MoveTab(w, from, to, t, index))
<1> DEFINE landed == [w EXCEPT !.groups[GroupOf(w, to)] = InsertMoved(@, t, index),
                               !.pane = to, !.tab = t]
           v == LeaveSource(landed, from, t)
           m == MoveTab(w, from, to, t, index)
<1>1. CASE ~Movable(w, from, to, t)
  <2>1. m = w
    BY <1>1, Zenon DEF MoveTab
  <2> QED BY <2>1 DEF Keeps
<1>2. CASE Movable(w, from, to, t)
  <2> DEFINE g == GroupOf(w, to)
  <2>1. to \in PaneIds(w.layout) /\ from \in PaneIds(w.layout) /\ t \in DOMAIN w.tabs
        /\ Holds(w, from, t)
    BY <1>2 DEF Movable, Holds, HasGroup
  <2>2. /\ Sound(landed)
        /\ landed.layout = w.layout /\ landed.tabs = w.tabs /\ landed.pane = to /\ landed.tab = t
        /\ \A x \in GroupsOf(w.layout) : x # g => landed.groups[x] = w.groups[x]
        /\ g \in GroupsOf(w.layout) /\ t \in ToSet(landed.groups[g].ids)
    BY <2>1, LandedIsSound
  <2> HIDE DEF landed
  <2>3. Keeps(w, landed)
    BY <2>2 DEF Keeps
  <2>4. CASE from = to
    <3>1. m = landed
      BY <1>2, <2>4, Zenon DEF MoveTab, landed
    <3> QED BY <2>2, <2>3, <3>1
  <2>5. CASE from # to
    <3>1. m = v
      BY <1>2, <2>5, Zenon DEF MoveTab, landed
    <3> DEFINE f == GroupOf(w, from)
    <3>2. f # g /\ f \in GroupsOf(w.layout)
      BY <2>1, <2>5, SoundFacts
    <3>3. GroupOf(landed, from) = f /\ GroupOf(landed, to) = g
      BY <2>2 DEF GroupOf
    <3>4. landed.groups[f] = w.groups[f]
      BY <2>2, <3>2
    <3>5. Holds(landed, from, t)
      <4>1. HasGroup(landed, from)
        BY <2>1, <2>2, SoundFacts
      <4>2. Has(w.groups[f], t)
        BY <2>1 DEF Holds
      <4> QED BY <3>3, <3>4, <4>1, <4>2 DEF Holds
    <3>6. PaneTabs(landed, from) = PaneTabs(w, from)
      BY <3>3, <3>4 DEF PaneTabs
    <3> HIDE DEF f, g
    <3>7. /\ v = Record(v.layout, v.groups, w.tabs, to, t)
          /\ Placed(v.layout) /\ DOMAIN v.groups = GroupsOf(v.layout)
          /\ v.groups = [x \in GroupsOf(v.layout) |-> v.groups[x]]
          /\ \A x \in GroupsOf(v.layout) : GoodGroup(v.groups[x], DOMAIN w.tabs)
          /\ Listed(v.groups) \subseteq DOMAIN w.tabs
          /\ DOMAIN w.tabs \subseteq Listed(v.groups) \cup {t}
          /\ \A x \in GroupsOf(w.layout) : x # f =>
               x \in GroupsOf(v.layout) /\ v.groups[x] = landed.groups[x]
          /\ \/ PaneIds(v.layout) = PaneIds(w.layout)
             \/ PaneIds(v.layout) = PaneIds(w.layout) \ {from} /\ Len(PaneTabs(w, from)) = 1
      <4>1. LET u == LeaveSource(landed, from, t)
                h == GroupOf(landed, from)
            IN /\ u = Record(u.layout, u.groups, landed.tabs, landed.pane, landed.tab)
               /\ Placed(u.layout) /\ DOMAIN u.groups = GroupsOf(u.layout)
               /\ u.groups = [x \in GroupsOf(u.layout) |-> u.groups[x]]
               /\ \A x \in GroupsOf(u.layout) : GoodGroup(u.groups[x], DOMAIN landed.tabs)
               /\ GroupsOf(u.layout) \subseteq GroupsOf(landed.layout)
               /\ Listed(u.groups) \subseteq DOMAIN landed.tabs
               /\ DOMAIN landed.tabs \subseteq Listed(u.groups) \cup {t}
               /\ \A x \in GroupsOf(landed.layout) : x # h =>
                    x \in GroupsOf(u.layout) /\ u.groups[x] = landed.groups[x]
               /\ \/ PaneIds(u.layout) = PaneIds(landed.layout)
                  \/ PaneIds(u.layout) = PaneIds(landed.layout) \ {from}
                     /\ Len(PaneTabs(landed, from)) = 1
        <5> HIDE DEF v, m
        <5> QED BY <2>2, <3>5, SourceIsLeft
      <4> QED BY <2>2, <3>3, <3>6, <4>1
    <3> HIDE DEF v
    <3>8. g \in GroupsOf(v.layout) /\ t \in ToSet(v.groups[g].ids)
      BY <2>2, <3>2, <3>7
    <3>9. Listed(v.groups) = DOMAIN w.tabs
      <4>1. t \in Listed(v.groups)
        BY <3>7, <3>8 DEF Listed
      <4> QED BY <3>7, <4>1
    <3>10. to \in PaneIds(v.layout) /\ v.layout # NoLayout
      <4>1. to \in PaneIds(v.layout)
        BY <2>1, <2>5, <3>7
      <4> QED BY <3>7, <4>1, PanesOfLayout
    <3>11. w.tabs = [x \in Listed(v.groups) |-> w.tabs[x]] /\ NoTab \notin Listed(v.groups)
           /\ t \in Listed(v.groups)
      BY <2>1, <3>9, SoundFacts
    <3>12. Sound(Record(v.layout, v.groups, w.tabs, to, t))
      BY <3>7, <3>10, <3>11, SoundRecord
    <3>13. Keeps(w, v)
      <4>1. DOMAIN v.tabs = DOMAIN w.tabs
        BY <3>7 DEF Record
      <4>2. ASSUME NEW p \in PaneIds(w.layout) \ PaneIds(v.layout)
            PROVE  ~(Len(PaneTabs(w, p)) > 1)
        <5>1. p = from /\ Len(PaneTabs(w, from)) = 1
          BY <3>7
        <5>2. Len(PaneTabs(w, p)) = 1
          BY <5>1
        <5> QED BY <5>2
      <4> QED BY <4>1, <4>2 DEF Keeps
    <3> QED BY <3>1, <3>7, <3>12, <3>13
  <2> QED BY <2>4, <2>5
<1> QED BY <1>1, <1>2

LEMMA EdgeIsSound ==
    ASSUME NEW w, Sound(w), NEW from, NEW to, NEW t, NEW edge \in Edges, NEW p \in PaneNames,
           p \notin PaneIds(w.layout), p \notin DOMAIN w.groups
    PROVE  /\ Sound(MoveTabToEdge(w, from, to, t, edge, p))
           /\ Keeps(w, MoveTabToEdge(w, from, to, t, edge, p))
<1> DEFINE m == MoveTabToEdge(w, from, to, t, edge, p)
           left == LeaveSource(w, from, t)
           alone == from = to /\ Len(PaneTabs(w, from)) <= 1
           D == DOMAIN w.tabs
           shown == GroupsOf(left.layout)
           split == Split(p, EdgeDirection(edge))
           before == BeforeEdge(edge)
           l == InsertPane(left.layout, to, split, before, p, p)
           groups == Put(left.groups, p, NewGroup(t))
           v == Record(l, groups, w.tabs, p, t)
<1>1. CASE ~Movable(w, from, to, t) \/ alone
  <2>1. m = w
    BY <1>1 DEF MoveTabToEdge
  <2> QED BY <2>1 DEF Keeps
<1>2. CASE Movable(w, from, to, t) /\ ~alone
  <2>1. to \in PaneIds(w.layout) /\ Holds(w, from, t) /\ t \in D
    BY <1>2 DEF Movable, HasGroup
  <2>2. /\ left = Record(left.layout, left.groups, w.tabs, w.pane, w.tab)
        /\ Placed(left.layout) /\ DOMAIN left.groups = shown
        /\ \A x \in shown : GoodGroup(left.groups[x], D)
        /\ shown \subseteq GroupsOf(w.layout)
        /\ Listed(left.groups) \subseteq D /\ D \subseteq Listed(left.groups) \cup {t}
        /\ \/ PaneIds(left.layout) = PaneIds(w.layout)
           \/ PaneIds(left.layout) = PaneIds(w.layout) \ {from} /\ Len(PaneTabs(w, from)) = 1
    <3>1. LET u == LeaveSource(w, from, t)
              h == GroupOf(w, from)
          IN /\ u = Record(u.layout, u.groups, w.tabs, w.pane, w.tab)
             /\ Placed(u.layout) /\ DOMAIN u.groups = GroupsOf(u.layout)
             /\ u.groups = [x \in GroupsOf(u.layout) |-> u.groups[x]]
             /\ \A x \in GroupsOf(u.layout) : GoodGroup(u.groups[x], DOMAIN w.tabs)
             /\ GroupsOf(u.layout) \subseteq GroupsOf(w.layout)
             /\ Listed(u.groups) \subseteq DOMAIN w.tabs
             /\ DOMAIN w.tabs \subseteq Listed(u.groups) \cup {t}
             /\ \A x \in GroupsOf(w.layout) : x # h =>
                  x \in GroupsOf(u.layout) /\ u.groups[x] = w.groups[x]
             /\ \/ PaneIds(u.layout) = PaneIds(w.layout)
                \/ PaneIds(u.layout) = PaneIds(w.layout) \ {from}
                   /\ Len(PaneTabs(w, from)) = 1
      <4> HIDE DEF left, m, v
      <4> QED BY <2>1, SourceIsLeft
    <3> QED BY <3>1
  <2>3. m = v
    <3>1. m = [left EXCEPT !.layout = l, !.groups = groups, !.pane = p, !.tab = t]
      BY <1>2 DEF MoveTabToEdge
    <3>2. left = Record(left.layout, left.groups, w.tabs, w.pane, w.tab)
      BY <2>2
    <3> HIDE DEF m, left, l, groups
    <3> DEFINE fields == {"layout", "groups", "tabs", "pane", "tab"}
    <3>3. DOMAIN left = fields /\ left = [k \in fields |-> left[k]] /\ left.tabs = w.tabs
      BY <3>2 DEF Record
    <3>4. DOMAIN m = fields /\ m = [k \in fields |-> m[k]]
      BY <3>1, <3>3
    <3>5. m.layout = l /\ m.groups = groups /\ m.tabs = w.tabs /\ m.pane = p /\ m.tab = t
      BY <3>1, <3>3
    <3> QED BY <3>4, <3>5 DEF Record
  <2> HIDE DEF m, left
  <2>4. to \in PaneIds(left.layout)
    <3>1. CASE PaneIds(left.layout) = PaneIds(w.layout)
      BY <2>1, <3>1
    <3>2. CASE PaneIds(left.layout) = PaneIds(w.layout) \ {from} /\ Len(PaneTabs(w, from)) = 1
      <4>1. from # to
        BY <1>2, <3>2
      <4> QED BY <2>1, <3>2, <4>1
    <3> QED BY <2>2, <3>1, <3>2
  <2>5. split \in SplitNodes /\ before \in BOOLEAN /\ p \in Names
    BY DEF Split, SplitNodes, EdgeDirection, Directions, BeforeEdge, Names
  <2>6. p \notin PaneIds(left.layout) /\ p \notin shown
    BY <2>2, SoundFacts
  <2> HIDE DEF split, before
  <2>7. Placed(l) /\ PaneIds(l) = PaneIds(left.layout) \cup {p} /\ GroupsOf(l) = shown \cup {p}
    BY <2>2, <2>4, <2>5, <2>6, PaneInserted
  <2> HIDE DEF l
  <2>8. l # NoLayout /\ p \in PaneIds(l)
    BY <2>7, PanesOfLayout
  <2>9. Listed(left.groups) \cup {t} = D /\ NoTab \notin D /\ w.tabs = [x \in D |-> w.tabs[x]]
    BY <2>1, <2>2, SoundFacts
  <2>10. Sound(v)
    <3> DEFINE old == left.groups
    <3>1. /\ DOMAIN old = shown /\ Listed(old) \cup {t} = D
          /\ \A x \in shown : GoodGroup(old[x], D)
      BY <2>2, <2>9
    <3> HIDE DEF old, D, shown
    <3> QED BY <2>1, <2>6, <2>7, <2>8, <2>9, <3>1, NewPaneIsSound DEF old
  <2>11. Keeps(w, v)
    <3>1. v.layout = l /\ v.tabs = w.tabs
      BY DEF Record
    <3>2. ASSUME NEW q \in PaneIds(w.layout) \ PaneIds(l)
          PROVE  ~(Len(PaneTabs(w, q)) > 1)
      <4>1. q = from /\ Len(PaneTabs(w, from)) = 1
        BY <2>2, <2>7
      <4>2. Len(PaneTabs(w, q)) = 1
        BY <4>1
      <4> QED BY <4>2
    <3> HIDE DEF v
    <3> QED BY <3>1, <3>2 DEF Keeps
  <2> QED BY <2>3, <2>10, <2>11 DEF m
<1> QED BY <1>1, <1>2

LEMMA ListOfGroup ==
    ASSUME NEW T, NEW g, GoodGroup(g, T)
    PROVE  g.ids \in Seq(ToSet(g.ids)) /\ IsInjective(g.ids)
<1> DEFINE U == ToSet(g.ids)
<1>1. U \subseteq U
  OBVIOUS
<1>2. GoodGroup(g, U)
  BY <1>1, GroupOfItsTabs
<1> QED BY <1>2 DEF GoodGroup

LEMMA CloseIsSound ==
    ASSUME NEW w, Sound(w), NEW p, NEW t, Holds(w, p, t)
    PROVE  Sound(CloseTab(w, p, t))
<1> DEFINE l == w.layout
           D == DOMAIN w.tabs
           g == GroupOf(w, p)
           n == Without(w.groups[g], t)
           kept == Restrict(w.tabs, D \ {t})
           dropped == [w EXCEPT !.tabs = kept]
           m == RemovePane(l, p)
           rest == [x \in GroupsOf(l) \ {g} |-> w.groups[x]]
           groups == [w.groups EXCEPT ![g] = n]
           gone == Record(m, rest, kept, NoPane, NoTab)
           left == Record(l, groups, kept, p, n.active)
           closed == IF n.ids = <<>> THEN gone ELSE left
<1>1. /\ w = Record(l, w.groups, w.tabs, w.pane, w.tab)
      /\ Placed(l) /\ DOMAIN w.groups = GroupsOf(l) /\ w.groups = [x \in GroupsOf(l) |-> w.groups[x]]
      /\ \A x \in GroupsOf(l) : GoodGroup(w.groups[x], D)
      /\ D = Listed(w.groups) /\ NoTab \notin D
  BY SoundFacts
<1>2. p \in PaneIds(l) /\ g \in GroupsOf(l) /\ t \in ToSet(w.groups[g].ids) /\ HasGroup(w, p)
  BY SoundFacts DEF Holds, HasGroup, Has
<1>3. t \in D
  BY <1>1, <1>2 DEF Listed
<1>4. n.ids # <<>> => GoodGroup(n, D)
  <2> DEFINE old == w.groups[g]
  <2>1. GoodGroup(old, D) /\ t \in ToSet(old.ids)
    BY <1>1, <1>2
  <2> HIDE DEF D, old
  <2>2. Without(old, t).ids # <<>> => GoodGroup(Without(old, t), D)
    BY <2>1, LeftGroup
  <2> QED BY <2>2 DEF old
<1>5. DOMAIN kept = D \ {t}
  BY DEF Restrict
<1>6. dropped = Record(l, w.groups, kept, w.pane, w.tab)
  <2> DEFINE v == dropped
  <2>1. v = [w EXCEPT !.tabs = kept]
    OBVIOUS
  <2> HIDE DEF v, kept
  <2>2. v = Record(l, w.groups, kept, w.pane, w.tab)
    BY <1>1, <2>1 DEF Record
  <2> QED BY <2>2 DEF v
<1>7. \A x \in GroupsOf(l) : w.groups[x].ids \in Seq(ToSet(w.groups[x].ids))
                            /\ IsInjective(w.groups[x].ids)
  <2> HIDE DEF D
  <2> QED BY <1>1, ListOfGroup
<1>8. CloseTab(w, p, t) = EnsureUsable(closed)
  <2> DEFINE v == [WithoutPane(dropped, p) EXCEPT !.pane = NoPane, !.tab = NoTab]
             u == [dropped EXCEPT !.groups[g] = n, !.pane = p, !.tab = n.active]
  <2>1. CloseTab(w, p, t) = EnsureUsable(IF n.ids = <<>> THEN v ELSE u)
    BY <1>2, <1>3 DEF CloseTab
  <2> HIDE DEF kept, n
  <2>2. v = gone
    <3> DEFINE a == WithoutPane(dropped, p)
    <3>1. GroupOf(dropped, p) = g /\ dropped.groups = w.groups /\ dropped.layout = l
      BY <1>6 DEF GroupOf, Record
    <3>2. Restrict(w.groups, DOMAIN w.groups \ {g}) = rest
      BY <1>1 DEF Restrict
    <3>3. a = [dropped EXCEPT !.groups = rest, !.layout = m]
      BY <3>1, <3>2 DEF WithoutPane
    <3> HIDE DEF a, dropped, rest, m
    <3>4. a = Record(m, rest, kept, w.pane, w.tab)
      BY <1>6, <3>3 DEF Record
    <3>5. v = [a EXCEPT !.pane = NoPane, !.tab = NoTab]
      BY DEF a
    <3> HIDE DEF v
    <3> QED BY <3>4, <3>5 DEF Record
  <2>3. u = left
    <3>1. dropped.groups = w.groups
      BY <1>6 DEF Record
    <3>2. u = [dropped EXCEPT !.groups = groups, !.pane = p, !.tab = n.active]
      BY <1>6, <3>1 DEF Record
    <3> HIDE DEF u, dropped, groups
    <3> QED BY <1>6, <3>2 DEF Record
  <2> HIDE DEF v, u, gone, left
  <2> QED BY <2>1, <2>2, <2>3
<1> HIDE DEF kept, dropped
<1>9. CASE n.ids = <<>>
  <2>1. Placed(m) /\ GroupsOf(m) = GroupsOf(l) \ {g}
    <3>1. g = FindPane(l, p).group
      BY DEF GroupOf
    <3> QED BY <1>1, <1>2, <3>1, PaneRemoved
  <2>2. DOMAIN rest = GroupsOf(l) \ {g} /\ \A x \in DOMAIN rest : rest[x] = w.groups[x]
    OBVIOUS
  <2> HIDE DEF m, rest, g
  <2>3. /\ gone.layout = m /\ gone.groups = rest /\ gone.tabs = kept /\ gone.tab = NoTab
        /\ IsWorkspace(gone)
    BY DEF Record, IsWorkspace
  <2> HIDE DEF gone
  <2>4. Repairable(gone)
    <3>1. \A x \in DOMAIN rest : rest[x].ids \in Seq(ToSet(rest[x].ids)) /\ IsInjective(rest[x].ids)
      BY <1>7, <2>2
    <3>2. NoTab \notin DOMAIN kept
      BY <1>1, <1>5
    <3> QED BY <2>1, <2>3, <3>1, <3>2 DEF Repairable
  <2> QED BY <1>8, <1>9, <2>4, RepairedIsSound
<1>10. CASE n.ids # <<>>
  <2>1. /\ DOMAIN groups = GroupsOf(l) /\ groups[g] = n
        /\ \A x \in GroupsOf(l) : x # g => groups[x] = w.groups[x]
    <3> HIDE DEF n, g
    <3> QED BY <1>1, <1>2
  <2>2. GoodGroup(n, D)
    BY <1>4, <1>10
  <2> HIDE DEF groups, n, g
  <2>3. /\ left.layout = l /\ left.groups = groups /\ left.tabs = kept /\ left.tab = n.active
        /\ IsWorkspace(left)
    BY DEF Record, IsWorkspace
  <2> HIDE DEF left
  <2>4. n.ids \in Seq(ToSet(n.ids)) /\ IsInjective(n.ids) /\ n.active \in ToSet(n.ids)
    <3> HIDE DEF D
    <3>1. n.ids \in Seq(ToSet(n.ids)) /\ IsInjective(n.ids)
      BY <2>2, ListOfGroup
    <3> QED BY <2>2, <3>1 DEF GoodGroup
  <2>5. Repairable(left)
    <3>1. \A x \in DOMAIN groups :
            groups[x].ids \in Seq(ToSet(groups[x].ids)) /\ IsInjective(groups[x].ids)
      BY <1>7, <2>1, <2>4
    <3>2. NoTab \notin DOMAIN kept
      BY <1>1, <1>5
    <3>3. \E x \in GroupsOf(left.layout) : left.tab \in ToSet(left.groups[x].ids)
      BY <1>2, <2>1, <2>3, <2>4
    <3> QED BY <1>1, <2>3, <3>1, <3>2, <3>3 DEF Repairable
  <2> QED BY <1>8, <1>10, <2>5, RepairedIsSound
<1> QED BY <1>9, <1>10

------------------------------------------------------------------------------
(* The session: every workspace of a page and every one on its way to the    *)
(* storage is sound, so a start repairs none.                                *)

StoresSound(save) == save.row = "workspace" => Sound(save.value)

SpaceInv ==
    /\ sequence \in Nat /\ loads \in Nat
    /\ origin # "Recovered"
    /\ loads > 0 => Sound(ws)
    /\ spaceRow = NoRow \/ Sound(spaceRow.value)
    /\ \E S : saves \in Seq(S) /\ \A save \in S : StoresSound(save)

LEMMA StartIsSound ==
    ASSUME spaceRow = NoRow \/ Sound(spaceRow.value), NEW available \in BOOLEAN
    PROVE  /\ Sound(StartWorkspace(available).ws)
           /\ StartWorkspace(available).origin # "Recovered"
<1> DEFINE start == StartWorkspace(available)
           old == spaceRow.value
<1>1. CASE ~available
  <2>1. start = [ws |-> EnsureUsable(EmptyWorkspace), origin |-> "StorageUnavailable"]
    BY <1>1, Zenon DEF StartWorkspace
  <2>2. EnsureUsable(EmptyWorkspace) = RecoveredWorkspace
    BY DEF EnsureUsable, Usable, EmptyWorkspace
  <2> QED BY <2>1, <2>2, RecoveredIsSound
<1>2. CASE available /\ spaceRow = NoRow
  <2>1. start = [ws |-> BootstrapWorkspace, origin |-> "Bootstrap"]
    BY <1>2, Zenon DEF StartWorkspace
  <2> QED BY <2>1, BootstrapIsSound
<1>3. CASE available /\ spaceRow # NoRow
  <2>1. start = [ws |-> EnsureUsable(old),
                 origin |-> IF EnsureUsable(old) = old THEN "Stored" ELSE "Recovered"]
    BY <1>3, Zenon DEF StartWorkspace
  <2>2. Sound(old)
    BY <1>3
  <2>3. EnsureUsable(old) = old
    BY <2>2, SoundIsKept
  <2>4. start = [ws |-> old, origin |-> "Stored"]
    BY <2>1, <2>3
  <2> QED BY <2>2, <2>4
<1> QED BY <1>1, <1>2, <1>3

\* A command that runs: its workspace is sound, and nothing got lost.
Runs(next) == Run(next) /\ Sound(next) /\ sequence' \in Nat
RunsKeeping(next) == Runs(next) /\ Keeps(ws, next)

\* A snapshot is saved.
SavesSnapshot(t) ==
    saves' = Append(saves, SnapshotSave(t)) /\ UNCHANGED <<ws, origin, sequence, spaceRow, loads>>

LEMMA NextIsATab ==
    ASSUME sequence \in Nat, NEW kind
    PROVE  NextId(kind) # NoTab
<1>1. ASSUME NEW name PROVE <<kind, sequence + 1>> # <<name, 0>>
  OBVIOUS
<1> QED BY <1>1, Zenon DEF NextId, NoTab

LEMMA OpenRuns ==
    ASSUME SpaceInv, Sound(ws), NEW p, NEW kind, NEW key, Open(p, kind, key)
    PROVE  \E next : RunsKeeping(next)
<1> DEFINE t == NextId(kind)
           tab == Tab(kind, key)
           next == OpenTab(ws, p, t, tab)
<1>1. t # NoTab /\ sequence + 1 \in Nat
  BY NextIsATab DEF SpaceInv
<1>2. Run(next) /\ sequence' = sequence + 1
  BY DEF Open
<1> HIDE DEF t, tab
<1>3. Sound(next) /\ Keeps(ws, next)
  BY <1>1, OpenIsSound
<1> HIDE DEF next
<1> QED BY <1>1, <1>2, <1>3 DEF RunsKeeping, Runs

LEMMA FocusRuns ==
    ASSUME SpaceInv, Sound(ws), NEW p, NEW t, FocusButton(p, t)
    PROVE  \E next : RunsKeeping(next)
<1> DEFINE next == FocusTab(ws, p, t)
<1>1. Run(next) /\ sequence' = sequence /\ sequence \in Nat
  BY DEF FocusButton, SpaceInv
<1>2. Sound(next) /\ Keeps(ws, next)
  BY FocusIsSound
<1> HIDE DEF next
<1> QED BY <1>1, <1>2 DEF RunsKeeping, Runs

LEMMA UseRuns ==
    ASSUME SpaceInv, Sound(ws), Use
    PROVE  (\E next : RunsKeeping(next)) \/ (\E t : SavesSnapshot(t))
<1>1. ASSUME NEW p, NEW kind, NEW key, OpenOrFocus(p, kind, key)
      PROVE  \E next : RunsKeeping(next)
  <2> DEFINE matching == Filtered(PaneTabs(ws, p),
                                  {t \in DOMAIN ws.tabs : ws.tabs[t] = Tab(kind, key)})
  <2>1. FocusButton(p, matching[1]) \/ Open(p, kind, key)
    BY <1>1 DEF OpenOrFocus
  <2> HIDE DEF matching
  <2> QED BY <2>1, OpenRuns, FocusRuns
<1>2. ASSUME NEW p, NEW t, NEW kind, ConvertOption(p, t, kind)
      PROVE  \E next : RunsKeeping(next)
  <2> DEFINE tab == Tab(kind, NoKey)
             next == ConvertTab(ws, p, t, tab)
  <2>1. Run(next) /\ sequence' = sequence /\ sequence \in Nat
    BY <1>2 DEF ConvertOption, SpaceInv
  <2> HIDE DEF tab
  <2>2. Sound(next) /\ Keeps(ws, next)
    BY ConvertIsSound
  <2> HIDE DEF next
  <2> QED BY <2>1, <2>2 DEF RunsKeeping, Runs
<1>3. ASSUME NEW kind, SaveSnapshot(kind)
      PROVE  \E t : SavesSnapshot(t)
  BY <1>3 DEF SaveSnapshot, SavesSnapshot, Save
<1>4. CASE OpenNewTab
  BY <1>4, OpenRuns DEF OpenNewTab
<1>5. CASE \E p \in PaneIds(ws.layout) : \E t \in ToSet(PaneTabs(ws, p)) :
             \/ \E kind \in Options : ConvertOption(p, t, kind)
             \/ FocusButton(p, t)
  BY <1>2, <1>5, FocusRuns
<1>6. CASE \E p \in PaneIds(ws.layout), key \in Keys :
             \/ OpenPubkeyTab(p, key) \/ OpenEventTab(p, key)
             \/ OpenAuthorContext(p, key) \/ OpenThread(p, key)
  BY <1>1, <1>6, OpenRuns DEF OpenPubkeyTab, OpenEventTab, OpenAuthorContext, OpenThread
<1>7. CASE SaveQuery \/ SaveRequest
  BY <1>3, <1>7 DEF SaveQuery, SaveRequest
<1> QED BY <1>4, <1>5, <1>6, <1>7 DEF Use

LEMMA ArrangeRuns ==
    ASSUME SpaceInv, Sound(ws), Arrange
    PROVE  \E next : RunsKeeping(next)
<1>1. sequence \in Nat /\ sequence + 1 \in Nat
  BY DEF SpaceInv
<1>2. \A p \in FreshPanes : p \in PaneNames /\ p \notin PaneIds(ws.layout) /\ p \notin DOMAIN ws.groups
  BY DEF FreshPanes
<1>3. ASSUME NEW dir \in Directions, NEW p \in FreshPanes, SplitPaneMenu(dir, p)
      PROVE  \E next : RunsKeeping(next)
  <2> DEFINE t == NextId("new-tab")
             next == SplitFocusedPane(ws, dir, p, t)
  <2>1. Run(next) /\ sequence' = sequence + 1
    BY <1>3 DEF SplitPaneMenu
  <2>2. t # NoTab
    BY <1>1, NextIsATab
  <2> HIDE DEF t
  <2>3. Sound(next) /\ Keeps(ws, next)
    BY <1>2, <2>2, SplitIsSound
  <2> HIDE DEF next
  <2> QED BY <1>1, <2>1, <2>3 DEF RunsKeeping, Runs
<1>4. ASSUME NEW from, NEW to, NEW t, NEW index \in 0..1, DropTab(from, to, t, index)
      PROVE  \E next : RunsKeeping(next)
  <2> DEFINE next == MoveTab(ws, from, to, t, index)
  <2>1. Run(next) /\ sequence' = sequence
    BY <1>4 DEF DropTab
  <2>2. index \in Nat
    OBVIOUS
  <2>3. Sound(next) /\ Keeps(ws, next)
    BY <2>2, MoveIsSound
  <2> HIDE DEF next
  <2> QED BY <1>1, <2>1, <2>3 DEF RunsKeeping, Runs
<1>5. ASSUME NEW from, NEW to, NEW t, NEW edge \in Edges, NEW p \in FreshPanes,
             DropTabOnEdge(from, to, t, edge, p)
      PROVE  \E next : RunsKeeping(next)
  <2> DEFINE next == MoveTabToEdge(ws, from, to, t, edge, p)
  <2>1. Run(next) /\ sequence' = sequence
    BY <1>5 DEF DropTabOnEdge
  <2>2. Sound(next) /\ Keeps(ws, next)
    BY <1>2, EdgeIsSound
  <2> HIDE DEF next
  <2> QED BY <1>1, <2>1, <2>2 DEF RunsKeeping, Runs
<1> QED BY <1>3, <1>4, <1>5 DEF Arrange

LEMMA CloseRuns ==
    ASSUME SpaceInv, Sound(ws), Close
    PROVE  \E next : Runs(next)
<1>1. PICK p, t : CloseRuntimeTab(p, t)
  BY DEF Close
<1> DEFINE next == CloseTab(ws, p, t)
<1>2. Holds(ws, p, t) /\ Run(next) /\ sequence' = sequence /\ sequence \in Nat
  BY <1>1 DEF CloseRuntimeTab, SpaceInv
<1>3. Sound(next)
  BY <1>2, CloseIsSound
<1> HIDE DEF next
<1> QED BY <1>2, <1>3 DEF Runs

LEMMA RunKeepsInv ==
    ASSUME SpaceInv, NEW next, Runs(next)
    PROVE  SpaceInv'
<1>1. PICK S : saves \in Seq(S) /\ \A save \in S : StoresSound(save)
  BY DEF SpaceInv
<1> DEFINE row == WorkspaceSave(next)
           U == S \cup {row}
<1>2. /\ ws' = next /\ saves' = Append(saves, row) /\ Sound(next) /\ sequence' \in Nat
      /\ origin' = origin /\ spaceRow' = spaceRow /\ loads' = loads
  BY DEF Runs, Run, Save
<1>3. StoresSound(row)
  BY <1>2 DEF StoresSound, WorkspaceSave
<1> HIDE DEF row
<1>4. saves' \in Seq(U) /\ \A save \in U : StoresSound(save)
  BY <1>1, <1>2, <1>3
<1> HIDE DEF U
<1> QED BY <1>2, <1>4 DEF SpaceInv

LEMMA SnapshotKeepsInv ==
    ASSUME SpaceInv, NEW t, SavesSnapshot(t)
    PROVE  SpaceInv'
<1>1. PICK S : saves \in Seq(S) /\ \A save \in S : StoresSound(save)
  BY DEF SpaceInv
<1> DEFINE row == SnapshotSave(t)
           U == S \cup {row}
<1>2. saves' = Append(saves, row) /\ UNCHANGED <<ws, origin, sequence, spaceRow, loads>>
  BY DEF SavesSnapshot
<1>3. StoresSound(row)
  BY DEF StoresSound, SnapshotSave
<1> HIDE DEF row
<1>4. saves' \in Seq(U) /\ \A save \in U : StoresSound(save)
  BY <1>1, <1>2, <1>3
<1> HIDE DEF U
<1> QED BY <1>2, <1>4 DEF SpaceInv

LEMMA LoadKeepsInv ==
    ASSUME SpaceInv, Load
    PROVE  SpaceInv'
<1>1. PICK available \in BOOLEAN :
        /\ ws' = StartWorkspace(available).ws /\ origin' = StartWorkspace(available).origin
        /\ sequence' = 0 /\ loads' = loads + 1
  BY DEF Load, StartSpace
<1>2. saves' = <<>> /\ spaceRow' = spaceRow
  BY DEF Load
<1>3. Sound(ws') /\ origin' # "Recovered"
  BY <1>1, StartIsSound DEF SpaceInv
<1>4. saves' \in Seq({}) /\ \A save \in {} : StoresSound(save)
  BY <1>2
<1> QED BY <1>1, <1>2, <1>3, <1>4 DEF SpaceInv

LEMMA SaveEndKeepsInv ==
    ASSUME SpaceInv, SaveEnds
    PROVE  SpaceInv'
<1>1. PICK S : saves \in Seq(S) /\ \A save \in S : StoresSound(save)
  BY DEF SpaceInv
<1>2. saves # <<>> /\ saves' = Tail(saves) /\ UNCHANGED <<ws, origin, sequence, loads>>
  BY DEF SaveEnds
<1>3. Head(saves) \in S /\ Tail(saves) \in Seq(S)
  BY <1>1, <1>2
<1>4. spaceRow' = NoRow \/ Sound(spaceRow'.value)
  <2>1. StoresSound(Head(saves))
    BY <1>1, <1>3
  <2> QED BY <2>1 DEF SaveEnds, PutWorkspace, PutTabState, StoresSound, SpaceInv
<1> QED BY <1>1, <1>2, <1>3, <1>4 DEF SpaceInv

LEMMA SpaceInductive ==
    SpaceInv /\ [SpaceNext]_spaceVars => SpaceInv'
<1> SUFFICES ASSUME SpaceInv, [SpaceNext]_spaceVars PROVE SpaceInv'
  OBVIOUS
<1>1. CASE Load
  BY <1>1, LoadKeepsInv
<1>2. CASE SaveEnds
  BY <1>2, SaveEndKeepsInv
<1>3. CASE Command /\ (Use \/ Arrange \/ Close)
  <2>1. Sound(ws)
    BY <1>3 DEF Command, SpaceInv
  <2>2. CASE Use
    BY <2>1, <2>2, UseRuns, RunKeepsInv, SnapshotKeepsInv DEF RunsKeeping
  <2>3. CASE Arrange
    BY <2>1, <2>3, ArrangeRuns, RunKeepsInv DEF RunsKeeping
  <2>4. CASE Close
    BY <2>1, <2>4, CloseRuns, RunKeepsInv
  <2> QED BY <1>3, <2>2, <2>3, <2>4
<1>4. CASE UNCHANGED spaceVars
  BY <1>4 DEF spaceVars, SpaceInv
<1> QED BY <1>1, <1>2, <1>3, <1>4 DEF SpaceNext

LEMMA SpaceStarts == SpaceInit => SpaceInv
<1> SUFFICES ASSUME SpaceInit PROVE SpaceInv
  OBVIOUS
<1>1. saves \in Seq({}) /\ \A save \in {} : StoresSound(save)
  BY DEF SpaceInit
<1> QED BY <1>1 DEF SpaceInit, SpaceInv

\* Every workspace a page shows is sound: its panes have names and groups of
\* their own, a group lists tabs that exist, each once and one of them active,
\* no tab is listed by none, and the focus is on a pane and a tab that are there.
\* Code: the reducers of commands.rs, move_tab.rs and recovery.rs together.
THEOREM WorkspacesStaySound == SpaceSpec => [](loads > 0 => Sound(ws))
<1>1. SpaceInv => (loads > 0 => Sound(ws))
  BY DEF SpaceInv
<1> QED BY <1>1, SpaceStarts, SpaceInductive, PTL DEF SpaceSpec

\* For every startup, every name and every bound: what a page stored comes back
\* as it was, and no start repairs it.
\* Code: start_workspace, ensure_usable_workspace.
THEOREM NoStoredRowIsRepaired == SpaceSpec => []StoredNeedsNoRepair
<1>1. SpaceInv => StoredNeedsNoRepair
  <2> SUFFICES ASSUME SpaceInv PROVE StoredNeedsNoRepair
    OBVIOUS
  <2> DEFINE old == spaceRow.value
  <2>1. origin # "Recovered" /\ (spaceRow # NoRow => Sound(old))
    BY DEF SpaceInv
  <2>2. Sound(old) => EnsureUsable(old) = old
    BY SoundIsKept
  <2> QED BY <2>1, <2>2 DEF StoredNeedsNoRepair
<1> QED BY <1>1, SpaceStarts, SpaceInductive, PTL DEF SpaceSpec

\* Opening, converting, focusing, splitting and moving lose no tab, and take no
\* pane that shows more than one.
\* Code: commands.rs, move_tab.rs.
THEOREM TabsGoByClosing == SpaceSpec => OnlyClosingLosesTabs
<1> DEFINE loses == /\ loads' = loads /\ ws' # ws
                    /\ \/ ~(DOMAIN ws.tabs \subseteq DOMAIN ws'.tabs)
                       \/ \E p \in PaneIds(ws.layout) \ PaneIds(ws'.layout) :
                            Len(PaneTabs(ws, p)) > 1
<1>1. SpaceInv /\ [SpaceNext]_spaceVars => [loses => Close]_spaceVars
  <2> SUFFICES ASSUME SpaceInv, SpaceNext, loses PROVE Close
    OBVIOUS
  <2>1. ~Load
    <3>1. Load => loads' = loads + 1
      BY DEF Load, StartSpace
    <3> QED BY <3>1 DEF SpaceInv
  <2>2. ~SaveEnds
    BY DEF SaveEnds
  <2>3. Command /\ (Use \/ Arrange \/ Close)
    BY <2>1, <2>2 DEF SpaceNext
  <2>4. Sound(ws)
    BY <2>3 DEF Command, SpaceInv
  <2>5. ASSUME NEW next, RunsKeeping(next) PROVE FALSE
    BY <2>5 DEF RunsKeeping, Runs, Run, Keeps
  <2>6. ASSUME NEW t, SavesSnapshot(t) PROVE FALSE
    BY <2>6 DEF SavesSnapshot
  <2> QED BY <2>3, <2>4, <2>5, <2>6, UseRuns, ArrangeRuns
<1> QED BY <1>1, SpaceStarts, SpaceInductive, PTL DEF SpaceSpec, OnlyClosingLosesTabs
=============================================================================
