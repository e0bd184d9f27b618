----------------------------- MODULE FeedProofs -----------------------------
(***************************************************************************)
(* The feeds of the Rust hosts.  The session of a tab (FeedSession), for   *)
(* every set of surfaces and of rows and any number of mounts and older    *)
(* pages: no relay read outlives the request it answers, and the owner of  *)
(* Home has one reader.  The pages of a search (LocalSearch), for every    *)
(* finite set of events, every query, page size and limits: they leave no  *)
(* gap.  The tab of a public chat (PublicChat), for every set of events    *)
(* and of relays: the newest metadata is shown, and what is hidden or      *)
(* muted stays so.  A load from the cache (FeedLoad), for every number of  *)
(* relays, any events, coverage rows, surfaces and spans: a feed that      *)
(* calls its cache complete, or its history empty, is right about it, and  *)
(* no failure of the store keeps it from asking the relays.                *)
(***************************************************************************)
EXTENDS FeedLoad, FeedSession, LocalSearch, PublicChat, FiniteSetTheorems, SequenceTheorems,
        WellFoundedInduction, TLAPS

\* A read that runs belongs to a lease that is held, and is the one its slot
\* would cancel: so a slot has one read at most, and cancels no other's.
RunsHeld ==
    /\ \A r \in DOMAIN reads : r[1] \in held /\ slot[SlotOf(r)] = r
    /\ \A s \in Slots : slot[s] # Vacant => SlotOf(slot[s]) = s

\* A lease that is held is that of a mount, or of the older page its loader
\* remembers: whoever lets the mount go lets all of its leases go.
HeldByMounts ==
    \A q \in held : q[1] \in mounted /\ (q[2] = 0 \/ q[2] = loader[q[1]])

MountsHold == \A m \in mounted : FirstRead(m) \in held

BaseOfMounted == base # NoBase => tab \in Keyed /\ mounted # {}

\* The model of the last mount is still to come.
Pending == <<FirstRead(opened), {}>> \in loading

\* What a read, a lost load and an older page rely on when they see that the
\* owner is still theirs.
OwnerInv ==
    tab = "home" =>
        /\ entry # NoEntry <=> opened \in mounted
        /\ entry # NoEntry => entry.generation = opened
        /\ \A r \in DOMAIN reads : entry # NoEntry /\ r[1][1] = opened /\ entry.busy
        /\ \A r \in DOMAIN reads : r[2] = "follow" => ~Older(r) /\ entry.input = NoBase
        /\ entry # NoEntry /\ Pending =>
             entry.busy /\ entry.input = NoBase /\ DOMAIN reads = {}
        /\ entry # NoEntry /\ entry.busy /\ entry.input # NoBase => DOMAIN reads # {}

IInv == SessionTypeOK /\ RunsHeld /\ HeldByMounts /\ MountsHold /\ BaseOfMounted /\ OwnerInv

-----------------------------------------------------------------------------
(* Reads and slots *)

ReadsTyped ==
    /\ DOMAIN reads \subseteq ReadIds /\ \A r \in DOMAIN reads : reads[r] \subseteq Rows
    /\ slot \in [Slots -> ReadIds \cup {Vacant}]

\* The reads that neither ended nor were in a slot that was cut or taken.
Spared(cut, ended, started) ==
    {r \in DOMAIN reads : /\ r \notin ended /\ SlotOf(r) \notin cut
                          /\ \A s \in DOMAIN started : SlotOf(s) # SlotOf(r)}

LEMMA ReadTypes ==
  ASSUME NEW r \in ReadIds
  PROVE  /\ r[1] \in Requests /\ r[1][1] \in Mounts /\ r[1][2] \in 0..MaxOlder
         /\ r[2] \in Parts /\ r = <<r[1], r[2]>> /\ r # Vacant
         /\ SlotOf(r) \in Slots /\ SlotOf(r) \in SlotsOf(r[1])
<1>1. /\ r[1] \in Requests /\ r[1][1] \in Mounts /\ r[1][2] \in 0..MaxOlder
      /\ r[2] \in Parts /\ r = <<r[1], r[2]>>
  BY DEF ReadIds, Requests
<1>2. r # Vacant
  BY <1>1 DEF Vacant
<1>3. SlotOf(r) \in SlotsOf(r[1])
  BY <1>1 DEF SlotsOf
<1>4. FirstRead(r[1][1]) \in Requests
  BY <1>1, SessionAssumption DEF FirstRead, Requests
<1>5. SlotOf(r) \in Slots
  BY <1>1, <1>4 DEF SlotOf, Slots
<1> QED BY <1>1, <1>2, <1>3, <1>5

LEMMA OnlyIs ==
  ASSUME NEW running, NEW rows
  PROVE  /\ DOMAIN Only(running, rows) = {running} /\ Only(running, rows)[running] = rows
         /\ DOMAIN NoReads = {}
BY DEF Only, NoReads

\* After ReadsAfter, a slot still has its read; the reads are those started
\* and those spared.
LEMMA ReadsMove ==
  ASSUME SessionTypeOK, RunsHeld, NEW cut \in SUBSET Slots, NEW ended \in SUBSET ReadIds, NEW started,
         ReadsAfter(cut, ended, started), tab' = tab,
         DOMAIN started \subseteq ReadIds,
         \A r \in DOMAIN started : started[r] \subseteq Rows /\ r[1] \in held',
         \A r, s \in DOMAIN started : SlotOf(r) = SlotOf(s) => r = s,
         \A r \in DOMAIN reads :
             r[1] \in held' \/ r \in ended \/ SlotOf(r) \in cut
  PROVE  /\ ReadsTyped' /\ RunsHeld'
         /\ DOMAIN reads' = DOMAIN started \cup Spared(cut, ended, started)
<1> DEFINE goals == {SlotOf(r) : r \in DOMAIN started}
           gone  == ended \cup {slot[s] : s \in cut \cup goals}
           kept  == DOMAIN reads \ gone
<1>1. /\ reads' = With(started, kept)
      /\ slot' = [s \in Slots |->
                    IF s \in goals
                    THEN CHOOSE r \in DOMAIN started : SlotOf(r) = s
                    ELSE IF slot[s] \in gone THEN Vacant ELSE slot[s]]
  BY DEF ReadsAfter
<1>2. /\ DOMAIN reads' = DOMAIN started \cup kept
      /\ \A r \in DOMAIN started : reads'[r] = started[r]
      /\ \A r \in kept \ DOMAIN started : reads'[r] = reads[r]
  BY <1>1 DEF With
<1>3. \A r \in kept : r \in DOMAIN reads /\ r \notin ended /\ SlotOf(r) \notin cut
                      /\ SlotOf(r) \notin goals /\ slot[SlotOf(r)] = r
  BY DEF RunsHeld
<1>4. \A r : SlotOf(r)' = SlotOf(r)
  BY DEF SlotOf
<1>5. \A r \in DOMAIN reads : r \in ReadIds /\ reads[r] \subseteq Rows
  BY DEF SessionTypeOK
<1>13. ASSUME NEW r \in DOMAIN reads, r \notin ended, SlotOf(r) \notin cut, SlotOf(r) \notin goals
       PROVE  r \in kept
  <2>1. SUFFICES ASSUME NEW s \in cut \cup goals, slot[s] = r PROVE FALSE
    BY <1>13
  <2>2. s \in Slots
    BY ReadTypes
  <2>3. r # Vacant
    BY <1>5, ReadTypes
  <2>4. SlotOf(r) = s
    BY <2>1, <2>2, <2>3 DEF RunsHeld
  <2> QED BY <1>13, <2>4
<1>6. \A r \in DOMAIN started : slot'[SlotOf(r)] = r
  <2> SUFFICES ASSUME NEW r \in DOMAIN started PROVE slot'[SlotOf(r)] = r
    OBVIOUS
  <2>1. SlotOf(r) \in Slots /\ SlotOf(r) \in goals
    BY ReadTypes
  <2>2. slot'[SlotOf(r)] = CHOOSE s \in DOMAIN started : SlotOf(s) = SlotOf(r)
    BY <1>1, <2>1
  <2> DEFINE c == CHOOSE s \in DOMAIN started : SlotOf(s) = SlotOf(r)
  <2>3. c \in DOMAIN started /\ SlotOf(c) = SlotOf(r)
    OBVIOUS
  <2> HIDE DEF c
  <2>4. c = r
    BY <2>3
  <2> QED BY <2>2, <2>4 DEF c
<1>7. \A r \in kept : slot'[SlotOf(r)] = r
  <2> SUFFICES ASSUME NEW r \in kept PROVE slot'[SlotOf(r)] = r
    OBVIOUS
  <2>1. SlotOf(r) \in Slots
    BY <1>3, <1>5, ReadTypes
  <2>2. slot[SlotOf(r)] = r /\ r \notin gone /\ SlotOf(r) \notin goals
    BY <1>3
  <2> QED BY <1>1, <2>1, <2>2
<1>8. \A r \in kept : r[1] \in held'
  BY <1>3
<1> HIDE DEF kept
<1>9. RunsHeld'
  <2>1. \A r \in DOMAIN reads' : r[1] \in held' /\ slot'[SlotOf(r)'] = r
    BY <1>2, <1>4, <1>6, <1>7, <1>8
  <2>2. ASSUME NEW s \in Slots, slot'[s] # Vacant PROVE SlotOf(slot'[s]) = s
    <3>1. CASE s \in goals
      <4>1. PICK r \in DOMAIN started : s = SlotOf(r)
        BY <3>1
      <4> QED BY <1>6, <4>1
    <3>2. CASE s \notin goals
      <4>1. slot'[s] = slot[s] /\ slot[s] # Vacant
        BY <1>1, <2>2, <3>2
      <4> QED BY <4>1 DEF RunsHeld
    <3> QED BY <3>1, <3>2
  <2>3. Slots' = Slots
    BY DEF Slots, Requests, Mounts
  <2> QED BY <1>4, <2>1, <2>2, <2>3 DEF RunsHeld, Vacant
<1>10. slot' \in [Slots -> ReadIds \cup {Vacant}]
  <2> SUFFICES ASSUME NEW s \in Slots PROVE slot'[s] \in ReadIds \cup {Vacant}
    BY <1>1
  <2>1. CASE s \in goals
    <3>1. PICK r \in DOMAIN started : s = SlotOf(r)
      BY <2>1
    <3> QED BY <1>6, <3>1
  <2>2. CASE s \notin goals
    <3>1. slot'[s] = IF slot[s] \in gone THEN Vacant ELSE slot[s]
      BY <1>1, <2>2
    <3>2. slot[s] \in ReadIds \cup {Vacant}
      BY DEF SessionTypeOK
    <3> HIDE DEF gone
    <3> QED BY <3>1, <3>2
  <2> QED BY <2>1, <2>2
<1>11. ReadsTyped'
  <2>1. ReadIds' = ReadIds /\ Slots' = Slots
    BY DEF ReadIds, Slots, Requests, Mounts, Parts
  <2> QED BY <1>2, <1>3, <1>5, <1>10, <2>1 DEF ReadsTyped
<1>12. \A r \in kept : \A s \in DOMAIN started : SlotOf(s) # SlotOf(r)
  BY <1>3
<1>14. \A r \in Spared(cut, ended, started) : r \in kept
  BY <1>13 DEF Spared
<1>15. kept \subseteq Spared(cut, ended, started)
  BY <1>3, <1>12 DEF Spared
<1> QED BY <1>2, <1>9, <1>11, <1>14, <1>15

\* A read that gives a window goes on with it, or is gone.
LEMMA WindowGiven ==
  ASSUME SessionTypeOK, RunsHeld, NEW running \in DOMAIN reads, NEW rows \in SUBSET Rows,
         NEW finished \in BOOLEAN, GoesOn(running, rows, finished), tab' = tab,
         \A r \in DOMAIN reads : r[1] \in held' \/ (finished /\ r = running)
  PROVE  /\ ReadsTyped' /\ RunsHeld'
         /\ finished => DOMAIN reads' = DOMAIN reads \ {running}
         /\ ~finished => DOMAIN reads' = DOMAIN reads
<1>1. running \in ReadIds
  BY DEF SessionTypeOK
<1>2. CASE finished
  <2>1. ReadsAfter({}, {running}, NoReads)
    BY <1>2 DEF GoesOn
  <2>2. DOMAIN NoReads = {}
    BY OnlyIs
  <2>3. \A r \in DOMAIN reads : r[1] \in held' \/ r \in {running}
    OBVIOUS
  <2>4. /\ ReadsTyped' /\ RunsHeld'
        /\ DOMAIN reads' = {r \in DOMAIN reads : r \notin {running}}
    <3>1. /\ {running} \in SUBSET ReadIds /\ DOMAIN NoReads \subseteq ReadIds
          /\ \A r \in DOMAIN NoReads : NoReads[r] \subseteq Rows /\ r[1] \in held'
          /\ \A r, s \in DOMAIN NoReads : SlotOf(r) = SlotOf(s) => r = s
      BY <1>1, <2>2
    <3> DEFINE ended == {running}
               none  == {}
    <3>2. \A r \in DOMAIN reads :
            r[1] \in held' \/ r \in ended \/ SlotOf(r) \in none
      BY <2>3
    <3>3. /\ ReadsAfter(none, ended, NoReads) /\ ended \in SUBSET ReadIds
          /\ none \in SUBSET Slots
      BY <2>1, <3>1
    <3> HIDE DEF ended, none
    <3>4. /\ ReadsTyped' /\ RunsHeld'
          /\ DOMAIN reads' = DOMAIN NoReads \cup Spared(none, ended, NoReads)
      BY <3>1, <3>2, <3>3, ReadsMove
    <3> QED BY <2>2, <3>4 DEF ended, none, Spared
  <2> QED BY <1>2, <2>4
<1>3. CASE ~finished
  <2>1. reads' = [reads EXCEPT ![running] = rows] /\ slot' = slot
    BY <1>3 DEF GoesOn
  <2>2. /\ DOMAIN reads' = DOMAIN reads
        /\ \A r \in DOMAIN reads : reads'[r] = IF r = running THEN rows ELSE reads[r]
    BY <2>1 DEF SessionTypeOK
  <2>3. \A r : SlotOf(r)' = SlotOf(r)
    BY DEF SlotOf
  <2>4. RunsHeld'
    BY <1>3, <2>1, <2>2, <2>3 DEF RunsHeld, Slots, Requests, Mounts, Vacant
  <2>5. ReadIds' = ReadIds /\ Slots' = Slots
    BY DEF ReadIds, Slots, Requests, Mounts, Parts
  <2>6. ReadsTyped'
    BY <2>1, <2>2, <2>5 DEF ReadsTyped, SessionTypeOK
  <2> QED BY <1>3, <2>2, <2>4, <2>6
<1> QED BY <1>2, <1>3

LEMMA WindowsAreRows ==
  ASSUME SessionTypeOK, NEW running \in DOMAIN reads, NEW rows \in NextWindows(running)
  PROVE  rows \in SUBSET Rows
BY DEF SessionTypeOK, NextWindows

\* A read started beside the ones that run.
LEMMA Started ==
  ASSUME SessionTypeOK, RunsHeld, NEW running \in ReadIds, NEW rows \in SUBSET Rows,
         NEW ended \in SUBSET ReadIds, ReadsAfter({}, ended, Only(running, rows)),
         tab' = tab, running[1] \in held',
         \A r \in DOMAIN reads : r[1] \in held'
  PROVE  /\ ReadsTyped' /\ RunsHeld'
         /\ DOMAIN reads' =
              {running} \cup {r \in DOMAIN reads :
                             r \notin ended /\ SlotOf(r) # SlotOf(running)}
<1> DEFINE started == Only(running, rows)
<1>1. DOMAIN started = {running} /\ started[running] = rows
  BY OnlyIs
<1> HIDE DEF started
<1> DEFINE none == {}
<1>2. ReadsAfter(none, ended, started) /\ none \in SUBSET Slots
  BY DEF started
<1> HIDE DEF none
<1>3. /\ DOMAIN started \subseteq ReadIds
      /\ \A r \in DOMAIN started : started[r] \subseteq Rows /\ r[1] \in held'
      /\ \A r, s \in DOMAIN started : SlotOf(r) = SlotOf(s) => r = s
  BY <1>1
<1>4. /\ ReadsTyped' /\ RunsHeld'
      /\ DOMAIN reads' = DOMAIN started \cup Spared(none, ended, started)
  BY <1>2, <1>3, ReadsMove
<1> QED BY <1>1, <1>4 DEF none, Spared

\* What is released is cut.
LEMMA LetGoCuts ==
  ASSUME SessionTypeOK, RunsHeld, NEW requests \in SUBSET Requests, NEW started,
         LetGo(requests, started), tab' = tab, DOMAIN started \subseteq ReadIds,
         \A r \in DOMAIN started : started[r] \subseteq Rows /\ r[1] \in held',
         \A r, s \in DOMAIN started : SlotOf(r) = SlotOf(s) => r = s,
         \A r \in DOMAIN reads : r[1] \in held' \/ r[1] \in requests
  PROVE  /\ ReadsTyped' /\ RunsHeld'
         /\ DOMAIN reads' = DOMAIN started \cup Spared(SlotsOfAll(requests), {}, started)
<1> DEFINE cut  == SlotsOfAll(requests)
           none == {}
<1>1. /\ ReadsAfter(cut, none, started) /\ none \in SUBSET ReadIds
  BY DEF LetGo
<1>2. \A q \in Requests, p \in Parts : <<q, p>> \in ReadIds
  BY DEF ReadIds
<1>3. cut \in SUBSET Slots
  <2> SUFFICES ASSUME NEW s \in cut PROVE s \in Slots
    OBVIOUS
  <2>1. PICK q \in requests : s \in SlotsOf(q)
    BY DEF SlotsOfAll
  <2>2. PICK p \in Parts : s = SlotOf(<<q, p>>)
    BY <2>1 DEF SlotsOf
  <2> QED BY <1>2, <2>2, ReadTypes
<1>4. ASSUME NEW r \in DOMAIN reads, r[1] \in requests
      PROVE  SlotOf(r) \in cut
  <2>1. SlotOf(r) \in SlotsOf(r[1])
    BY ReadTypes DEF SessionTypeOK
  <2> QED BY <1>4, <2>1 DEF SlotsOfAll
<1> HIDE DEF cut, none
<1>5. \A r \in DOMAIN reads : r[1] \in held' \/ r \in none \/ SlotOf(r) \in cut
  BY <1>4
<1>6. /\ ReadsTyped' /\ RunsHeld'
      /\ DOMAIN reads' = DOMAIN started \cup Spared(cut, none, started)
  BY <1>1, <1>3, <1>5, ReadsMove
<1> QED BY <1>6 DEF cut, none

\* The reads of Home are in one slot: there is one at most.
LEMMA HomeHasOneRead ==
  ASSUME IInv, tab = "home"
  PROVE  /\ \A r, s \in DOMAIN reads : r = s
         /\ \A r \in DOMAIN reads : SlotOf(r) = <<FirstRead(opened), "feed">>
<1>1. \A r \in DOMAIN reads : SlotOf(r) = <<FirstRead(opened), "feed">>
  BY DEF IInv, OwnerInv, SlotOf
<1>2. \A r \in DOMAIN reads : r = slot[<<FirstRead(opened), "feed">>]
  BY <1>1 DEF IInv, RunsHeld
<1> QED BY <1>1, <1>2

\* Slots are cut and nothing starts.
LEMMA Cut ==
  ASSUME SessionTypeOK, RunsHeld, NEW cut \in SUBSET Slots,
         ReadsAfter(cut, {}, NoReads), tab' = tab,
         \A r \in DOMAIN reads : r[1] \in held' \/ SlotOf(r) \in cut
  PROVE  /\ ReadsTyped' /\ RunsHeld'
         /\ DOMAIN reads' = {r \in DOMAIN reads : SlotOf(r) \notin cut}
<1> DEFINE none == {}
<1>1. /\ none \in SUBSET ReadIds /\ DOMAIN NoReads \subseteq ReadIds
      /\ \A r \in DOMAIN NoReads : NoReads[r] \subseteq Rows /\ r[1] \in held'
      /\ \A r, s \in DOMAIN NoReads : SlotOf(r) = SlotOf(s) => r = s
      /\ DOMAIN NoReads = {}
  BY OnlyIs
<1>2. \A r \in DOMAIN reads : r[1] \in held' \/ r \in none \/ SlotOf(r) \in cut
  OBVIOUS
<1>3. ReadsAfter(cut, none, NoReads)
  OBVIOUS
<1> HIDE DEF none
<1>4. /\ ReadsTyped' /\ RunsHeld'
      /\ DOMAIN reads' = DOMAIN NoReads \cup Spared(cut, none, NoReads)
  BY <1>1, <1>2, <1>3, ReadsMove
<1> QED BY <1>1, <1>4 DEF none, Spared

-----------------------------------------------------------------------------
(* Mounts *)

LEMMA OlderIs ==
  ASSUME NEW m
  PROVE  /\ loader[m] = 0 => OlderOf(m) = {}
         /\ loader[m] # 0 => OlderOf(m) = {<<m, loader[m]>>}
         /\ \A k : FirstRead(k) \notin OlderOf(m)
         /\ \A q \in OlderOf(m) : q[1] = m /\ q[2] = loader[m]
BY DEF OlderOf, FirstRead

\* A mount of Home takes the owner over with its slot empty.
LEMMA HomeMountStep ==
  ASSUME IInv, HomeMount
  PROVE  IInv'
<1> DEFINE n      == opened + 1
           closed == IF entry = NoEntry THEN {} ELSE OlderOf(entry.generation)
           cut    == IF entry = NoEntry THEN {}
                     ELSE {<<FirstRead(entry.generation), "feed">>}
<1>1. /\ tab = "home" /\ tab' = tab /\ opened < MaxMounts /\ opened' = n
      /\ mounted' = mounted \cup {n} /\ loading' = loading \cup {<<FirstRead(n), {}>>}
      /\ UNCHANGED <<base, clicks, shown>>
      /\ entry' = [generation |-> n, input |-> NoBase, busy |-> TRUE]
      /\ held' = (held \ closed) \cup {FirstRead(n)}
      /\ ReadsAfter(cut, {}, NoReads)
      /\ loader' = [m \in Mounts |-> IF OlderOf(m) \subseteq closed THEN 0 ELSE loader[m]]
  BY DEF HomeMount, Opening
<1>2. /\ n \in Mounts /\ n \notin mounted /\ opened \in Nat /\ n \in 0..MaxMounts
      /\ FirstRead(n) \in Requests /\ mounted' \subseteq 1..n
  BY <1>1, SessionAssumption DEF IInv, SessionTypeOK, Mounts, Requests, FirstRead
<1>3. \A r \in DOMAIN reads : SlotOf(r) \in cut
  <2>1. \A r \in DOMAIN reads : entry # NoEntry /\ entry.generation = opened
    BY <1>1 DEF IInv, OwnerInv
  <2> QED BY <1>1, <2>1, HomeHasOneRead
<1>4. \A k : FirstRead(k) \notin closed
  BY OlderIs
<1>11. cut \in SUBSET Slots
  BY SessionAssumption DEF IInv, SessionTypeOK, Entries, Slots, Requests, FirstRead
<1> HIDE DEF cut
<1>5. ReadsTyped' /\ RunsHeld' /\ DOMAIN reads' = {}
  BY <1>1, <1>3, <1>11, Cut DEF IInv
<1> HIDE DEF n
<1>6. HeldByMounts'
  <2> SUFFICES ASSUME NEW q \in held'
               PROVE  q[1] \in mounted' /\ (q[2] = 0 \/ q[2] = loader'[q[1]])
    BY DEF HeldByMounts
  <2>1. CASE q = FirstRead(n)
    BY <1>1, <2>1 DEF FirstRead
  <2>2. CASE q \in held /\ q \notin closed
    <3>1. /\ q[1] \in mounted /\ (q[2] = 0 \/ q[2] = loader[q[1]])
          /\ q = <<q[1], q[2]>> /\ q[1] \in Mounts
      BY <2>2 DEF IInv, HeldByMounts, SessionTypeOK, Requests
    <3>2. CASE q[2] = 0
      BY <1>1, <3>1, <3>2
    <3>3. CASE q[2] # 0
      <4>1. OlderOf(q[1]) = {q}
        BY <3>1, <3>3, OlderIs
      <4>2. loader'[q[1]] = loader[q[1]]
        BY <1>1, <2>2, <3>1, <4>1
      <4> QED BY <1>1, <3>1, <4>2
    <3> QED BY <3>2, <3>3
  <2> QED BY <1>1, <2>1, <2>2
<1>7. MountsHold'
  BY <1>1, <1>4 DEF IInv, MountsHold
<1>8. SessionTypeOK'
  <2>1. loader' \in [Mounts -> 0..MaxOlder]
    BY <1>1, SessionAssumption DEF IInv, SessionTypeOK
  <2>2. entry' \in Entries
    <3>1. NoBase \in (SUBSET Rows) \cup {NoBase}
      OBVIOUS
    <3> QED BY <1>1, <1>2, <3>1 DEF Entries
  <2>3. held' \subseteq Requests /\ loading' \subseteq Requests \X SUBSET Rows
    BY <1>1, <1>2 DEF IInv, SessionTypeOK
  <2> QED BY <1>1, <1>2, <1>5, <2>1, <2>2, <2>3
          DEF IInv, SessionTypeOK, ReadsTyped, Entries, Mounts, Requests, ReadIds, Slots, Parts
<1>9. BaseOfMounted'
  BY <1>1 DEF IInv, BaseOfMounted, Keyed
<1>10. OwnerInv'
  <2>1. entry' # NoEntry /\ entry'.generation = n /\ entry'.busy /\ entry'.input = NoBase
    BY <1>1, <1>2 DEF NoEntry, Mounts
  <2> QED BY <1>1, <1>5, <2>1 DEF OwnerInv, NoEntry, NoBase
<1> QED BY <1>5, <1>6, <1>7, <1>8, <1>9, <1>10 DEF IInv

LEMMA MountStep ==
  ASSUME IInv, Mount
  PROVE  IInv'
<1> DEFINE n == opened + 1
<1>1. /\ tab # "home" /\ tab' = tab /\ opened < MaxMounts /\ opened' = n
      /\ mounted' = mounted \cup {n} /\ loading' = loading \cup {<<FirstRead(n), {}>>}
      /\ held' = held \cup {FirstRead(n)}
      /\ UNCHANGED <<base, clicks, shown, reads, slot, entry, loader>>
  BY DEF Mount, Opening
<1>2. /\ n \in Mounts /\ n \in 0..MaxMounts /\ FirstRead(n) \in Requests
      /\ mounted' \subseteq 1..n
  BY <1>1, SessionAssumption DEF IInv, SessionTypeOK, Mounts, Requests, FirstRead
<1> HIDE DEF n
<1>3. SessionTypeOK'
  <2>1. held' \subseteq Requests /\ loading' \subseteq Requests \X SUBSET Rows
    BY <1>1, <1>2 DEF IInv, SessionTypeOK
  <2> QED BY <1>1, <1>2, <2>1
          DEF IInv, SessionTypeOK, Entries, Mounts, Requests, ReadIds, Slots, Parts
<1>4. RunsHeld'
  BY <1>1 DEF IInv, RunsHeld, SlotOf, Slots, Requests, Mounts, Vacant
<1>5. HeldByMounts' /\ MountsHold'
  BY <1>1 DEF IInv, HeldByMounts, MountsHold, FirstRead
<1>6. BaseOfMounted' /\ OwnerInv'
  BY <1>1 DEF IInv, BaseOfMounted, OwnerInv
<1> QED BY <1>3, <1>4, <1>5, <1>6 DEF IInv

\* Whoever closes the view releases its leases; an owner of Home that another
\* mount has taken over stays.
LEMMA UnmountStep ==
  ASSUME IInv, NEW m \in Mounts, Unmount(m)
  PROVE  IInv'
<1> DEFINE gone == OlderOf(m) \cup {FirstRead(m)}
<1>1. /\ m \in mounted /\ mounted' = mounted \ {m} /\ held' = held \ gone
      /\ LetGo(gone, NoReads) /\ loader' = [loader EXCEPT ![m] = 0]
      /\ entry' = HomeAfterForget(m)
      /\ base' = IF tab \in Keyed THEN NoBase ELSE base
      /\ shown' = [shown EXCEPT ![m] = {}]
      /\ UNCHANGED <<tab, opened, loading, clicks>>
  BY DEF Unmount, Show
<1>2. gone \in SUBSET Requests /\ FirstRead(m) \in gone
  <2>1. FirstRead(m) \in Requests
    BY SessionAssumption DEF Requests, FirstRead
  <2>2. loader[m] \in 0..MaxOlder
    BY DEF IInv, SessionTypeOK
  <2> QED BY <2>1, <2>2 DEF OlderOf, Requests
<1>3. \A q \in held' : q[1] # m
  <2> SUFFICES ASSUME NEW q \in held, q[1] = m PROVE q \in gone
    BY <1>1
  <2>1. q = <<m, q[2]>> /\ (q[2] = 0 \/ q[2] = loader[m])
    BY DEF IInv, HeldByMounts, SessionTypeOK, Requests
  <2> QED BY <2>1 DEF FirstRead, OlderOf
<1>4. \A q \in gone : q[1] = m
  BY DEF FirstRead, OlderOf
<1>5. /\ ReadsTyped' /\ RunsHeld'
      /\ DOMAIN reads' = {r \in DOMAIN reads : SlotOf(r) \notin SlotsOfAll(gone)}
  <2>1. \A r \in DOMAIN reads : r[1] \in held' \/ r[1] \in gone
    BY <1>1 DEF IInv, RunsHeld
  <2>2. DOMAIN NoReads = {}
    BY OnlyIs
  <2>3. /\ DOMAIN NoReads \subseteq ReadIds
        /\ \A r \in DOMAIN NoReads : NoReads[r] \subseteq Rows /\ r[1] \in held'
        /\ \A r, s \in DOMAIN NoReads : SlotOf(r) = SlotOf(s) => r = s
    BY <2>2
  <2> HIDE DEF gone
  <2>4. /\ ReadsTyped' /\ RunsHeld'
        /\ DOMAIN reads' = DOMAIN NoReads \cup Spared(SlotsOfAll(gone), {}, NoReads)
    BY <1>1, <1>2, <2>1, <2>3, LetGoCuts DEF IInv
  <2> QED BY <2>2, <2>4 DEF Spared
<1> HIDE DEF gone
<1>6. SessionTypeOK'
  <2>1. entry' \in Entries \cup {NoEntry}
    BY <1>1 DEF HomeAfterForget, IInv, SessionTypeOK
  <2>2. loader' \in [Mounts -> 0..MaxOlder] /\ shown' \in [Mounts -> SUBSET Rows]
    BY <1>1, SessionAssumption DEF IInv, SessionTypeOK
  <2>3. base' \in (SUBSET Rows) \cup {NoBase}
    BY <1>1 DEF IInv, SessionTypeOK
  <2> QED BY <1>1, <1>5, <2>1, <2>2, <2>3
          DEF IInv, SessionTypeOK, ReadsTyped, Entries, Mounts, Requests, ReadIds, Slots, Parts
<1>7. HeldByMounts'
  <2> SUFFICES ASSUME NEW q \in held'
               PROVE  q[1] \in mounted' /\ (q[2] = 0 \/ q[2] = loader'[q[1]])
    BY DEF HeldByMounts
  <2>1. q \in held /\ q[1] # m /\ q[1] \in Mounts
    BY <1>1, <1>3 DEF IInv, SessionTypeOK, Requests
  <2> QED BY <1>1, <2>1 DEF IInv, HeldByMounts, SessionTypeOK
<1>8. MountsHold'
  BY <1>1, <1>4 DEF IInv, MountsHold, FirstRead
<1>9. BaseOfMounted'
  BY <1>1 DEF IInv, BaseOfMounted
<1>10. OwnerInv'
  <2> SUFFICES ASSUME tab = "home" PROVE OwnerInv'
    BY <1>1 DEF OwnerInv
  <2>1. CASE entry = NoEntry
    <3>1. entry' = NoEntry /\ DOMAIN reads = {} /\ opened \notin mounted'
      BY <1>1, <2>1 DEF HomeAfterForget, IInv, OwnerInv
    <3>2. DOMAIN reads' = {}
      BY <1>5, <3>1
    <3> QED BY <1>1, <3>1, <3>2 DEF OwnerInv, NoEntry
  <2>2. CASE entry # NoEntry /\ m = opened
    <3>1. entry' = NoEntry /\ opened \notin mounted'
      BY <1>1, <2>2 DEF HomeAfterForget, IInv, OwnerInv
    <3>2. \A r \in DOMAIN reads : SlotOf(r) \in SlotsOfAll(gone)
      <4>1. \A r \in DOMAIN reads : SlotOf(r) = <<FirstRead(m), "feed">>
        BY <2>2, HomeHasOneRead
      <4>2. <<FirstRead(m), "feed">> \in SlotsOf(FirstRead(m))
        BY DEF SlotsOf, SlotOf, FirstRead, Parts
      <4>3. SlotsOf(FirstRead(m)) \subseteq SlotsOfAll(gone)
        BY <1>2 DEF SlotsOfAll
      <4> QED BY <4>1, <4>2, <4>3
    <3>3. DOMAIN reads' = {}
      BY <1>5, <3>2
    <3> QED BY <1>1, <3>1, <3>3 DEF OwnerInv, NoEntry
  <2>3. CASE entry # NoEntry /\ m # opened
    <3>1. entry' = entry /\ (opened \in mounted' <=> opened \in mounted)
      BY <1>1, <2>3 DEF HomeAfterForget, IInv, OwnerInv
    <3>2. \A r \in DOMAIN reads : SlotOf(r) \notin SlotsOfAll(gone)
      <4>1. \A r \in DOMAIN reads : SlotOf(r) = <<FirstRead(opened), "feed">>
        BY HomeHasOneRead
      <4>2. \A x \in SlotsOfAll(gone) : x = <<FirstRead(m), "feed">>
        BY <1>4 DEF SlotsOfAll, SlotsOf, SlotOf
      <4>3. <<FirstRead(m), "feed">> # <<FirstRead(opened), "feed">>
        BY <2>3 DEF FirstRead
      <4> QED BY <4>1, <4>2, <4>3
    <3>3. DOMAIN reads' = DOMAIN reads
      BY <1>5, <3>2
    <3> QED BY <1>1, <3>1, <3>3 DEF IInv, OwnerInv, Pending
  <2> QED BY <2>1, <2>2, <2>3
<1> QED BY <1>5, <1>6, <1>7, <1>8, <1>9, <1>10 DEF IInv

-----------------------------------------------------------------------------
(* Model loads *)

LEMMA StartIs ==
  ASSUME SessionTypeOK, RunsHeld, NEW running \in ReadIds, NEW rows \in SUBSET Rows,
         Start(running, rows), tab' = tab, running[1] \in held',
         \A r \in DOMAIN reads : r[1] \in held'
  PROVE  /\ ReadsTyped' /\ RunsHeld'
         /\ DOMAIN reads' =
              {running} \cup {r \in DOMAIN reads : SlotOf(r) # SlotOf(running)}
<1>1. SlotsOfAll({}) = {}
  BY DEF SlotsOfAll
<1> DEFINE none == {}
<1>2. ReadsAfter({}, none, Only(running, rows)) /\ none \in SUBSET ReadIds
  BY <1>1 DEF Start, LetGo
<1> DEFINE others == {r \in DOMAIN reads : r \notin none /\ SlotOf(r) # SlotOf(running)}
<1>3. others = {r \in DOMAIN reads : SlotOf(r) # SlotOf(running)}
  OBVIOUS
<1> HIDE DEF none
<1>4. ReadsTyped' /\ RunsHeld' /\ DOMAIN reads' = {running} \cup others
  BY <1>2, Started
<1> QED BY <1>3, <1>4

\* The request of a mount is held while it is in the page.
LEMMA HeldIsMounted ==
  ASSUME IInv, NEW q, Held(q)
  PROVE  /\ q[1] \in mounted /\ q[1] \in Mounts /\ mounted # {} /\ q \in Requests
         /\ q[2] # 0 => q[2] = loader[q[1]]
BY DEF IInv, HeldByMounts, Held, SessionTypeOK, Requests

\* A step of a surface other than Home in which no lease changes hands.
LEMMA OthersKeep ==
  ASSUME IInv, tab # "home", UNCHANGED <<tab, opened, mounted, held, loader, clicks, entry>>,
         ReadsTyped', RunsHeld', loading' \subseteq Requests \X SUBSET Rows,
         shown' \in [Mounts -> SUBSET Rows],
         base' = base \/ (base' \in (SUBSET Rows) \cup {NoBase} /\ tab \in Keyed /\ mounted # {})
  PROVE  IInv'
<1>1. SessionTypeOK'
  BY DEF IInv, SessionTypeOK, ReadsTyped, Entries, Mounts, Requests, ReadIds, Slots, Parts
<1>2. HeldByMounts' /\ MountsHold'
  BY DEF IInv, HeldByMounts, MountsHold
<1>3. BaseOfMounted' /\ OwnerInv'
  BY DEF IInv, BaseOfMounted, OwnerInv
<1> QED BY <1>1, <1>2, <1>3 DEF IInv

LEMMA ShowTypes ==
  ASSUME SessionTypeOK, NEW m \in Mounts, NEW rows \in SUBSET Rows, Show(m, rows)
  PROVE  shown' \in [Mounts -> SUBSET Rows]
BY DEF SessionTypeOK, Show

\* Nothing of the reads changes.
LEMMA ReadsStay ==
  ASSUME SessionTypeOK, RunsHeld, UNCHANGED <<reads, slot, tab>>,
         \A r \in DOMAIN reads : r[1] \in held'
  PROVE  ReadsTyped' /\ RunsHeld'
BY DEF SessionTypeOK, RunsHeld, ReadsTyped, SlotOf, Slots, Requests, Mounts, Vacant, ReadIds, Parts

LEMMA LoadTypes ==
  ASSUME SessionTypeOK, NEW m, LoadEnds(m)
  PROVE  /\ loading' \subseteq Requests \X SUBSET Rows
         /\ UNCHANGED <<tab, opened, mounted, held, loader, clicks>>
         /\ <<FirstRead(m), {}>> \in loading /\ loading' = loading \ {<<FirstRead(m), {}>>}
BY DEF SessionTypeOK, LoadEnds

LEMMA KeyedModelLoadedStep ==
  ASSUME IInv, NEW m \in Mounts, tab \in Keyed, KeyedModelLoaded(m)
  PROVE  IInv'
<1>1. /\ loading' \subseteq Requests \X SUBSET Rows
      /\ UNCHANGED <<tab, opened, mounted, held, loader, clicks>>
  BY LoadTypes DEF KeyedModelLoaded, IInv
<1>2. tab # "home" /\ SessionTypeOK /\ RunsHeld /\ (\A r \in DOMAIN reads : r[1] \in held')
  BY <1>1 DEF Keyed, IInv, RunsHeld
<1>3. ASSUME Abandon PROVE IInv'
  <2>1. shown' = shown /\ base' = base /\ entry' = entry /\ UNCHANGED <<reads, slot>>
    BY <1>3 DEF Abandon, NothingStarts
  <2>2. ReadsTyped' /\ RunsHeld'
    BY <1>1, <1>2, <2>1, ReadsStay
  <2>3. shown' \in [Mounts -> SUBSET Rows]
    BY <2>1, <1>2 DEF SessionTypeOK
  <2> QED BY <1>1, <1>2, <2>1, <2>2, <2>3, OthersKeep
<1>4. ASSUME ~Abandon PROVE IInv'
  <2>1. Held(FirstRead(m))
    BY <1>4 DEF KeyedModelLoaded
  <2>2. PICK cached \in SUBSET Rows, relay \in {"none", "base", "read"} :
          /\ base' = IF relay = "none" THEN NoBase ELSE cached
          /\ Show(m, cached)
          /\ IF relay = "read" THEN Start(<<FirstRead(m), "feed">>, cached)
             ELSE NothingStarts
          /\ UNCHANGED entry
    BY <2>1 DEF KeyedModelLoaded
  <2>3. mounted # {} /\ FirstRead(m) \in Requests /\ FirstRead(m) \in held
    BY <2>1, HeldIsMounted DEF Held
  <2>4. ReadsTyped' /\ RunsHeld'
    <3> DEFINE running == <<FirstRead(m), "feed">>
    <3>1. CASE relay = "read"
      <4>1. running \in ReadIds /\ running[1] \in held'
        BY <1>1, <2>3 DEF ReadIds, Parts
      <4>2. Start(running, cached)
        BY <2>2, <3>1
      <4> HIDE DEF running
      <4> QED BY <1>1, <1>2, <4>1, <4>2, StartIs
    <3>2. CASE relay # "read"
      BY <1>1, <1>2, <2>2, <3>2, ReadsStay DEF NothingStarts
    <3> QED BY <3>1, <3>2
  <2>5. shown' \in [Mounts -> SUBSET Rows]
    BY <1>2, <2>2, ShowTypes
  <2>6. base' \in (SUBSET Rows) \cup {NoBase}
    BY <2>2
  <2> QED BY <1>1, <1>2, <2>2, <2>3, <2>4, <2>5, <2>6, OthersKeep
<1> QED BY <1>3, <1>4

\* Profile's two reads have slots of their own.
LEMMA PlainModelLoadedStep ==
  ASSUME IInv, NEW m \in Mounts, tab # "home", NEW parts \in SUBSET {"feed", "header"},
         PlainModelLoaded(m, parts)
  PROVE  IInv'
<1>1. /\ loading' \subseteq Requests \X SUBSET Rows
      /\ UNCHANGED <<tab, opened, mounted, held, loader, clicks>>
  BY LoadTypes DEF PlainModelLoaded, IInv
<1>2. SessionTypeOK /\ RunsHeld /\ (\A r \in DOMAIN reads : r[1] \in held')
  BY <1>1 DEF IInv, RunsHeld
<1>3. ASSUME Abandon PROVE IInv'
  <2>1. shown' = shown /\ base' = base /\ entry' = entry /\ UNCHANGED <<reads, slot>>
    BY <1>3 DEF Abandon, NothingStarts
  <2>2. ReadsTyped' /\ RunsHeld'
    BY <1>1, <1>2, <2>1, ReadsStay
  <2>3. shown' \in [Mounts -> SUBSET Rows]
    BY <2>1, <1>2 DEF SessionTypeOK
  <2> QED BY <1>1, <1>2, <2>1, <2>2, <2>3, OthersKeep
<1>4. ASSUME ~Abandon PROVE IInv'
  <2>1. Held(FirstRead(m))
    BY <1>4 DEF PlainModelLoaded
  <2>2. PICK cached \in SUBSET Rows, some \in SUBSET parts :
          /\ Show(m, cached)
          /\ LetGo({}, [r \in {FirstRead(m)} \X some |-> cached])
          /\ UNCHANGED <<entry, base>>
    BY <2>1 DEF PlainModelLoaded
  <2> DEFINE started == [r \in {FirstRead(m)} \X some |-> cached]
             none    == {}
  <2>3. FirstRead(m) \in Requests /\ FirstRead(m) \in held'
    BY <1>1, <2>1, HeldIsMounted DEF Held
  <2>4. \A r \in DOMAIN started : /\ r = <<FirstRead(m), r[2]>> /\ r[2] \in {"feed", "header"}
                                  /\ started[r] = cached
    <3> SUFFICES ASSUME NEW r \in {FirstRead(m)} \X some
                 PROVE  /\ r = <<FirstRead(m), r[2]>> /\ r[2] \in {"feed", "header"}
                        /\ started[r] = cached
      OBVIOUS
    <3>1. r = <<FirstRead(m), r[2]>> /\ r[2] \in some
      OBVIOUS
    <3>2. r[2] \in {"feed", "header"}
      BY <3>1
    <3>3. started[r] = cached
      OBVIOUS
    <3> QED BY <3>1, <3>2, <3>3
  <2>5. /\ DOMAIN started \subseteq ReadIds
        /\ \A r \in DOMAIN started : started[r] \subseteq Rows /\ r[1] \in held'
        /\ \A r, s \in DOMAIN started : SlotOf(r) = SlotOf(s) => r = s
    <3> HIDE DEF started
    <3>1. DOMAIN started \subseteq ReadIds
      BY <2>3, <2>4 DEF ReadIds, Parts
    <3>2. \A r \in DOMAIN started : started[r] \subseteq Rows /\ r[1] \in held'
      BY <2>3, <2>4
    <3>3. ASSUME NEW r \in DOMAIN started, NEW s \in DOMAIN started, SlotOf(r) = SlotOf(s)
          PROVE  r = s
      <4>1. r[2] = s[2]
        BY <2>4, <3>3 DEF SlotOf
      <4> QED BY <2>4, <4>1
    <3> QED BY <3>1, <3>2, <3>3
  <2>6. LetGo(none, started) /\ none \in SUBSET Requests
    BY <2>2
  <2> HIDE DEF started, none
  <2>7. ReadsTyped' /\ RunsHeld'
    BY <1>1, <1>2, <2>5, <2>6, LetGoCuts
  <2>8. shown' \in [Mounts -> SUBSET Rows]
    BY <1>2, <2>2, ShowTypes
  <2> QED BY <1>1, <2>2, <2>7, <2>8, OthersKeep
<1> QED BY <1>3, <1>4

\* What a step of Home that leaves the mounts alone has to show.
LEMMA HomeKeeps ==
  ASSUME IInv, tab = "home", UNCHANGED <<tab, opened, mounted, base>>,
         ReadsTyped', RunsHeld', HeldByMounts', MountsHold', OwnerInv',
         held' \subseteq Requests, loading' \subseteq Requests \X SUBSET Rows,
         entry' \in Entries \cup {NoEntry}, loader' \in [Mounts -> 0..MaxOlder],
         clicks' \in 0..MaxOlder, shown' \in [Mounts -> SUBSET Rows]
  PROVE  IInv'
<1>1. SessionTypeOK'
  BY DEF IInv, SessionTypeOK, ReadsTyped, Entries, Mounts, Requests, ReadIds, Slots, Parts
<1>2. BaseOfMounted'
  BY DEF IInv, BaseOfMounted
<1> QED BY <1>1, <1>2 DEF IInv

LEMMA EntryIs ==
  ASSUME SessionTypeOK, entry # NoEntry
  PROVE  /\ entry \in Entries /\ entry.generation \in Mounts
         /\ \A input \in (SUBSET Rows) \cup {NoBase}, busy \in BOOLEAN :
              LET e == [entry EXCEPT !.input = input, !.busy = busy]
              IN  /\ e \in Entries /\ e # NoEntry
                  /\ e.generation = entry.generation /\ e.input = input /\ e.busy = busy
<1>1. entry \in Entries
  BY DEF SessionTypeOK
<1> SUFFICES ASSUME NEW input \in (SUBSET Rows) \cup {NoBase}, NEW busy \in BOOLEAN
             PROVE  LET e == [entry EXCEPT !.input = input, !.busy = busy]
                    IN  /\ e \in Entries /\ e # NoEntry
                        /\ e.generation = entry.generation /\ e.input = input /\ e.busy = busy
  BY <1>1 DEF Entries
<1> DEFINE e == [entry EXCEPT !.input = input, !.busy = busy]
<1>2. /\ e \in Entries /\ e.generation = entry.generation /\ e.input = input
      /\ e.busy = busy /\ e.generation \in Mounts
  BY <1>1 DEF Entries
<1>3. NoEntry.generation = 0 /\ 0 \notin Mounts
  BY SessionAssumption DEF NoEntry, Mounts
<1>4. e # NoEntry
  <2> HIDE DEF e
  <2> QED BY <1>2, <1>3
<1> QED BY <1>2, <1>4

\* A load finds the owner as its mount left it: nothing else has read for it.
LEMMA HomeModelLoadedStep ==
  ASSUME IInv, NEW m \in Mounts, HomeModelLoaded(m)
  PROVE  IInv'
<1>1. /\ loading' \subseteq Requests \X SUBSET Rows
      /\ UNCHANGED <<tab, opened, mounted, held, loader, clicks>>
      /\ <<FirstRead(m), {}>> \in loading /\ loading' = loading \ {<<FirstRead(m), {}>>}
  BY LoadTypes DEF HomeModelLoaded, IInv
<1>2. /\ tab = "home" /\ SessionTypeOK /\ RunsHeld /\ (\A r \in DOMAIN reads : r[1] \in held')
      /\ HeldByMounts' /\ MountsHold'
      /\ held' \subseteq Requests /\ loader' \in [Mounts -> 0..MaxOlder] /\ clicks' \in 0..MaxOlder
  BY <1>1 DEF HomeModelLoaded, IInv, RunsHeld, HeldByMounts, MountsHold, SessionTypeOK
<1>3. ASSUME Abandon PROVE IInv'
  <2>1. shown' = shown /\ base' = base /\ entry' = entry /\ UNCHANGED <<reads, slot>>
    BY <1>3 DEF Abandon, NothingStarts
  <2>2. ReadsTyped' /\ RunsHeld'
    BY <1>1, <1>2, <2>1, ReadsStay
  <2>3. Pending' => Pending
    BY <1>1 DEF Pending
  <2>4. OwnerInv'
    BY <1>1, <2>1, <2>3 DEF IInv, OwnerInv
  <2>5. shown' \in [Mounts -> SUBSET Rows] /\ entry' \in Entries \cup {NoEntry}
    BY <2>1, <1>2 DEF SessionTypeOK
  <2> QED BY <1>1, <1>2, <2>1, <2>2, <2>4, <2>5, HomeKeeps
<1>4. ASSUME ~Abandon PROVE IInv'
  <2>1. Held(FirstRead(m)) /\ HomeIsCurrent(m)
    BY <1>4 DEF HomeModelLoaded
  <2>2. PICK cached \in SUBSET Rows, relay \in {"none", "notes", "follow"} :
          /\ Show(m, cached)
          /\ \/ /\ relay # "follow"
                /\ entry' = [entry EXCEPT !.input = cached, !.busy = relay = "notes"]
             \/ relay # "notes" /\ UNCHANGED entry
          /\ CASE relay = "none"   -> NothingStarts
               [] relay = "notes"  -> Start(<<FirstRead(m), "feed">>, cached)
               [] relay = "follow" -> Start(<<FirstRead(m), "follow">>, cached)
          /\ UNCHANGED base
    BY <2>1 DEF HomeModelLoaded
  <2>3. /\ entry # NoEntry /\ entry.generation = m /\ m = opened /\ Pending
        /\ entry.busy /\ entry.input = NoBase /\ DOMAIN reads = {} /\ opened \in mounted
    BY <1>1, <1>2, <2>1 DEF HomeIsCurrent, IInv, OwnerInv, Pending
  <2>4. ~Pending'
    BY <1>1, <2>3 DEF Pending
  <2>5. FirstRead(m) \in Requests /\ FirstRead(m) \in held'
        /\ FirstRead(m)[1] = m /\ FirstRead(m)[2] = 0
    BY <1>1, <2>1, HeldIsMounted DEF Held, FirstRead
  <2>6. shown' \in [Mounts -> SUBSET Rows]
    BY <1>2, <2>2, ShowTypes
  <2>7. /\ entry' \in Entries /\ entry' # NoEntry /\ entry'.generation = m
        /\ relay = "notes" => entry'.busy
        /\ relay = "none" => ~entry'.busy \/ entry'.input = NoBase
        /\ relay = "follow" => entry' = entry
    <3>1. entry \in Entries
      BY <1>2, <2>3, EntryIs
    <3>2. CASE entry' = [entry EXCEPT !.input = cached, !.busy = relay = "notes"]
               /\ relay # "follow"
      <4>1. cached \in (SUBSET Rows) \cup {NoBase} /\ (relay = "notes") \in BOOLEAN
        OBVIOUS
      <4>2. /\ entry' \in Entries /\ entry' # NoEntry
            /\ entry'.generation = entry.generation /\ entry'.busy = (relay = "notes")
        BY <1>2, <2>3, <3>2, <4>1, EntryIs
      <4> QED BY <2>3, <3>2, <4>2
    <3>3. CASE entry' = entry /\ relay # "notes"
      BY <2>3, <3>1, <3>3
    <3> QED BY <2>2, <3>2, <3>3
  <2>8. CASE relay = "none"
    <3>1. UNCHANGED <<reads, slot>>
      BY <2>2, <2>8 DEF NothingStarts
    <3>2. ReadsTyped' /\ RunsHeld'
      BY <1>1, <1>2, <3>1, ReadsStay
    <3>3. OwnerInv'
      BY <1>1, <2>3, <2>4, <2>7, <2>8, <3>1 DEF OwnerInv
    <3> QED BY <1>1, <1>2, <2>2, <2>6, <2>7, <3>2, <3>3, HomeKeeps
  <2>9. CASE relay # "none"
    <3> DEFINE part == IF relay = "notes" THEN "feed" ELSE "follow"
               running == <<FirstRead(m), part>>
    <3>1. /\ running \in ReadIds /\ running[1] \in held' /\ running[1][1] = m /\ running[2] = part
          /\ ~Older(running)
      BY <2>5 DEF ReadIds, Parts, Older
    <3>2. Start(running, cached)
      BY <2>2, <2>9
    <3>3. part = "follow" => relay = "follow" /\ entry' = entry
      BY <2>2, <2>9
    <3>4. entry' # NoEntry /\ entry'.generation = m /\ entry'.busy
      BY <2>2, <2>3, <2>7, <2>9
    <3> HIDE DEF running, part
    <3>5. ReadsTyped' /\ RunsHeld' /\ DOMAIN reads' = {running}
      BY <1>1, <1>2, <2>3, <3>1, <3>2, StartIs
    <3>6. OwnerInv'
      BY <1>1, <2>3, <2>4, <3>1, <3>3, <3>4, <3>5 DEF OwnerInv, NoEntry
    <3> QED BY <1>1, <1>2, <2>2, <2>6, <2>7, <3>5, <3>6, HomeKeeps
  <2> QED BY <2>8, <2>9
<1> QED BY <1>3, <1>4

-----------------------------------------------------------------------------
(* Windows *)

LEMMA PlainOutputStep ==
  ASSUME IInv, NEW running \in DOMAIN reads, NEW finished \in BOOLEAN,
         PlainOutput(running, finished) \/ HeaderOutput(running, finished)
  PROVE  IInv'
<1>1. /\ SessionTypeOK /\ RunsHeld /\ running[1] \in held
      /\ running[1][1] \in Mounts /\ reads[running] \in SUBSET Rows
  BY ReadTypes DEF IInv, RunsHeld, SessionTypeOK
<1>2. /\ tab # "home" /\ UNCHANGED <<tab, opened, mounted, loading, clicks>>
      /\ UNCHANGED <<held, entry, base, loader>>
  BY DEF PlainOutput, HeaderOutput, Same
<1>3. PICK rows \in SUBSET Rows :
        /\ GoesOn(running, rows, finished)
        /\ IF Held(running[1]) THEN Show(running[1][1], rows) ELSE UNCHANGED shown
  BY <1>1, WindowsAreRows DEF PlainOutput, HeaderOutput
<1>4. ReadsTyped' /\ RunsHeld'
  <2>1. \A r \in DOMAIN reads : r[1] \in held' \/ (finished /\ r = running)
    BY <1>2 DEF IInv, RunsHeld
  <2> QED BY <1>1, <1>2, <1>3, <2>1, WindowGiven
<1>5. shown' \in [Mounts -> SUBSET Rows] /\ loading' \subseteq Requests \X SUBSET Rows
  BY <1>1, <1>2, <1>3, ShowTypes DEF Held, SessionTypeOK
<1> QED BY <1>2, <1>4, <1>5, OthersKeep

\* The live read of a thread takes the slot of the first read, which ended.
LEMMA KeyedOutputStep ==
  ASSUME IInv, NEW running \in DOMAIN reads, NEW finished \in BOOLEAN, tab \in Keyed,
         KeyedOutput(running, finished)
  PROVE  IInv'
<1>1. /\ SessionTypeOK /\ RunsHeld /\ running[1] \in held /\ running \in ReadIds
      /\ running[1][1] \in Mounts /\ running[1] \in Requests /\ reads[running] \in SUBSET Rows
  BY ReadTypes DEF IInv, RunsHeld, SessionTypeOK
<1>2. /\ tab # "home" /\ UNCHANGED <<tab, opened, mounted, loading, clicks>>
      /\ UNCHANGED <<held, entry, loader>>
  BY DEF KeyedOutput, Same, Keyed
<1>3. mounted # {}
  BY <1>1, HeldIsMounted DEF Held
<1>4. PICK rows \in SUBSET Rows :
        /\ base' = rows /\ Show(running[1][1], rows)
        /\ \/ GoesOn(running, rows, finished)
           \/ ReadsAfter({}, {running}, Only(<<running[1], "live">>, rows))
  BY <1>1, WindowsAreRows DEF KeyedOutput, Held
<1>5. ReadsTyped' /\ RunsHeld'
  <2>1. \A r \in DOMAIN reads : r[1] \in held'
    BY <1>2 DEF IInv, RunsHeld
  <2>2. CASE GoesOn(running, rows, finished)
    BY <1>1, <1>2, <2>1, <2>2, WindowGiven
  <2>3. CASE ReadsAfter({}, {running}, Only(<<running[1], "live">>, rows))
    <3> DEFINE live  == <<running[1], "live">>
               ended == {running}
    <3>1. live \in ReadIds /\ live[1] \in held' /\ ended \in SUBSET ReadIds
      BY <1>1, <1>2 DEF ReadIds, Parts
    <3>2. ReadsAfter({}, ended, Only(live, rows))
      BY <2>3
    <3> HIDE DEF live, ended
    <3> QED BY <1>1, <1>2, <2>1, <3>1, <3>2, Started
  <2> QED BY <1>4, <2>2, <2>3
<1>6. shown' \in [Mounts -> SUBSET Rows] /\ loading' \subseteq Requests \X SUBSET Rows
  BY <1>1, <1>2, <1>4, ShowTypes DEF SessionTypeOK
<1>7. base' \in (SUBSET Rows) \cup {NoBase}
  BY <1>4
<1> QED BY <1>2, <1>3, <1>5, <1>6, <1>7, OthersKeep

\* What the one read of Home finds: its owner.
LEMMA HomeReads ==
  ASSUME IInv, tab = "home", NEW running \in DOMAIN reads
  PROVE  /\ SessionTypeOK /\ RunsHeld /\ Held(running[1]) /\ HomeIsCurrent(running[1][1])
         /\ running \in ReadIds /\ running[1] \in Requests /\ running[1][1] \in Mounts
         /\ running[1][1] = opened /\ opened \in mounted /\ DOMAIN reads = {running}
         /\ reads[running] \in SUBSET Rows /\ entry # NoEntry /\ entry.generation = opened
         /\ ~Pending
<1>1. /\ SessionTypeOK /\ RunsHeld /\ Held(running[1]) /\ running \in ReadIds
      /\ reads[running] \in SUBSET Rows
  BY DEF IInv, RunsHeld, SessionTypeOK, Held
<1>2. /\ entry # NoEntry /\ entry.generation = opened /\ running[1][1] = opened /\ ~Pending
      /\ opened \in mounted
  BY DEF IInv, OwnerInv
<1>3. DOMAIN reads = {running}
  BY HomeHasOneRead
<1> QED BY <1>1, <1>2, <1>3, ReadTypes DEF HomeIsCurrent

\* The end of the one read of Home frees its owner, a window before the last
\* does not.
LEMMA HomeOwnerAfter ==
  ASSUME IInv, tab = "home", tab' = tab, opened' = opened, mounted' = mounted,
         loading' = loading,
         NEW running \in DOMAIN reads, NEW finished \in BOOLEAN, NEW rows \in SUBSET Rows,
         entry' = [entry EXCEPT !.input = rows, !.busy = ~finished],
         DOMAIN reads' = IF finished THEN DOMAIN reads \ {running} ELSE DOMAIN reads,
         running[2] # "follow"
  PROVE  OwnerInv' /\ entry' \in Entries \cup {NoEntry}
<1>1. /\ SessionTypeOK /\ entry # NoEntry /\ entry.generation = opened
      /\ running[1][1] = opened /\ DOMAIN reads = {running} /\ opened \in mounted /\ ~Pending
  BY HomeReads
<1>2. rows \in (SUBSET Rows) \cup {NoBase} /\ (~finished) \in BOOLEAN
  OBVIOUS
<1>3. /\ entry' \in Entries /\ entry' # NoEntry /\ entry'.generation = opened
      /\ entry'.busy = ~finished
  BY <1>1, <1>2, EntryIs
<1>4. ~Pending'
  BY <1>1 DEF Pending
<1>5. DOMAIN reads' = IF finished THEN {} ELSE {running}
  BY <1>1
<1>6. OwnerInv'
  BY <1>1, <1>3, <1>4, <1>5 DEF OwnerInv, NoEntry
<1> QED BY <1>3, <1>6

LEMMA HomeOutputStep ==
  ASSUME IInv, NEW running \in DOMAIN reads, NEW finished \in BOOLEAN,
         HomeOutput(running, finished)
  PROVE  IInv'
<1>1. /\ tab = "home" /\ running[2] = "feed"
      /\ UNCHANGED <<tab, opened, mounted, loading, clicks, held, base, loader>>
  BY DEF HomeOutput, Same
<1>2. /\ SessionTypeOK /\ RunsHeld /\ Held(running[1]) /\ HomeIsCurrent(running[1][1])
      /\ running[1][1] \in Mounts
  BY <1>1, HomeReads
<1>3. PICK rows \in SUBSET Rows :
        /\ GoesOn(running, rows, finished) /\ Show(running[1][1], rows)
        /\ entry' = [entry EXCEPT !.input = rows, !.busy = ~finished]
  BY <1>2, WindowsAreRows DEF HomeOutput
<1>4. \A r \in DOMAIN reads : r[1] \in held' \/ (finished /\ r = running)
  BY <1>1 DEF IInv, RunsHeld
<1>5. /\ ReadsTyped' /\ RunsHeld'
      /\ DOMAIN reads' = IF finished THEN DOMAIN reads \ {running} ELSE DOMAIN reads
  <2>1. /\ ReadsTyped' /\ RunsHeld'
        /\ finished => DOMAIN reads' = DOMAIN reads \ {running}
        /\ ~finished => DOMAIN reads' = DOMAIN reads
    BY <1>1, <1>2, <1>3, <1>4, WindowGiven
  <2> QED BY <2>1
<1>6. OwnerInv' /\ entry' \in Entries \cup {NoEntry}
  BY <1>1, <1>3, <1>5, HomeOwnerAfter
<1>7. shown' \in [Mounts -> SUBSET Rows]
  BY <1>2, <1>3, ShowTypes
<1>8. /\ HeldByMounts' /\ MountsHold' /\ held' \subseteq Requests
      /\ loading' \subseteq Requests \X SUBSET Rows
      /\ loader' \in [Mounts -> 0..MaxOlder] /\ clicks' \in 0..MaxOlder
  BY <1>1 DEF IInv, HeldByMounts, MountsHold, SessionTypeOK
<1> QED BY <1>1, <1>5, <1>6, <1>7, <1>8, HomeKeeps

\* The notes take the slot of the follow read.
LEMMA HomeFollowOutputStep ==
  ASSUME IInv, NEW running \in DOMAIN reads, NEW finished \in BOOLEAN,
         HomeFollowOutput(running, finished)
  PROVE  IInv'
<1>1. /\ tab = "home" /\ running[2] = "follow" /\ finished
      /\ UNCHANGED <<tab, opened, mounted, loading, clicks, held, base, loader, shown>>
  BY DEF HomeFollowOutput, Same
<1>2. /\ SessionTypeOK /\ RunsHeld /\ Held(running[1]) /\ running[1][1] \in Mounts
      /\ running[1] \in Requests /\ running \in ReadIds /\ running[1][1] = opened
      /\ DOMAIN reads = {running} /\ reads[running] \in SUBSET Rows /\ opened \in mounted
      /\ entry # NoEntry /\ entry.generation = opened /\ ~Pending
  BY <1>1, HomeReads
<1>3. entry.input = NoBase /\ entry \in Entries
  BY <1>1, <1>2, EntryIs DEF IInv, OwnerInv
<1>4. /\ HeldByMounts' /\ MountsHold' /\ held' \subseteq Requests
      /\ loading' \subseteq Requests \X SUBSET Rows /\ shown' \in [Mounts -> SUBSET Rows]
      /\ loader' \in [Mounts -> 0..MaxOlder] /\ clicks' \in 0..MaxOlder
  BY <1>1 DEF IInv, HeldByMounts, MountsHold, SessionTypeOK
<1>5. \A r \in DOMAIN reads : r[1] \in held'
  BY <1>1 DEF IInv, RunsHeld
<1>6. ~Pending'
  BY <1>1, <1>2 DEF Pending
<1>7. CASE GoesOn(running, {}, TRUE) /\ UNCHANGED entry
  <2> DEFINE rows == {}
  <2>1. rows \in SUBSET Rows /\ GoesOn(running, rows, finished)
    BY <1>1, <1>7
  <2> HIDE DEF rows
  <2>2. ReadsTyped' /\ RunsHeld' /\ DOMAIN reads' = DOMAIN reads \ {running}
    BY <1>1, <1>2, <1>5, <2>1, WindowGiven
  <2>3. DOMAIN reads' = {}
    BY <1>2, <2>2
  <2>4. OwnerInv'
    BY <1>1, <1>2, <1>3, <1>6, <1>7, <2>3 DEF OwnerInv
  <2> QED BY <1>1, <1>3, <1>4, <1>7, <2>2, <2>4, HomeKeeps
<1>8. CASE /\ entry' = [entry EXCEPT !.input = reads[running], !.busy = TRUE]
           /\ Start(<<running[1], "feed">>, reads[running])
  <2> DEFINE notes == <<running[1], "feed">>
             input == reads[running]
             busy  == TRUE
  <2>1. /\ notes \in ReadIds /\ notes[1] \in held' /\ notes[1][1] = opened
        /\ notes[2] # "follow" /\ Start(notes, input) /\ input \in SUBSET Rows
    BY <1>1, <1>2, <1>8 DEF ReadIds, Parts, Held
  <2>2. SlotOf(running) = SlotOf(notes)
    BY <1>1 DEF SlotOf
  <2>3. /\ entry' = [entry EXCEPT !.input = input, !.busy = busy]
        /\ busy \in BOOLEAN /\ input \in (SUBSET Rows) \cup {NoBase} /\ busy
    BY <1>2, <1>8
  <2> HIDE DEF notes, input, busy
  <2>4. /\ ReadsTyped' /\ RunsHeld'
        /\ DOMAIN reads' = {notes} \cup {r \in DOMAIN reads : SlotOf(r) # SlotOf(notes)}
    BY <1>1, <1>2, <1>5, <2>1, StartIs
  <2>5. DOMAIN reads' = {notes}
    BY <1>2, <2>2, <2>4
  <2>6. /\ entry' \in Entries /\ entry' # NoEntry /\ entry'.generation = opened
        /\ entry'.busy
    BY <1>2, <2>3, EntryIs
  <2>7. OwnerInv'
    BY <1>1, <1>2, <1>6, <2>1, <2>5, <2>6 DEF OwnerInv, NoEntry
  <2> QED BY <1>1, <1>4, <2>4, <2>6, <2>7, HomeKeeps
<1> QED BY <1>7, <1>8 DEF HomeFollowOutput

\* The last window of an older page gives its lease back.
LEMMA HomeOlderOutputStep ==
  ASSUME IInv, NEW running \in DOMAIN reads, NEW finished \in BOOLEAN,
         HomeOlderOutput(running, finished)
  PROVE  IInv'
<1> DEFINE q == running[1]
<1>1. /\ tab = "home" /\ q[2] > 0
      /\ UNCHANGED <<tab, opened, mounted, loading, clicks, base>>
  BY DEF HomeOlderOutput, Same, Older
<1>2. /\ SessionTypeOK /\ RunsHeld /\ Held(q) /\ HomeIsCurrent(q[1])
      /\ q[1] \in Mounts /\ q \in Requests /\ running \in ReadIds /\ DOMAIN reads = {running}
  BY <1>1, HomeReads
<1>3. PICK rows \in SUBSET Rows :
        /\ GoesOn(running, rows, finished) /\ Show(q[1], rows)
        /\ entry' = [entry EXCEPT !.input = rows, !.busy = ~finished]
        /\ held' = IF finished THEN held \ {q} ELSE held
        /\ loader' = IF finished THEN [loader EXCEPT ![q[1]] = 0] ELSE loader
  BY <1>2, WindowsAreRows DEF HomeOlderOutput
<1>4. q[2] = loader[q[1]] /\ q = <<q[1], q[2]>>
  BY <1>1, <1>2 DEF IInv, HeldByMounts, Held, Requests
<1> HIDE DEF q
<1>5. \A r \in DOMAIN reads : r[1] \in held' \/ (finished /\ r = running)
  BY <1>2, <1>3 DEF Held, q
<1>6. /\ ReadsTyped' /\ RunsHeld'
      /\ DOMAIN reads' = IF finished THEN DOMAIN reads \ {running} ELSE DOMAIN reads
  <2>1. /\ ReadsTyped' /\ RunsHeld'
        /\ finished => DOMAIN reads' = DOMAIN reads \ {running}
        /\ ~finished => DOMAIN reads' = DOMAIN reads
    BY <1>1, <1>2, <1>3, <1>5, WindowGiven
  <2> QED BY <2>1
<1>7. OwnerInv' /\ entry' \in Entries \cup {NoEntry}
  <2>1. running[2] # "follow"
    BY <1>1 DEF IInv, OwnerInv, Older, q
  <2> QED BY <1>1, <1>3, <1>6, <2>1, HomeOwnerAfter
<1>8. shown' \in [Mounts -> SUBSET Rows]
  BY <1>2, <1>3, ShowTypes
<1>9. HeldByMounts'
  <2> SUFFICES ASSUME NEW p \in held'
               PROVE  p[1] \in mounted' /\ (p[2] = 0 \/ p[2] = loader'[p[1]])
    BY DEF HeldByMounts
  <2>1. /\ p \in held /\ p[1] \in mounted /\ (p[2] = 0 \/ p[2] = loader[p[1]])
        /\ p = <<p[1], p[2]>> /\ p[1] \in Mounts
    BY <1>2, <1>3 DEF IInv, HeldByMounts, SessionTypeOK, Requests
  <2>2. CASE ~finished
    BY <1>1, <1>3, <2>1, <2>2
  <2>3. CASE finished
    <3>1. p # q
      BY <1>3, <2>3
    <3>2. p[2] # 0 => p[1] # q[1]
      BY <1>4, <2>1, <3>1
    <3> QED BY <1>1, <1>2, <1>3, <2>1, <2>3, <3>2 DEF SessionTypeOK
  <2> QED BY <2>2, <2>3
<1>10. MountsHold'
  <2>1. \A m : FirstRead(m) # q
    BY <1>1 DEF FirstRead
  <2> QED BY <1>1, <1>3, <2>1 DEF IInv, MountsHold
<1>11. /\ held' \subseteq Requests /\ loading' \subseteq Requests \X SUBSET Rows
       /\ clicks' \in 0..MaxOlder /\ loader' \in [Mounts -> 0..MaxOlder]
  BY <1>1, <1>2, <1>3, SessionAssumption DEF SessionTypeOK
<1> QED BY <1>1, <1>6, <1>7, <1>8, <1>9, <1>10, <1>11, HomeKeeps

-----------------------------------------------------------------------------
(* Older pages *)

LEMMA AskedIs ==
  ASSUME IInv, NEW m \in Mounts, Asked(m)
  PROVE  /\ SessionTypeOK /\ RunsHeld /\ m \in mounted /\ m = opened /\ NewOlder(m) \in Requests
         /\ NewOlder(m)[1] = m /\ NewOlder(m)[2] \in 1..MaxOlder /\ clicks' \in 0..MaxOlder
         /\ UNCHANGED <<tab, opened, mounted, base, shown>>
         /\ shown \in [Mounts -> SUBSET Rows] /\ shown[m] \in SUBSET Rows
<1>1. /\ m \in mounted /\ m = opened /\ clicks < MaxOlder /\ clicks' = clicks + 1
      /\ UNCHANGED <<tab, opened, mounted, base, shown>>
  BY DEF Asked
<1>2. /\ SessionTypeOK /\ RunsHeld /\ clicks \in 0..MaxOlder
      /\ shown \in [Mounts -> SUBSET Rows]
  BY DEF IInv, SessionTypeOK
<1>3. clicks + 1 \in 1..MaxOlder /\ clicks + 1 \in 0..MaxOlder
  BY <1>1, <1>2, SessionAssumption
<1> QED BY <1>1, <1>2, <1>3 DEF NewOlder, Requests

\* The owner is idle: no read of Home runs, and its loader has no request.
LEMMA HomeOlderStep ==
  ASSUME IInv, NEW m \in Mounts, HomeOlder(m)
  PROVE  IInv'
<1> DEFINE q == NewOlder(m)
<1>1. /\ tab = "home" /\ loader[m] = 0 /\ loading' = loading /\ Asked(m)
  BY DEF HomeOlder
<1>2. /\ SessionTypeOK /\ RunsHeld /\ m \in mounted /\ m = opened /\ q \in Requests
      /\ q[1] = m /\ q[2] \in 1..MaxOlder /\ clicks' \in 0..MaxOlder
      /\ UNCHANGED <<tab, opened, mounted, base, shown>>
      /\ shown' \in [Mounts -> SUBSET Rows] /\ loading' \subseteq Requests \X SUBSET Rows
  BY <1>1, AskedIs DEF SessionTypeOK
<1>3. CASE HomeCanPage
  <2>1. /\ entry' = [entry EXCEPT !.busy = TRUE] /\ held' = held \cup {q}
        /\ loader' = [loader EXCEPT ![m] = q[2]] /\ Start(<<q, "feed">>, entry.input)
    BY <1>3 DEF HomeOlder
  <2>2. /\ entry # NoEntry /\ ~entry.busy /\ entry.input \in SUBSET Rows
        /\ entry.input # NoBase /\ entry \in Entries /\ entry.generation = opened
    <3>1. entry # NoEntry /\ ~entry.busy /\ entry.input # NoBase
      BY <1>3 DEF HomeCanPage
    <3>2. entry \in Entries
      BY <1>2, <3>1, EntryIs
    <3>3. entry.generation = opened
      BY <1>1, <3>1 DEF IInv, OwnerInv
    <3> QED BY <3>1, <3>2, <3>3 DEF Entries
  <2>3. DOMAIN reads = {} /\ ~Pending
    BY <1>1, <2>2 DEF IInv, OwnerInv
  <2> DEFINE running  == <<q, "feed">>
             input == entry.input
             busy  == TRUE
  <2>4. /\ running \in ReadIds /\ running[1] = q /\ running[2] # "follow" /\ running[1] \in held'
        /\ input \in SUBSET Rows /\ Start(running, input)
    BY <1>2, <2>1, <2>2 DEF ReadIds, Parts
  <2>5. \A r \in DOMAIN reads : r[1] \in held'
    BY <2>3
  <2>6. /\ input \in (SUBSET Rows) \cup {NoBase} /\ busy \in BOOLEAN /\ busy
        /\ entry' = [entry EXCEPT !.input = input, !.busy = busy]
    <3>1. entry' = [entry EXCEPT !.input = input, !.busy = busy]
      BY <2>1, <2>2 DEF Entries
    <3> QED BY <2>2, <3>1
  <2> HIDE DEF running, input, busy, q
  <2>7. ReadsTyped' /\ RunsHeld' /\ DOMAIN reads' = {running}
    BY <1>2, <2>3, <2>4, <2>5, StartIs
  <2>8. /\ entry' \in Entries /\ entry' # NoEntry /\ entry'.generation = opened /\ entry'.busy
    BY <1>2, <2>2, <2>6, EntryIs
  <2>9. ~Pending'
    BY <1>1, <1>2, <2>3 DEF Pending
  <2>10. OwnerInv'
    BY <1>1, <1>2, <2>4, <2>7, <2>8, <2>9 DEF OwnerInv, NoEntry
  <2>11. loader' \in [Mounts -> 0..MaxOlder] /\ held' \subseteq Requests
    BY <1>2, <2>1, SessionAssumption DEF SessionTypeOK
  <2>12. HeldByMounts'
    <3> SUFFICES ASSUME NEW p \in held'
                 PROVE  p[1] \in mounted' /\ (p[2] = 0 \/ p[2] = loader'[p[1]])
      BY DEF HeldByMounts
    <3>1. CASE p = q
      BY <1>2, <2>1, <3>1 DEF SessionTypeOK
    <3>2. CASE p \in held
      <4>1. p[1] \in mounted /\ (p[2] = 0 \/ p[2] = loader[p[1]]) /\ p[1] \in Mounts
        BY <1>2, <3>2 DEF IInv, HeldByMounts, SessionTypeOK, Requests
      <4> QED BY <1>1, <1>2, <2>1, <4>1 DEF SessionTypeOK
    <3> QED BY <2>1, <3>1, <3>2
  <2>13. MountsHold'
    BY <1>2, <2>1 DEF IInv, MountsHold
  <2> QED BY <1>1, <1>2, <2>7, <2>8, <2>10, <2>11, <2>12, <2>13, HomeKeeps
<1>4. CASE ~HomeCanPage
  <2>1. UNCHANGED <<entry, held, loader, reads, slot>>
    BY <1>4 DEF HomeOlder, NothingStarts
  <2>2. \A r \in DOMAIN reads : r[1] \in held'
    BY <2>1 DEF IInv, RunsHeld
  <2>3. ReadsTyped' /\ RunsHeld'
    BY <1>2, <2>1, <2>2, ReadsStay
  <2>4. /\ HeldByMounts' /\ MountsHold' /\ held' \subseteq Requests
        /\ entry' \in Entries \cup {NoEntry} /\ loader' \in [Mounts -> 0..MaxOlder]
    BY <1>2, <2>1 DEF IInv, HeldByMounts, MountsHold, SessionTypeOK
  <2>5. OwnerInv'
    BY <1>1, <1>2, <2>1 DEF IInv, OwnerInv, Pending
  <2> QED BY <1>1, <1>2, <2>1, <2>3, <2>4, <2>5, HomeKeeps
<1> QED BY <1>3, <1>4

\* The leases of a mount after the older request it had is replaced, or gone.
LEMMA LoaderMoves ==
  ASSUME IInv, tab # "home", NEW m \in Mounts, m \in mounted, NEW page \in 0..MaxOlder,
         UNCHANGED <<tab, opened, mounted, base, entry>>,
         clicks' \in 0..MaxOlder, shown' \in [Mounts -> SUBSET Rows],
         loading' \subseteq Requests \X SUBSET Rows,
         held' = (held \ OlderOf(m)) \cup (IF page = 0 THEN {} ELSE {<<m, page>>}),
         loader' = [loader EXCEPT ![m] = page], ReadsTyped', RunsHeld'
  PROVE  IInv'
<1>1. SessionTypeOK
  BY DEF IInv
<1>2. held' \subseteq Requests /\ loader' \in [Mounts -> 0..MaxOlder]
  <2>1. held' \subseteq Requests
    BY <1>1 DEF SessionTypeOK, Requests
  <2> QED BY <1>1, <2>1 DEF SessionTypeOK
<1>3. HeldByMounts'
  <2> SUFFICES ASSUME NEW p \in held'
               PROVE  p[1] \in mounted' /\ (p[2] = 0 \/ p[2] = loader'[p[1]])
    BY DEF HeldByMounts
  <2>1. CASE page # 0 /\ p = <<m, page>>
    BY <1>1, <2>1 DEF SessionTypeOK
  <2>2. CASE p \in held /\ p \notin OlderOf(m)
    <3>1. /\ p[1] \in mounted /\ (p[2] = 0 \/ p[2] = loader[p[1]]) /\ p[1] \in Mounts
          /\ p = <<p[1], p[2]>>
      BY <1>1, <2>2 DEF IInv, HeldByMounts, SessionTypeOK, Requests
    <3>2. CASE p[2] = 0
      BY <3>1, <3>2
    <3>3. CASE p[2] # 0
      <4>1. p[1] # m
        BY <2>2, <3>1, <3>3, OlderIs
      <4> QED BY <1>1, <3>1, <4>1 DEF SessionTypeOK
    <3> QED BY <3>2, <3>3
  <2> QED BY <2>1, <2>2
<1>4. MountsHold'
  BY OlderIs DEF IInv, MountsHold
<1>5. SessionTypeOK'
  BY <1>2 DEF IInv, SessionTypeOK, ReadsTyped, Entries, Mounts, Requests, ReadIds, Slots, Parts
<1>6. BaseOfMounted' /\ OwnerInv'
  BY DEF IInv, BaseOfMounted, OwnerInv
<1> QED BY <1>3, <1>4, <1>5, <1>6 DEF IInv

\* Releasing the older request of a mount cuts the read it had.
LEMMA PageReplaced ==
  ASSUME IInv, NEW m \in Mounts, NEW started, LetGo(OlderOf(m), started),
         tab' = tab, held \ OlderOf(m) \subseteq held', DOMAIN started \subseteq ReadIds,
         \A r \in DOMAIN started : started[r] \subseteq Rows /\ r[1] \in held',
         \A r, s \in DOMAIN started : SlotOf(r) = SlotOf(s) => r = s
  PROVE  ReadsTyped' /\ RunsHeld'
<1>1. SessionTypeOK /\ RunsHeld
  BY DEF IInv
<1>2. OlderOf(m) \in SUBSET Requests
  BY <1>1 DEF OlderOf, SessionTypeOK, Requests
<1>3. \A r \in DOMAIN reads : r[1] \in held' \/ r[1] \in OlderOf(m)
  BY <1>1 DEF RunsHeld
<1> QED BY <1>1, <1>2, <1>3, LetGoCuts

LEMMA ReplacesStep ==
  ASSUME IInv, tab # "home", NEW m \in Mounts, Asked(m), UNCHANGED entry,
         loading' \subseteq Requests \X SUBSET Rows, NEW rows \in SUBSET Rows,
         \/ Replaces(m, NewOlder(m), NoReads)
         \/ Replaces(m, NewOlder(m), Only(<<NewOlder(m), "feed">>, rows))
  PROVE  IInv'
<1> DEFINE q    == NewOlder(m)
           running == <<q, "feed">>
<1>1. /\ SessionTypeOK /\ RunsHeld /\ m \in mounted /\ m = opened /\ q \in Requests
      /\ q[1] = m /\ q[2] \in 1..MaxOlder /\ clicks' \in 0..MaxOlder
      /\ UNCHANGED <<tab, opened, mounted, base, shown>>
      /\ shown' \in [Mounts -> SUBSET Rows]
  BY AskedIs
<1>2. held' = (held \ OlderOf(m)) \cup {q} /\ loader' = [loader EXCEPT ![m] = q[2]]
  BY DEF Replaces
<1>3. running \in ReadIds /\ running[1] \in held'
  BY <1>1, <1>2 DEF ReadIds, Parts
<1>4. PICK started \in {NoReads, Only(running, rows)} : LetGo(OlderOf(m), started)
  BY DEF Replaces
<1>5. q = <<m, q[2]>>
  BY <1>1 DEF Requests
<1> HIDE DEF q, running
<1>6. /\ DOMAIN started \subseteq {running}
      /\ \A r \in DOMAIN started : started[r] = rows
  <2>1. CASE started = NoReads
    BY <2>1, OnlyIs
  <2>2. CASE started = Only(running, rows)
    <3>1. DOMAIN started = {running} /\ started[running] = rows
      BY <2>2, OnlyIs
    <3> QED BY <3>1
  <2> QED BY <1>4, <2>1, <2>2
<1>7. /\ DOMAIN started \subseteq ReadIds
      /\ \A r \in DOMAIN started : started[r] \subseteq Rows /\ r[1] \in held'
      /\ \A r, s \in DOMAIN started : SlotOf(r) = SlotOf(s) => r = s
  BY <1>3, <1>6
<1>8. ReadsTyped' /\ RunsHeld'
  BY <1>1, <1>2, <1>4, <1>7, PageReplaced
<1> DEFINE page == q[2]
<1>9. /\ page \in 0..MaxOlder /\ page # 0 /\ loader' = [loader EXCEPT ![m] = page]
      /\ held' = (held \ OlderOf(m)) \cup (IF page = 0 THEN {} ELSE {<<m, page>>})
  BY <1>1, <1>2, <1>5
<1> HIDE DEF page
<1> QED BY <1>1, <1>8, <1>9, LoaderMoves

LEMMA KeyedOlderStep ==
  ASSUME IInv, NEW m \in Mounts, tab \in Keyed, KeyedOlder(m)
  PROVE  IInv'
<1>1. /\ tab # "home" /\ Asked(m) /\ UNCHANGED <<loading, entry>>
      /\ loading' \subseteq Requests \X SUBSET Rows
  BY DEF KeyedOlder, Keyed, IInv, SessionTypeOK
<1>2. CASE Replaces(m, NewOlder(m), NoReads)
  <2>1. {} \in SUBSET Rows
    OBVIOUS
  <2> QED BY <1>1, <1>2, <2>1, ReplacesStep
<1>3. CASE /\ base \notin {NoBase, {}}
           /\ Replaces(m, NewOlder(m), Only(<<NewOlder(m), "feed">>, base))
  <2>1. base \in SUBSET Rows
    BY <1>3 DEF IInv, SessionTypeOK
  <2> QED BY <1>1, <1>3, <2>1, ReplacesStep
<1> QED BY <1>2, <1>3 DEF KeyedOlder

LEMMA SearchOlderStep ==
  ASSUME IInv, NEW m \in Mounts, SearchOlder(m)
  PROVE  IInv'
<1>1. tab # "home" /\ Asked(m) /\ UNCHANGED entry
  BY DEF SearchOlder
<1>2. /\ SessionTypeOK /\ m \in mounted /\ NewOlder(m) \in Requests /\ clicks' \in 0..MaxOlder
      /\ UNCHANGED <<tab, opened, mounted, base, shown>>
      /\ shown' \in [Mounts -> SUBSET Rows] /\ shown[m] \in SUBSET Rows
  BY <1>1, AskedIs
<1>3. CASE /\ held' = held \ OlderOf(m)
           /\ LetGo(OlderOf(m), NoReads)
           /\ loader' = [loader EXCEPT ![m] = 0]
           /\ UNCHANGED loading
  <2>1. DOMAIN NoReads = {}
    BY OnlyIs
  <2>2. ReadsTyped' /\ RunsHeld'
    BY <1>2, <1>3, <2>1, PageReplaced
  <2> DEFINE page == 0
  <2>3. /\ page \in 0..MaxOlder /\ loader' = [loader EXCEPT ![m] = page]
        /\ held' = (held \ OlderOf(m)) \cup (IF page = 0 THEN {} ELSE {<<m, page>>})
        /\ loading' \subseteq Requests \X SUBSET Rows
    BY <1>2, <1>3, SessionAssumption DEF SessionTypeOK
  <2> HIDE DEF page
  <2> QED BY <1>1, <1>2, <2>2, <2>3, LoaderMoves
<1>4. CASE /\ Replaces(m, NewOlder(m), NoReads)
           /\ loading' = loading \cup {<<NewOlder(m), shown[m]>>}
  <2>1. loading' \subseteq Requests \X SUBSET Rows
    BY <1>2, <1>4 DEF SessionTypeOK
  <2> QED BY <1>1, <1>2, <1>4, <2>1, ReplacesStep
<1> QED BY <1>3, <1>4 DEF SearchOlder

\* A page whose lease is gone when its local rows come in starts nothing.
LEMMA SearchOlderLoadedStep ==
  ASSUME IInv, NEW load \in loading, SearchOlderLoaded(load)
  PROVE  IInv'
<1> DEFINE q    == load[1]
           running == <<q, "feed">>
<1>1. /\ tab # "home" /\ loading' = loading \ {load}
      /\ UNCHANGED <<tab, opened, mounted, held, entry, base, loader, clicks>>
  BY DEF SearchOlderLoaded
<1>2. /\ SessionTypeOK /\ RunsHeld /\ (\A r \in DOMAIN reads : r[1] \in held')
      /\ loading' \subseteq Requests \X SUBSET Rows
  BY <1>1 DEF IInv, RunsHeld, SessionTypeOK
<1>3. CASE ~Held(q)
  <2>1. UNCHANGED <<shown, reads, slot>>
    BY <1>3 DEF SearchOlderLoaded, NothingStarts
  <2>2. ReadsTyped' /\ RunsHeld'
    BY <1>1, <1>2, <2>1, ReadsStay
  <2>3. shown' \in [Mounts -> SUBSET Rows]
    BY <1>2, <2>1 DEF SessionTypeOK
  <2> QED BY <1>1, <1>2, <2>2, <2>3, OthersKeep
<1>4. CASE Held(q)
  <2>1. PICK rows \in SUBSET Rows : Show(q[1], rows) /\ (NothingStarts \/ Start(running, rows))
    BY <1>4 DEF SearchOlderLoaded
  <2>2. q \in Requests /\ q[1] \in Mounts
    BY <1>4, HeldIsMounted
  <2>3. running \in ReadIds /\ running[1] \in held'
    BY <1>1, <1>4, <2>2 DEF ReadIds, Parts, Held
  <2> HIDE DEF running, q
  <2>4. shown' \in [Mounts -> SUBSET Rows]
    BY <1>2, <2>1, <2>2, ShowTypes
  <2>5. ReadsTyped' /\ RunsHeld'
    BY <1>1, <1>2, <2>1, <2>3, StartIs, ReadsStay DEF NothingStarts
  <2> QED BY <1>1, <1>2, <2>4, <2>5, OthersKeep
<1> QED BY <1>3, <1>4

-----------------------------------------------------------------------------
(* The session *)

LEMMA InitIsRight == SessionInit => IInv
<1> SUFFICES ASSUME SessionInit PROVE IInv
  OBVIOUS
<1>1. /\ tab \in Tabs /\ opened = 0 /\ mounted = {} /\ held = {} /\ loading = {}
      /\ reads = NoReads /\ slot = [s \in Slots |-> Vacant]
      /\ entry = NoEntry /\ base = NoBase
      /\ loader = [m \in Mounts |-> 0] /\ clicks = 0
      /\ shown = [m \in Mounts |-> {}]
  BY DEF SessionInit
<1>2. DOMAIN reads = {}
  BY <1>1, OnlyIs
<1>3. SessionTypeOK
  BY <1>1, <1>2, SessionAssumption DEF SessionTypeOK
<1>4. RunsHeld /\ HeldByMounts /\ MountsHold /\ BaseOfMounted
  BY <1>1, <1>2 DEF RunsHeld, HeldByMounts, MountsHold, BaseOfMounted
<1>5. OwnerInv
  BY <1>1, <1>2 DEF OwnerInv
<1> QED BY <1>3, <1>4, <1>5 DEF IInv

LEMMA NextKeeps ==
  ASSUME IInv, [SessionNext]_sessionVars
  PROVE  IInv'
<1>1. CASE HomeMount
  BY <1>1, HomeMountStep
<1>2. CASE Mount
  BY <1>2, MountStep
<1>3. ASSUME NEW m \in Mounts, Unmount(m) PROVE IInv'
  BY <1>3, UnmountStep
<1>4. ASSUME NEW m \in Mounts, ModelLoaded(m) PROVE IInv'
  <2>1. CASE HomeModelLoaded(m)
    BY <2>1, HomeModelLoadedStep
  <2>2. CASE GlobalModelLoaded(m) \/ NotificationsModelLoaded(m) \/ ThreadModelLoaded(m)
    BY <2>2, KeyedModelLoadedStep
       DEF GlobalModelLoaded, NotificationsModelLoaded, ThreadModelLoaded, Keyed
  <2>3. CASE \/ SearchModelLoaded(m) \/ AuthorModelLoaded(m) \/ CustomModelLoaded(m)
             \/ FolloweesModelLoaded(m) \/ TimelineModelLoaded(m) \/ ProfileModelLoaded(m)
    <3>1. PICK parts \in SUBSET {"feed", "header"} : tab # "home" /\ PlainModelLoaded(m, parts)
      BY <2>3 DEF SearchModelLoaded, AuthorModelLoaded, CustomModelLoaded,
                  FolloweesModelLoaded, TimelineModelLoaded, ProfileModelLoaded
    <3> QED BY <3>1, PlainModelLoadedStep
  <2> QED BY <1>4, <2>1, <2>2, <2>3 DEF ModelLoaded
<1>5. ASSUME NEW m \in Mounts, AskOlder(m) PROVE IInv'
  <2>1. CASE HomeOlder(m)
    BY <2>1, HomeOlderStep
  <2>2. CASE GlobalOlder(m) \/ NotificationsOlder(m) \/ ThreadOlder(m)
    BY <2>2, KeyedOlderStep DEF GlobalOlder, NotificationsOlder, ThreadOlder, Keyed
  <2>3. CASE SearchOlder(m)
    BY <2>3, SearchOlderStep
  <2> QED BY <1>5, <2>1, <2>2, <2>3 DEF AskOlder
<1>6. ASSUME NEW load \in loading, SearchOlderLoaded(load) PROVE IInv'
  BY <1>6, SearchOlderLoadedStep
<1>7. ASSUME NEW running \in DOMAIN reads, NEW finished \in BOOLEAN, Output(running, finished)
      PROVE  IInv'
  <2>1. CASE HomeOutput(running, finished)
    BY <2>1, HomeOutputStep
  <2>2. CASE HomeFollowOutput(running, finished)
    BY <2>2, HomeFollowOutputStep
  <2>3. CASE HomeOlderOutput(running, finished)
    BY <2>3, HomeOlderOutputStep
  <2>4. CASE \/ GlobalOutput(running, finished) \/ NotificationsOutput(running, finished)
             \/ ThreadOutput(running, finished)
    BY <2>4, KeyedOutputStep DEF GlobalOutput, NotificationsOutput, ThreadOutput, Keyed
  <2>5. CASE PlainOutput(running, finished) \/ HeaderOutput(running, finished)
    BY <2>5, PlainOutputStep
  <2> QED BY <1>7, <2>1, <2>2, <2>3, <2>4, <2>5 DEF Output
<1>8. CASE UNCHANGED sessionVars
  BY <1>8 DEF sessionVars, IInv, SessionTypeOK, RunsHeld, HeldByMounts, MountsHold,
              BaseOfMounted, OwnerInv, Pending, SlotOf, Slots, Requests, Mounts, ReadIds,
              Entries, Vacant
<1> QED BY <1>1, <1>2, <1>3, <1>4, <1>5, <1>6, <1>7, <1>8 DEF SessionNext

LEMMA IInvHolds == SessionSpec => []IInv
<1>1. SessionInit => IInv
  BY InitIsRight
<1>2. IInv /\ [SessionNext]_sessionVars => IInv'
  BY NextKeeps
<1> QED BY <1>1, <1>2, PTL DEF SessionSpec

\* What the invariant says of the reads.
LEMMA InvIsNoOrphan == IInv => NoOrphanRead
<1> SUFFICES ASSUME IInv PROVE NoOrphanRead
  OBVIOUS
<1>1. ASSUME NEW running \in DOMAIN reads
      PROVE  /\ running[1] \in held /\ running[1][1] \in mounted
             /\ slot[SlotOf(running)] = running
             /\ Older(running) => loader[running[1][1]] = running[1][2]
  <2>1. running[1] \in held /\ slot[SlotOf(running)] = running
    BY DEF IInv, RunsHeld
  <2>2. running[1][1] \in mounted /\ (running[1][2] = 0 \/ running[1][2] = loader[running[1][1]])
    BY <2>1 DEF IInv, HeldByMounts
  <2> QED BY <2>1, <2>2 DEF Older
<1>2. base # NoBase => mounted # {}
  BY DEF IInv, BaseOfMounted
<1> QED BY <1>1, <1>2 DEF NoOrphanRead

\* And of the owner of Home.
LEMMA InvIsOneReader == IInv => HomeOwnerHasOneReader
<1> SUFFICES ASSUME IInv, tab = "home"
             PROVE  /\ Cardinality(DOMAIN reads) <= 1
                    /\ entry # NoEntry <=> opened \in mounted
                    /\ entry # NoEntry =>
                         /\ entry.generation = opened
                         /\ DOMAIN reads # {} => entry.busy
                         /\ entry.busy /\ entry.input # NoBase => DOMAIN reads # {}
  BY DEF HomeOwnerHasOneReader
<1>1. Cardinality(DOMAIN reads) <= 1
  <2>1. CASE DOMAIN reads = {}
    <3>1. Cardinality(DOMAIN reads) = 0
      BY <2>1, FS_EmptySet
    <3> QED BY <3>1
  <2>2. CASE DOMAIN reads # {}
    <3>1. PICK running \in DOMAIN reads : TRUE
      BY <2>2
    <3>2. DOMAIN reads = {running}
      BY HomeHasOneRead
    <3>3. Cardinality(DOMAIN reads) = 1
      BY <3>2, FS_Singleton
    <3> QED BY <3>3
  <2> QED BY <2>1, <2>2
<1>2. /\ entry # NoEntry <=> opened \in mounted
      /\ entry # NoEntry => entry.generation = opened
      /\ \A r \in DOMAIN reads : entry.busy
      /\ entry # NoEntry /\ entry.busy /\ entry.input # NoBase => DOMAIN reads # {}
  BY DEF IInv, OwnerInv
<1> QED BY <1>1, <1>2

(* Every variable of a session keeps its type, whatever the tab.           *)
THEOREM SessionTypesHold == SessionSpec => []SessionTypeOK
<1>1. IInv => SessionTypeOK
  BY DEF IInv
<1> QED BY <1>1, IInvHolds, PTL

(* No relay read outlives its request: what runs is in the slot its lease  *)
(* cancels, the lease is held by a mount whose view is there, and an older *)
(* page is the one the loader of its mount would release.                  *)
THEOREM ReadsAreHeld == SessionSpec => []NoOrphanRead
BY InvIsNoOrphan, IInvHolds, PTL

(* The owner of Home is that of its last mount and has one reader; it is   *)
(* busy while that reader works and not after it.                          *)
THEOREM HomeHasOneReader == SessionSpec => []HomeOwnerHasOneReader
BY InvIsOneReader, IInvHolds, PTL

-----------------------------------------------------------------------------
(* Pages of a search *)

SearchTypes ==
    /\ stored \subseteq Posts /\ steady \subseteq stored
    /\ found \subseteq Posts /\ fetched \subseteq Posts /\ listed \subseteq Posts
    /\ phase \in {"open", "querying", "fetching", "failed"}
    /\ phase = "querying" => fetched = {}
    /\ phase = "open" => found = {}

\* The cursor is the oldest row of the window.
CursorIsOldest == cursor = {p \in listed : \A q \in listed \ {p} : Newer(q, p)}

\* The events a page is about to show form an unbroken run from the cursor on:
\* a steady match that is not among them is older than each of them.
PageIsUnbroken ==
    phase = "fetching" \/ (phase = "querying" /\ asked # {}) =>
        \A p \in steady : Matches(p) /\ BeforeCursor(p) =>
            p \in found \cup fetched \/ \A q \in found \cup fetched : Newer(q, p)

SearchInv == SearchTypes /\ CursorIsOldest /\ PageIsUnbroken /\ PagesLeaveNoGap

LEMMA NewerIsOrder ==
  /\ \A p, q \in Posts : p # q => Newer(p, q) \/ Newer(q, p)
  /\ \A p, q, x \in Posts : Newer(p, q) /\ Newer(q, x) => Newer(p, x)
  /\ \A p, q \in Posts : Newer(p, q) => ~Newer(q, p) /\ p # q
BY PostsAssumption DEF Newer

LEMMA PageLimits == Limit \in Nat \ {0} /\ RowLimit \in Nat
<1>1. Limit \in Nat \ {0} /\ RowFactor * Limit \in Nat
  BY SearchAssumption DEF Limit
<1> QED BY <1>1, SearchAssumption DEF RowLimit

\* Counting what is newer: an event that is newer than one of the first n is one
\* of the first n itself.
LEMMA NewestIsUnbroken ==
  ASSUME NEW S \in SUBSET Posts, NEW n \in Nat,
         NEW p \in S, NEW q \in Newest(S, n), ~Newer(q, p)
  PROVE  p \in Newest(S, n)
<1>1. p = q \/ Newer(p, q)
  BY NewerIsOrder DEF Newest
<1>2. CASE p = q
  BY <1>2
<1>3. CASE Newer(p, q)
  <2> DEFINE above(x) == {y \in S : Newer(y, x)}
  <2>1. above(p) \subseteq above(q)
    BY <1>3, NewerIsOrder DEF Newest
  <2>2. IsFiniteSet(above(q))
    BY PostsAssumption, FS_Subset
  <2>3. Cardinality(above(p)) <= Cardinality(above(q))
    BY <2>1, <2>2, FS_Subset
  <2>4. Cardinality(above(p)) \in Nat /\ Cardinality(above(q)) \in Nat
    BY <2>1, <2>2, FS_Subset, FS_CardinalityType
  <2>5. Cardinality(above(q)) < n
    BY DEF Newest
  <2>6. Cardinality(above(p)) < n
    BY <2>3, <2>4, <2>5
  <2> QED BY <2>6 DEF Newest
<1> QED BY <1>1, <1>2, <1>3

\* by_token_before: the rows are counted, and what they belong to is unbroken.
LEMMA RowsAreUnbroken ==
  ASSUME stored \subseteq Posts, NEW t, NEW p \in stored, Places(p, t) # {},
         BeforeCursor(p), NEW q \in RowsFor(t), ~Newer(q, p)
  PROVE  p \in RowsFor(t)
<1> DEFINE with     == {x \in stored : Places(x, t) # {} /\ BeforeCursor(x)}
           all      == with \X (1..MaxEventTokens)
           Above(x) == {r \in all : Newer(r[1], x) /\ r[2] \in Places(r[1], t)}
<1>1. RowsFor(t) = {x \in with : Cardinality(Above(x)) < RowLimit}
  BY DEF RowsFor
<1>2. with \subseteq Posts /\ p \in with /\ q \in with
  BY <1>1
<1>3. p = q \/ Newer(p, q)
  BY <1>2, NewerIsOrder
<1>4. CASE p = q
  BY <1>4
<1>5. CASE Newer(p, q)
  <2>1. IsFiniteSet(all)
    <3>1. IsFiniteSet(with)
      BY <1>2, PostsAssumption, FS_Subset
    <3>2. IsFiniteSet(1..MaxEventTokens)
      <4>1. 1 \in Int /\ MaxEventTokens \in Int
        BY SearchAssumption
      <4> QED BY <4>1, FS_Interval
    <3> HIDE DEF with
    <3> QED BY <3>1, <3>2, FS_Product
  <2>2. \A r \in all : r[1] \in Posts
    BY <1>2
  <2>3. Above(p) \subseteq Above(q)
    BY <1>2, <1>5, <2>2, NewerIsOrder
  <2>4. IsFiniteSet(Above(q)) /\ IsFiniteSet(Above(p))
    BY <2>1, FS_Subset
  <2>5. Cardinality(Above(p)) <= Cardinality(Above(q))
    BY <2>3, <2>4, FS_Subset
  <2>6. Cardinality(Above(p)) \in Nat /\ Cardinality(Above(q)) \in Nat
    BY <2>4, FS_CardinalityType
  <2>7. Cardinality(Above(q)) < RowLimit
    BY <1>1
  <2>8. Cardinality(Above(p)) < RowLimit
    BY <2>5, <2>6, <2>7, PageLimits
  <2> QED BY <1>1, <1>2, <2>8
<1> QED BY <1>3, <1>4, <1>5

LEMMA QueryTokenSearchInv ==
  ASSUME SearchInv, QueryToken PROVE SearchInv'
<1>1. PICK t \in QueryTokens \ asked :
        LET both == IF asked = {} THEN RowsFor(t) ELSE found \cap RowsFor(t)
            last == QueryTokens = asked \cup {t}
        IN  /\ asked' = asked \cup {t}
            /\ found' = IF last THEN Newest(both, Limit) ELSE both
            /\ phase' = IF last THEN "fetching" ELSE "querying"
  BY DEF QueryToken
<1> DEFINE both == IF asked = {} THEN RowsFor(t) ELSE found \cap RowsFor(t)
<1>2. /\ phase = "querying" /\ fetched = {} /\ stored \subseteq Posts
      /\ steady \subseteq stored
      /\ UNCHANGED <<stored, steady, fetched, cursor, listed>>
  BY DEF QueryToken, SearchInv, SearchTypes
<1>3. both \subseteq Posts
  BY <1>2 DEF RowsFor
<1>4. ASSUME NEW p \in steady, Matches(p), BeforeCursor(p)
      PROVE  p \in both \/ \A q \in both : Newer(q, p)
  <2>1. p \in stored /\ Places(p, t) # {}
    BY <1>2, <1>4 DEF Matches
  <2>2. p \in RowsFor(t) \/ \A q \in RowsFor(t) : Newer(q, p)
    BY <1>2, <1>4, <2>1, RowsAreUnbroken
  <2>3. asked # {} => p \in found \/ \A q \in found : Newer(q, p)
    BY <1>2, <1>4 DEF SearchInv, PageIsUnbroken
  <2> QED BY <2>2, <2>3
<1>5. found' = both \/ found' = Newest(both, Limit)
  BY <1>1
<1> HIDE DEF both
<1>6. ASSUME NEW p \in steady, Matches(p), BeforeCursor(p)
      PROVE  p \in found' \/ \A q \in found' : Newer(q, p)
  <2>1. CASE found' = both
    BY <1>4, <1>6, <2>1
  <2>2. CASE found' = Newest(both, Limit)
    <3>1. p \in both => p \in found' \/ \A q \in found' : Newer(q, p)
      BY <1>3, <2>2, PageLimits, NewestIsUnbroken
    <3>2. found' \subseteq both
      BY <2>2 DEF Newest
    <3> QED BY <1>4, <1>6, <3>1, <3>2
  <2> QED BY <1>5, <2>1, <2>2
<1>7. SearchTypes'
  <2>1. found' \subseteq Posts
    BY <1>3, <1>5 DEF Newest
  <2>2. phase' \in {"querying", "fetching"}
    BY <1>1
  <2> QED BY <1>2, <2>1, <2>2 DEF SearchInv, SearchTypes
<1>8. PageIsUnbroken'
  BY <1>2, <1>6 DEF PageIsUnbroken, Matches, BeforeCursor
<1> QED BY <1>2, <1>7, <1>8 DEF SearchInv, CursorIsOldest, PagesLeaveNoGap, Matches, BeforeCursor

LEMMA FetchEventSearchInv ==
  ASSUME SearchInv, FetchEvent PROVE SearchInv'
<1>1. PICK p \in Newest(found, 1) :
        /\ found' = found \ {p} /\ fetched' = fetched \cup ({p} \cap stored)
  BY DEF FetchEvent
<1>2. /\ phase = "fetching" /\ UNCHANGED <<stored, steady, phase, cursor, listed>>
  BY DEF FetchEvent
<1>3. p \in found
  BY DEF Newest
<1>4. SearchTypes'
  BY <1>1, <1>2, <1>3 DEF SearchInv, SearchTypes
<1>5. PageIsUnbroken'
  <2> SUFFICES ASSUME NEW x \in steady, Matches(x), BeforeCursor(x)
               PROVE  \/ x \in found' \cup fetched'
                      \/ \A q \in found' \cup fetched' : Newer(q, x)
    BY <1>2 DEF PageIsUnbroken, Matches, BeforeCursor
  <2>1. x \in found \cup fetched \/ \A q \in found \cup fetched : Newer(q, x)
    BY <1>2 DEF SearchInv, PageIsUnbroken
  <2>2. x \in stored
    BY DEF SearchInv, SearchTypes
  <2>3. found' \cup fetched' \subseteq found \cup fetched
    BY <1>1, <1>3
  <2>4. x \in found \cup fetched => x \in found' \cup fetched'
    BY <1>1, <2>2
  <2> QED BY <2>1, <2>3, <2>4
<1> QED BY <1>2, <1>4, <1>5 DEF SearchInv, CursorIsOldest, PagesLeaveNoGap, Matches, BeforeCursor

\* The page is shown: what is not older than its last row is in the window.
LEMMA FinishPageSearchInv ==
  ASSUME SearchInv, FinishPage PROVE SearchInv'
<1> DEFINE rows == {p \in fetched : p.shown}
           part == Newest(rows, PageSize)
           next == listed \cup part
<1>1. /\ phase = "fetching" /\ found = {} /\ phase' = "open" /\ fetched' = {}
      /\ listed' = next
      /\ cursor' = {p \in next : \A q \in next \ {p} : Newer(q, p)}
      /\ UNCHANGED <<stored, steady, found>>
  BY DEF FinishPage
<1>2. /\ rows \subseteq Posts /\ part \subseteq rows /\ listed \subseteq Posts
      /\ steady \subseteq Posts
  BY DEF SearchInv, SearchTypes, Newest
<1>3. SearchTypes' /\ CursorIsOldest' /\ PageIsUnbroken'
  BY <1>1, <1>2 DEF SearchInv, SearchTypes, CursorIsOldest, PageIsUnbroken
<1>4. ASSUME NEW p \in steady, Matches(p), NEW c \in cursor', ~Newer(c, p), p \notin listed
      PROVE  p \in part
  <2>1. BeforeCursor(p)
    <3>1. cursor = {} => BeforeCursor(p)
      BY DEF BeforeCursor
    <3> QED BY <1>4, <3>1 DEF SearchInv, PagesLeaveNoGap
  <2>2. c \notin listed
    <3>1. c \in listed => c \in cursor
      BY <1>1 DEF SearchInv, CursorIsOldest
    <3> QED BY <1>4, <2>1, <3>1 DEF BeforeCursor
  <2>3. c \in part /\ c \in fetched
    BY <1>1, <1>2, <2>2
  <2>4. p \in fetched
    BY <1>1, <1>4, <2>1, <2>3 DEF SearchInv, PageIsUnbroken
  <2>5. p \in rows
    BY <1>4, <2>4 DEF Matches
  <2> HIDE DEF rows
  <2> QED BY <1>2, <1>4, <2>3, <2>5, SearchAssumption, NewestIsUnbroken
<1>5. PagesLeaveNoGap'
  <2> HIDE DEF part
  <2> SUFFICES ASSUME NEW p \in steady, Matches(p), ~BeforeCursor(p)'
               PROVE  p \in listed'
    BY <1>1 DEF PagesLeaveNoGap, Matches
  <2>1. PICK c \in cursor' : ~Newer(c, p)
    BY DEF BeforeCursor
  <2> QED BY <1>1, <1>4, <2>1
<1> QED BY <1>3, <1>5 DEF SearchInv

\* Between the calls of a search others may store and delete events, and any
\* page may fail and be asked for again: the rows shown have no gap.
THEOREM SearchLeavesNoGap == SearchSpec => []PagesLeaveNoGap
<1>1. SearchInit => SearchInv
  BY DEF SearchInit, SearchInv, SearchTypes, CursorIsOldest, PageIsUnbroken,
         PagesLeaveNoGap, BeforeCursor
<1>2. SearchInv /\ [SearchNext]_searchVars => SearchInv'
  <2> SUFFICES ASSUME SearchInv, [SearchNext]_searchVars PROVE SearchInv'
    OBVIOUS
  <2> USE DEF SearchInv, SearchTypes, CursorIsOldest, PageIsUnbroken, PagesLeaveNoGap,
              Matches, BeforeCursor
  <2>1. CASE SaveEvent
    <3>1. /\ stored \subseteq stored' /\ stored' \subseteq Posts
          /\ UNCHANGED <<steady, phase, pageVars, cursor, listed>>
      BY <2>1 DEF SaveEvent
    <3> QED BY <3>1 DEF pageVars
  <2>2. CASE DeleteEvent
    <3>1. /\ stored' \subseteq stored /\ steady' \subseteq steady /\ steady' \subseteq stored'
          /\ UNCHANGED <<phase, pageVars, cursor, listed>>
      BY <2>2 DEF DeleteEvent
    <3> QED BY <3>1 DEF pageVars
  <2>3. CASE RequestOlder \/ RetryOlder
    <3>1. /\ phase' \in {"querying", "fetching"} /\ asked' = {} /\ found' = {}
          /\ fetched' = {} /\ UNCHANGED <<stored, steady, cursor, listed>>
      BY <2>3 DEF RequestOlder, RetryOlder, StartPage
    <3> QED BY <3>1
  <2>4. CASE FailPage
    <3>1. /\ phase' = "failed" /\ found' = {} /\ fetched' = {}
          /\ UNCHANGED <<stored, steady, cursor, listed>>
      BY <2>4 DEF FailPage
    <3> QED BY <3>1
  <2>5. CASE UNCHANGED searchVars
    BY <2>5 DEF searchVars
  <2> QED BY <2>1, <2>2, <2>3, <2>4, <2>5, QueryTokenSearchInv, FetchEventSearchInv,
             FinishPageSearchInv DEF SearchNext
<1>3. SearchInv => PagesLeaveNoGap
  BY DEF SearchInv
<1> QED BY <1>1, <1>2, <1>3, PTL DEF SearchSpec

-----------------------------------------------------------------------------
(* Public chat: a list in order *)

Ahead(S, before, x) == {y \in S : <<y, x>> \in before}

TotalOn(S, before) ==
    /\ \A x \in S : <<x, x>> \notin before
    /\ \A x, y \in S : x # y => <<x, y>> \in before \/ <<y, x>> \in before
    /\ \A x, y, z \in S : <<x, y>> \in before /\ <<y, z>> \in before => <<x, z>> \in before

\* Of a finite set with a total order every element has its own place, and
\* every place is taken.
LEMMA PlacesAreTaken ==
    ASSUME NEW S, IsFiniteSet(S), NEW before, TotalOn(S, before)
    PROVE  /\ \A x, y \in S : Cardinality(Ahead(S, before, x)) = Cardinality(Ahead(S, before, y)) => x = y
           /\ \A k \in 1..Cardinality(S) : \E x \in S : Cardinality(Ahead(S, before, x)) = k - 1
           /\ \A x \in S : Cardinality(Ahead(S, before, x)) + 1 \in 1..Cardinality(S)
<1> DEFINE A(x) == Ahead(S, before, x)
<1>1. \A x \in S : A(x) \in SUBSET S /\ x \notin A(x)
  BY DEF Ahead, TotalOn
<1>2. Cardinality(S) \in Nat
  BY FS_CardinalityType
<1>3. ASSUME NEW x \in S
      PROVE  IsFiniteSet(A(x)) /\ Cardinality(A(x)) \in Nat /\ Cardinality(A(x)) < Cardinality(S)
  <2>1. IsFiniteSet(A(x)) /\ Cardinality(A(x)) <= Cardinality(S) /\ Cardinality(A(x)) # Cardinality(S)
    BY <1>1, FS_Subset
  <2>2. Cardinality(A(x)) \in Nat
    BY <2>1, FS_CardinalityType
  <2> QED BY <1>2, <2>1, <2>2
<1>4. ASSUME NEW x \in S, NEW y \in S, <<x, y>> \in before
      PROVE  Cardinality(A(x)) # Cardinality(A(y))
  <2>1. A(x) \in SUBSET A(y) /\ x \in A(y) /\ x \notin A(x)
    BY <1>4 DEF Ahead, TotalOn
  <2>2. IsFiniteSet(A(y)) /\ A(x) # A(y)
    BY <1>3, <2>1
  <2> HIDE DEF A
  <2> QED BY <2>1, <2>2, FS_Subset
<1>5. ASSUME NEW x \in S, NEW y \in S, Cardinality(A(x)) = Cardinality(A(y)) PROVE x = y
  BY <1>4, <1>5 DEF TotalOn
<1> DEFINE P == 1..Cardinality(S)
           f == [x \in S |-> Cardinality(A(x)) + 1]
<1>6. \A x \in S : Cardinality(A(x)) + 1 \in P
  BY <1>2, <1>3
<1>7. IsFiniteSet(P) /\ Cardinality(P) = Cardinality(S)
  BY <1>2, FS_Interval
<1>8. f \in Injection(S, P)
  <2>1. f \in [S -> P]
    BY <1>6
  <2>2. ASSUME NEW x \in S, NEW y \in S, f[x] = f[y] PROVE x = y
    <3>1. Cardinality(A(x)) \in Nat /\ Cardinality(A(y)) \in Nat
      BY <1>3
    <3>2. Cardinality(A(x)) + 1 = Cardinality(A(y)) + 1
      BY <2>2
    <3> HIDE DEF A
    <3> QED BY <1>5, <3>1, <3>2
  <2> QED BY <2>1, <2>2 DEF Injection, IsInjective
<1>9. f \in Surjection(S, P)
  <2> HIDE DEF f, P
  <2> QED BY <1>7, <1>8, FS_Injection
<1>10. ASSUME NEW k \in P PROVE \E x \in S : Cardinality(A(x)) = k - 1
  <2>1. PICK x \in S : f[x] = k
    BY <1>9 DEF Surjection
  <2>2. Cardinality(A(x)) \in Nat /\ k = Cardinality(A(x)) + 1
    BY <1>3, <2>1
  <2> QED BY <2>2
<1> QED BY <1>5, <1>6, <1>10

Each(list)    == {list[i] : i \in DOMAIN list}
NoTwins(list) == \A i, j \in DOMAIN list : list[i].id = list[j].id => i = j

\* Each element of list stands in sorted behind those that are before it.
Placed(sorted, list, before) ==
    /\ sorted = [k \in DOMAIN list |-> sorted[k]]
    /\ \A k \in DOMAIN list : \E i \in DOMAIN list :
           sorted[k] = list[i] /\ Cardinality(Ahead(DOMAIN list, before, i)) = k - 1

LEMMA InPlacePermutes ==
    ASSUME NEW S, NEW list \in Seq(S), NoTwins(list),
           NEW before, TotalOn(DOMAIN list, before), NEW sorted, Placed(sorted, list, before)
    PROVE  sorted \in Seq(S) /\ NoTwins(sorted) /\ Each(sorted) = Each(list)
<1> DEFINE n == Len(list)
           D == DOMAIN list
           A(i) == Ahead(D, before, i)
<1>1. n \in Nat /\ D = 1..n /\ \A i \in 1..n : list[i] \in S
  OBVIOUS
<1>2. IsFiniteSet(D) /\ Cardinality(D) = n
  <2>1. IsFiniteSet(1..n) /\ Cardinality(1..n) = IF 1 > n THEN 0 ELSE n - 1 + 1
    BY <1>1, FS_Interval
  <2> QED BY <1>1, <2>1
<1>a. TotalOn(D, before)
  OBVIOUS
<1>b. \A k \in D : \E i \in D : sorted[k] = list[i] /\ Cardinality(A(i)) = k - 1
  BY DEF Placed
<1>c. DOMAIN sorted = D /\ sorted = [k \in D |-> sorted[k]]
  BY DEF Placed
<1> HIDE DEF D, n
<1>3. /\ \A x, y \in 1..n : Cardinality(A(x)) = Cardinality(A(y)) => x = y
      /\ \A x \in 1..n : Cardinality(A(x)) + 1 \in 1..n
  BY <1>1, <1>2, <1>a, PlacesAreTaken
<1>4. \A x \in 1..n : Cardinality(A(x)) \in Nat
  <2>1. ASSUME NEW x \in 1..n PROVE A(x) \in SUBSET D
    BY DEF Ahead
  <2>2. ASSUME NEW x \in 1..n PROVE IsFiniteSet(A(x))
    BY <1>2, <2>1, FS_Subset
  <2> QED BY <2>2, FS_CardinalityType
<1>5. DOMAIN sorted = 1..n
  BY <1>1, <1>c
<1>6. \A k \in 1..n : \E i \in 1..n : sorted[k] = list[i] /\ Cardinality(A(i)) = k - 1
  BY <1>1, <1>b
<1> HIDE DEF A
<1>7. sorted \in Seq(S)
  <2>1. \A k \in 1..n : sorted[k] \in S
    BY <1>1, <1>6
  <2>2. sorted \in [1..n -> S]
    BY <1>1, <1>c, <2>1
  <2> QED BY <1>1, <2>2
<1>8. NoTwins(sorted)
  <2>1. SUFFICES ASSUME NEW k \in 1..n, NEW l \in 1..n, sorted[k].id = sorted[l].id PROVE k = l
    BY <1>5 DEF NoTwins
  <2>2. PICK i \in 1..n : sorted[k] = list[i] /\ Cardinality(A(i)) = k - 1
    BY <1>6
  <2>3. PICK j \in 1..n : sorted[l] = list[j] /\ Cardinality(A(j)) = l - 1
    BY <1>6
  <2>4. i = j
    BY <1>1, <2>1, <2>2, <2>3 DEF NoTwins, D
  <2> QED BY <1>1, <2>2, <2>3, <2>4
<1>9. Each(sorted) = Each(list)
  <2>1. ASSUME NEW k \in 1..n PROVE sorted[k] \in Each(list)
    BY <1>1, <1>6 DEF Each, D
  <2>2. ASSUME NEW i \in 1..n PROVE list[i] \in Each(sorted)
    <3>1. Cardinality(A(i)) + 1 \in 1..n /\ Cardinality(A(i)) \in Nat
      BY <1>3, <1>4
    <3>2. PICK j \in 1..n : /\ sorted[Cardinality(A(i)) + 1] = list[j]
                            /\ Cardinality(A(j)) = (Cardinality(A(i)) + 1) - 1
      BY <1>6, <3>1
    <3>3. j = i
      BY <1>3, <3>1, <3>2
    <3> QED BY <1>5, <3>1, <3>2, <3>3 DEF Each
  <2> QED BY <1>1, <1>5, <2>1, <2>2 DEF Each, D
<1> QED BY <1>7, <1>8, <1>9

-----------------------------------------------------------------------------
ChannelRows == [id : Nat, by : {e.by : e \in ChatEvents}, at : Nat, meta : Nat, metaAt : Nat,
                lastAt : Nat, hints : {e.hints : e \in ChatEvents} \cup {<<>>}]
MessageRows == [id : Nat, channel : {e.target : e \in ChatEvents},
                by : {e.by : e \in ChatEvents}, at : Nat, hidden : BOOLEAN, muted : BOOLEAN]

LEMMA ChannelsInPlace ==
    ASSUME NEW cs \in Seq(ChannelRows), NoTwins(cs)
    PROVE  /\ SortChannels(cs) \in Seq(ChannelRows) /\ NoTwins(SortChannels(cs))
           /\ Each(SortChannels(cs)) = Each(cs)
<1> DEFINE D == DOMAIN cs
           before == {p \in D \X D : ChannelBefore(cs[p[1]], cs[p[2]])}
           sorted == SortChannels(cs)
<1>1. D = 1..Len(cs) /\ Len(cs) \in Nat /\ \A i \in D : cs[i] \in ChannelRows
  OBVIOUS
<1>2. \A i \in D : Activity(cs[i]) \in Nat /\ cs[i].id \in Nat
  BY <1>1 DEF Activity, ChannelRows
<1>3. \A i, j \in D : <<i, j>> \in before <=> ChannelBefore(cs[i], cs[j])
  OBVIOUS
<1>4. \A i \in D : <<i, i>> \notin before
  BY <1>2, <1>3 DEF ChannelBefore
<1>5. \A i, j \in D : i # j => <<i, j>> \in before \/ <<j, i>> \in before
  BY <1>2, <1>3 DEF ChannelBefore, NoTwins
<1>6. \A i, j, k \in D : <<i, j>> \in before /\ <<j, k>> \in before => <<i, k>> \in before
  BY <1>2, <1>3 DEF ChannelBefore
<1>7. \A i \in D : Ahead(D, before, i) = {j \in D : ChannelBefore(cs[j], cs[i])}
  BY <1>3 DEF Ahead
<1>8. IsFiniteSet(D) /\ Cardinality(D) = Len(cs)
  <2>1. IsFiniteSet(1..Len(cs)) /\ Cardinality(1..Len(cs)) = Len(cs)
    BY <1>1, FS_Interval
  <2> QED BY <1>1, <2>1
<1>10. sorted = [k \in D |-> sorted[k]]
  BY DEF SortChannels, InPlace
<1>t. TotalOn(D, before)
  BY <1>4, <1>5, <1>6 DEF TotalOn
<1> HIDE DEF before
<1>9. \A k \in D : \E i \in D : Cardinality(Ahead(D, before, i)) = k - 1
  <2> HIDE DEF D
  <2>1. \A k \in 1..Cardinality(D) : \E i \in D : Cardinality(Ahead(D, before, i)) = k - 1
    BY <1>8, <1>t, PlacesAreTaken
  <2> QED BY <1>1, <1>8, <2>1
<1>11. ASSUME NEW k \in D
       PROVE  \E i \in D : sorted[k] = cs[i] /\ Cardinality(Ahead(D, before, i)) = k - 1
  <2> DEFINE P(i) == Cardinality({j \in D : ChannelBefore(cs[j], cs[i])}) = k - 1
  <2>1. sorted[k] = cs[CHOOSE i \in D : P(i)]
    BY DEF SortChannels, InPlace
  <2>2. \E i \in D : P(i)
    BY <1>7, <1>9
  <2>3. (CHOOSE i \in D : P(i)) \in D /\ P(CHOOSE i \in D : P(i))
    BY <2>2
  <2> QED BY <1>7, <2>1, <2>3
<1> HIDE DEF sorted
<1>12. sorted \in Seq(ChannelRows) /\ NoTwins(sorted) /\ Each(sorted) = Each(cs)
  <2>1. Placed(sorted, cs, before)
    BY <1>10, <1>11 DEF Placed
  <2> QED BY <1>t, <2>1, InPlacePermutes
<1> QED BY <1>12 DEF sorted

LEMMA MessagesInPlace ==
    ASSUME NEW ms \in Seq(MessageRows), NoTwins(ms)
    PROVE  /\ SortMessages(ms) \in Seq(MessageRows) /\ NoTwins(SortMessages(ms))
           /\ Each(SortMessages(ms)) = Each(ms)
<1> DEFINE D == DOMAIN ms
           before == {p \in D \X D : MessageBefore(ms[p[1]], ms[p[2]])}
           sorted == SortMessages(ms)
<1>1. D = 1..Len(ms) /\ Len(ms) \in Nat /\ \A i \in D : ms[i] \in MessageRows
  OBVIOUS
<1>2. \A i \in D : ms[i].at \in Nat /\ ms[i].id \in Nat
  BY <1>1 DEF MessageRows
<1>3. \A i, j \in D : <<i, j>> \in before <=> MessageBefore(ms[i], ms[j])
  OBVIOUS
<1>4. \A i \in D : <<i, i>> \notin before
  BY <1>2, <1>3 DEF MessageBefore
<1>5. \A i, j \in D : i # j => <<i, j>> \in before \/ <<j, i>> \in before
  BY <1>2, <1>3 DEF MessageBefore, NoTwins
<1>6. \A i, j, k \in D : <<i, j>> \in before /\ <<j, k>> \in before => <<i, k>> \in before
  BY <1>2, <1>3 DEF MessageBefore
<1>7. \A i \in D : Ahead(D, before, i) = {j \in D : MessageBefore(ms[j], ms[i])}
  BY <1>3 DEF Ahead
<1>8. IsFiniteSet(D) /\ Cardinality(D) = Len(ms)
  <2>1. IsFiniteSet(1..Len(ms)) /\ Cardinality(1..Len(ms)) = Len(ms)
    BY <1>1, FS_Interval
  <2> QED BY <1>1, <2>1
<1>10. sorted = [k \in D |-> sorted[k]]
  BY DEF SortMessages, InPlace
<1>t. TotalOn(D, before)
  BY <1>4, <1>5, <1>6 DEF TotalOn
<1> HIDE DEF before
<1>9. \A k \in D : \E i \in D : Cardinality(Ahead(D, before, i)) = k - 1
  <2> HIDE DEF D
  <2>1. \A k \in 1..Cardinality(D) : \E i \in D : Cardinality(Ahead(D, before, i)) = k - 1
    BY <1>8, <1>t, PlacesAreTaken
  <2> QED BY <1>1, <1>8, <2>1
<1>11. ASSUME NEW k \in D
       PROVE  \E i \in D : sorted[k] = ms[i] /\ Cardinality(Ahead(D, before, i)) = k - 1
  <2> DEFINE P(i) == Cardinality({j \in D : MessageBefore(ms[j], ms[i])}) = k - 1
  <2>1. sorted[k] = ms[CHOOSE i \in D : P(i)]
    BY DEF SortMessages, InPlace
  <2>2. \E i \in D : P(i)
    BY <1>7, <1>9
  <2>3. (CHOOSE i \in D : P(i)) \in D /\ P(CHOOSE i \in D : P(i))
    BY <2>2
  <2> QED BY <1>7, <2>1, <2>3
<1> HIDE DEF sorted
<1>12. sorted \in Seq(MessageRows) /\ NoTwins(sorted) /\ Each(sorted) = Each(ms)
  <2>1. Placed(sorted, ms, before)
    BY <1>10, <1>11 DEF Placed
  <2> QED BY <1>t, <2>1, InPlacePermutes
<1> QED BY <1>12 DEF sorted

-----------------------------------------------------------------------------
(* The inductive invariant *)

\* The metadata that met a channel, and the channel that shows the newest of it.
MetBy(id, all) == {e \in all : e.target = id}
Later(o, e)    == o.at < e.at \/ (o.at = e.at /\ o.id < e.id)
ShowsNewest(c, all) ==
    IF MetBy(c.id, all) = {} THEN c.meta = 0 /\ c.metaAt = 0
    ELSE \E e \in MetBy(c.id, all) :
             /\ c.meta = e.id /\ c.metaAt = e.at /\ c.hints = e.hints
             /\ \A o \in MetBy(c.id, all) : o = e \/ Later(o, e)

Moderated(m) == m.hidden = (m.id \in hidden) /\ m.muted = (m.by \in muted)

ChatInv ==
    /\ channels \in Seq(ChannelRows) /\ NoTwins(channels)
    /\ messages \in Seq(MessageRows) /\ NoTwins(messages)
    /\ met \subseteq ChatEvents
    /\ \A e \in met : e.target \in Known
    /\ \A c \in Each(channels) : ShowsNewest(c, met)
    /\ \A m \in Each(messages) : Moderated(m)

LEMMA ChatInvSuffices == ChatInv => NewestMetadataWins /\ ModerationHolds
<1> SUFFICES ASSUME ChatInv PROVE NewestMetadataWins /\ ModerationHolds
  OBVIOUS
<1>1. NewestMetadataWins
  <2>1. ASSUME NEW i \in DOMAIN channels, MetBy(channels[i].id, met) = {}
        PROVE  channels[i].meta = 0
    BY <2>1 DEF ChatInv, Each, ShowsNewest
  <2>2. ASSUME NEW i \in DOMAIN channels, MetBy(channels[i].id, met) # {}
        PROVE  \E e \in MetBy(channels[i].id, met) :
                  /\ channels[i].meta = e.id /\ channels[i].hints = e.hints
                  /\ \A o \in MetBy(channels[i].id, met) : <<o.at, o.id>> = <<e.at, e.id>> \/ Later(o, e)
    <3>1. ShowsNewest(channels[i], met)
      BY DEF ChatInv, Each
    <3> QED BY <2>2, <3>1 DEF ShowsNewest
  <2> QED BY <2>1, <2>2 DEF NewestMetadataWins, MetBy, Later
<1>2. ModerationHolds
  <2>1. ASSUME NEW i \in DOMAIN messages PROVE Moderated(messages[i])
    BY DEF ChatInv, Each
  <2> QED BY <2>1 DEF ModerationHolds, Moderated, BodyText
<1> QED BY <1>1, <1>2

\* The channels are sorted after each change of their rows.
LEMMA ChannelsChanged ==
    ASSUME NEW cs \in Seq(ChannelRows), NoTwins(cs), channels' = SortChannels(cs),
           \A c \in Each(cs) : ShowsNewest(c, met')
    PROVE  /\ channels' \in Seq(ChannelRows) /\ NoTwins(channels')
           /\ Each(channels') = Each(cs)
           /\ Known' = {c.id : c \in Each(cs)}
           /\ \A c \in Each(channels') : ShowsNewest(c, met')
<1>1. /\ channels' \in Seq(ChannelRows) /\ NoTwins(channels')
      /\ Each(channels') = Each(cs)
  BY ChannelsInPlace
<1>2. Known' = {c.id : c \in Each(channels')}
  BY DEF Known, Each
<1> QED BY <1>1, <1>2

LEMMA KnownIds == Known = {c.id : c \in Each(channels)}
BY DEF Known, Each

LEMMA RowsAreTyped ==
    ASSUME NEW S, NEW list \in Seq(S)
    PROVE  /\ DOMAIN list = 1..Len(list) /\ Len(list) \in Nat
           /\ \A i \in DOMAIN list : list[i] \in S
           /\ \A x \in Each(list) : x \in S
<1>1. /\ DOMAIN list = 1..Len(list) /\ Len(list) \in Nat
      /\ \A i \in DOMAIN list : list[i] \in S
  OBVIOUS
<1> QED BY <1>1 DEF Each

\* A list whose rows are changed in place keeps its ids apart.
LEMMA RowsChanged ==
    ASSUME NEW S, NEW list \in Seq(S), NoTwins(list), NEW new,
           new = [i \in DOMAIN list |-> new[i]],
           \A i \in DOMAIN list : new[i] \in S /\ new[i].id = list[i].id
    PROVE  new \in Seq(S) /\ NoTwins(new) /\ DOMAIN new = DOMAIN list
<1>1. DOMAIN list = 1..Len(list) /\ Len(list) \in Nat
  BY RowsAreTyped
<1>2. new \in [1..Len(list) -> S]
  BY <1>1
<1>3. new \in Seq(S)
  BY <1>1, <1>2
<1> QED BY <1>3 DEF NoTwins

LEMMA RowAdded ==
    ASSUME NEW S, NEW list \in Seq(S), NoTwins(list), NEW x \in S,
           \A i \in DOMAIN list : list[i].id # x.id
    PROVE  /\ Append(list, x) \in Seq(S) /\ NoTwins(Append(list, x))
           /\ Each(Append(list, x)) = Each(list) \cup {x}
<1> DEFINE n == Len(list)
           new == Append(list, x)
<1>1. n \in Nat /\ DOMAIN list = 1..n
  OBVIOUS
<1>2. /\ new \in Seq(S) /\ DOMAIN new = 1..(n + 1)
      /\ new[n + 1] = x /\ \A i \in 1..n : new[i] = list[i]
  BY <1>1, AppendProperties
<1> HIDE DEF new, n
<1>3. \A i \in 1..(n + 1) : i \in 1..n \/ i = n + 1
  BY <1>1
<1>4. NoTwins(new)
  <2>1. ASSUME NEW i \in 1..(n + 1), NEW j \in 1..(n + 1), new[i].id = new[j].id PROVE i = j
    <3>1. CASE i \in 1..n /\ j \in 1..n
      BY <1>1, <1>2, <2>1, <3>1 DEF NoTwins
    <3>2. CASE i = n + 1 \/ j = n + 1
      BY <1>1, <1>2, <1>3, <2>1, <3>2
    <3> QED BY <1>3, <3>1, <3>2
  <2> QED BY <1>2, <2>1 DEF NoTwins
<1>5. Each(new) = Each(list) \cup {x}
  <2>1. ASSUME NEW i \in 1..(n + 1) PROVE new[i] \in Each(list) \cup {x}
    BY <1>1, <1>2, <1>3 DEF Each
  <2>2. ASSUME NEW i \in 1..n PROVE list[i] \in Each(new)
    <3>1. i \in 1..(n + 1)
      BY <1>1
    <3> QED BY <1>2, <3>1 DEF Each
  <2>3. x \in Each(new)
    BY <1>1, <1>2 DEF Each
  <2> QED BY <1>1, <1>2, <2>1, <2>2, <2>3 DEF Each
<1> QED BY <1>2, <1>4, <1>5 DEF new

-----------------------------------------------------------------------------
(* What each action does to the invariant *)

LEMMA CreateKeeps ==
    ASSUME ChatInv, NEW e \in ChatEvents, MergeCreate(e)
    PROVE  ChatInv'
<1>1. /\ e.id \in Nat /\ e.at \in Nat
      /\ UNCHANGED <<messages, hidden, muted, met>>
  BY ChatAssumption DEF MergeCreate
<1>2. channels \in Seq(ChannelRows) /\ NoTwins(channels)
  BY DEF ChatInv
<1>3. \A c \in Each(channels) : ShowsNewest(c, met')
  BY <1>1 DEF ChatInv, ShowsNewest, MetBy, Later
<1> DEFINE new == FromCreate(e)
           cs == IF \E i \in DOMAIN channels : channels[i].id = e.id
                 THEN channels ELSE Append(channels, new)
<1>4. new \in ChannelRows /\ new.id = e.id /\ new.meta = 0 /\ new.metaAt = 0
  BY <1>1 DEF FromCreate, ChannelRows
<1>5. channels' = SortChannels(cs)
  BY DEF MergeCreate
<1> HIDE DEF new
<1>6. /\ cs \in Seq(ChannelRows) /\ NoTwins(cs) /\ Each(channels) \subseteq Each(cs)
      /\ \A c \in Each(cs) : ShowsNewest(c, met')
  <2>1. CASE \E i \in DOMAIN channels : channels[i].id = e.id
    BY <1>2, <1>3, <2>1
  <2>2. CASE \A i \in DOMAIN channels : channels[i].id # e.id
    <3>1. e.id \notin Known
      BY <2>2 DEF Known
    <3>2. MetBy(e.id, met') = {}
      BY <1>1, <3>1 DEF MetBy, ChatInv
    <3>3. ShowsNewest(new, met')
      BY <1>4, <3>2 DEF ShowsNewest
    <3>4. /\ cs = Append(channels, new)
          /\ Append(channels, new) \in Seq(ChannelRows) /\ NoTwins(Append(channels, new))
          /\ Each(Append(channels, new)) = Each(channels) \cup {new}
      BY <1>2, <1>4, <2>2, RowAdded
    <3> QED BY <1>3, <3>3, <3>4
  <2> QED BY <2>1, <2>2
<1> HIDE DEF cs
<1>7. /\ channels' \in Seq(ChannelRows) /\ NoTwins(channels')
      /\ Known' = {c.id : c \in Each(cs)}
      /\ \A c \in Each(channels') : ShowsNewest(c, met')
  BY <1>5, <1>6, ChannelsChanged
<1>8. \A o \in met : o.target \in Known'
  BY <1>6, <1>7, KnownIds DEF ChatInv
<1> QED BY <1>1, <1>7, <1>8 DEF ChatInv, Moderated, ChannelRows, MessageRows

LEMMA MetadataKeeps ==
    ASSUME ChatInv, NEW e \in ChatEvents, MergeMetadata(e)
    PROVE  ChatInv'
<1>1. /\ e.id \in Nat \ {0} /\ e.at \in Nat \ {0}
      /\ UNCHANGED <<messages, hidden, muted>>
      /\ \A f \in ChatEvents : f.id = e.id => f = e
      /\ \A f \in ChatEvents : f.id \in Nat \ {0} /\ f.at \in Nat \ {0}
  BY ChatAssumption DEF MergeMetadata
<1>2. /\ channels \in Seq(ChannelRows) /\ NoTwins(channels)
      /\ \A i \in DOMAIN channels : channels[i] \in ChannelRows /\ ShowsNewest(channels[i], met)
  BY RowsAreTyped DEF ChatInv, Each
<1>3. /\ met \subseteq ChatEvents /\ met' \subseteq ChatEvents
      /\ met' = IF e.target \in Known THEN met \cup {e} ELSE met
  BY DEF ChatInv, MergeMetadata, Known
<1> DEFINE Takes(c) == c.id = e.target /\ MetadataIsNewer(c, e)
           Fresh(c) == [c EXCEPT !.meta = e.id, !.metaAt = e.at, !.hints = e.hints]
           cs == [i \in DOMAIN channels |->
                     IF Takes(channels[i]) THEN Fresh(channels[i]) ELSE channels[i]]
<1>4. channels' = SortChannels(cs)
  BY DEF MergeMetadata
<1>5. ASSUME NEW c \in ChannelRows
      PROVE  /\ Fresh(c) \in ChannelRows /\ Fresh(c).id = c.id /\ Fresh(c).meta = e.id
             /\ Fresh(c).metaAt = e.at /\ Fresh(c).hints = e.hints
  BY <1>1 DEF ChannelRows
<1>6. cs = [i \in DOMAIN channels |-> cs[i]]
  OBVIOUS
<1>7. \A i \in DOMAIN channels : \/ Takes(channels[i]) /\ cs[i] = Fresh(channels[i])
                                 \/ ~Takes(channels[i]) /\ cs[i] = channels[i]
  OBVIOUS
<1> HIDE DEF cs, Fresh
<1>8. \A i \in DOMAIN channels : cs[i] \in ChannelRows /\ cs[i].id = channels[i].id
  BY <1>2, <1>5, <1>7
<1>9. cs \in Seq(ChannelRows) /\ NoTwins(cs) /\ DOMAIN cs = DOMAIN channels
  BY <1>2, <1>6, <1>8, RowsChanged
<1>10. ASSUME NEW i \in DOMAIN channels PROVE ShowsNewest(cs[i], met')
  <2> DEFINE c == channels[i]
             mine == MetBy(c.id, met)
  <2>1. c \in ChannelRows /\ ShowsNewest(c, met) /\ c.id \in Known
    BY <1>2 DEF Known
  <2> HIDE DEF c
  <2>2. mine \subseteq ChatEvents
    BY <1>3 DEF MetBy
  <2>3. CASE c.id # e.target
    <3>1. cs[i] = c
      BY <1>7, <2>3 DEF c
    <3>2. MetBy(c.id, met') = mine
      BY <1>3, <2>3 DEF MetBy
    <3> QED BY <2>1, <3>1, <3>2 DEF ShowsNewest, Later
  <2>4. CASE c.id = e.target
    <3>1. MetBy(c.id, met') = mine \cup {e}
      BY <1>3, <2>1, <2>4 DEF MetBy
    <3> HIDE DEF mine
    <3>2. CASE mine = {}
      <4>1. Takes(c)
        BY <2>1, <2>4, <3>2 DEF ShowsNewest, MetadataIsNewer, mine
      <4>2. cs[i] = Fresh(c)
        BY <1>7, <4>1 DEF c
      <4>3. cs[i].id = c.id /\ cs[i].meta = e.id /\ cs[i].metaAt = e.at /\ cs[i].hints = e.hints
        BY <1>5, <2>1, <4>2
      <4> QED BY <3>1, <3>2, <4>3 DEF ShowsNewest
    <3>3. CASE mine # {}
      <4>1. PICK w \in mine : /\ c.meta = w.id /\ c.metaAt = w.at /\ c.hints = w.hints
                              /\ \A o \in mine : o = w \/ Later(o, w)
        BY <2>1, <3>3 DEF ShowsNewest, mine
      <4>2. \A o \in mine : o.id \in Nat /\ o.at \in Nat \ {0}
        BY <1>1, <2>2
      <4>3. CASE Takes(c)
        <5>1. cs[i].id = c.id /\ cs[i].meta = e.id /\ cs[i].metaAt = e.at /\ cs[i].hints = e.hints
          BY <1>5, <1>7, <2>1, <4>3 DEF c
        <5>2. Later(w, e)
          BY <1>1, <4>1, <4>2, <4>3 DEF MetadataIsNewer, Later
        <5>3. \A o \in mine \cup {e} : o = e \/ Later(o, e)
          BY <1>1, <4>1, <4>2, <5>2 DEF Later
        <5> QED BY <3>1, <5>1, <5>3 DEF ShowsNewest, Later
      <4>4. CASE ~Takes(c)
        <5>1. cs[i] = c
          BY <1>7, <4>4 DEF c
        <5>2. e = w \/ Later(e, w)
          <6>1. e.at < w.at \/ (e.at = w.at /\ e.id <= w.id)
            BY <1>1, <2>4, <4>1, <4>2, <4>4 DEF MetadataIsNewer
          <6>2. w \in ChatEvents
            BY <2>2
          <6> QED BY <1>1, <4>2, <6>1, <6>2 DEF Later
        <5>3. \A o \in mine \cup {e} : o = w \/ Later(o, w)
          BY <4>1, <5>2
        <5> QED BY <3>1, <4>1, <5>1, <5>3 DEF ShowsNewest, Later
      <4> QED BY <4>3, <4>4
    <3> QED BY <3>2, <3>3
  <2> QED BY <2>3, <2>4
<1>11. \A c \in Each(cs) : ShowsNewest(c, met')
  BY <1>9, <1>10 DEF Each
<1>12. /\ channels' \in Seq(ChannelRows) /\ NoTwins(channels')
       /\ Known' = {c.id : c \in Each(cs)}
       /\ \A c \in Each(channels') : ShowsNewest(c, met')
  BY <1>4, <1>9, <1>11, ChannelsChanged
<1>13. Known' = Known
  <2>1. {c.id : c \in Each(cs)} = {cs[i].id : i \in DOMAIN channels}
    BY <1>9 DEF Each
  <2> QED BY <1>8, <1>12, <2>1 DEF Known
<1>14. \A o \in met' : o.target \in Known'
  BY <1>3, <1>13 DEF ChatInv
<1> QED BY <1>1, <1>3, <1>12, <1>14 DEF ChatInv, Moderated, ChannelRows, MessageRows

LEMMA MessageKeeps ==
    ASSUME ChatInv, NEW e \in ChatEvents, MergeMessage(e)
    PROVE  ChatInv'
<1>1. e.id \in Nat /\ e.at \in Nat /\ UNCHANGED <<hidden, muted, met>>
  BY ChatAssumption DEF MergeMessage
<1>2. /\ channels \in Seq(ChannelRows) /\ NoTwins(channels)
      /\ \A i \in DOMAIN channels : channels[i] \in ChannelRows /\ ShowsNewest(channels[i], met)
      /\ messages \in Seq(MessageRows) /\ NoTwins(messages)
      /\ \A i \in DOMAIN messages : messages[i] \in MessageRows /\ Moderated(messages[i])
  BY RowsAreTyped DEF ChatInv, Each
<1> DEFINE cs == WithLastMessage(e)
           m  == FromEvent(e)
           ms == Upserted(m)
<1>3. channels' = SortChannels(cs) /\ messages' = SortMessages(ms)
  BY DEF MergeMessage
<1>4. cs = [i \in DOMAIN channels |-> cs[i]]
  BY DEF WithLastMessage
<1>5. ASSUME NEW i \in DOMAIN channels
      PROVE  /\ cs[i] \in ChannelRows /\ cs[i].id = channels[i].id
             /\ ShowsNewest(cs[i], met')
  <2> DEFINE c == channels[i]
             d == [c EXCEPT !.lastAt = e.at]
  <2>1. c \in ChannelRows /\ ShowsNewest(c, met)
    BY <1>2
  <2>2. /\ d \in ChannelRows /\ d.id = c.id /\ d.meta = c.meta
        /\ d.metaAt = c.metaAt /\ d.hints = c.hints
    BY <1>1, <2>1 DEF ChannelRows
  <2>3. cs[i] = c \/ cs[i] = d
    BY DEF WithLastMessage
  <2> HIDE DEF c, d
  <2>4. cs[i] \in ChannelRows /\ cs[i].id = c.id
    BY <2>1, <2>2, <2>3
  <2>5. ShowsNewest(d, met)
    BY <2>1, <2>2 DEF ShowsNewest
  <2> QED BY <1>1, <2>1, <2>3, <2>4, <2>5 DEF c
<1>6. m \in MessageRows /\ m.id = e.id
      /\ m.hidden = (m.id \in hidden) /\ m.muted = (m.by \in muted)
  BY <1>1 DEF FromEvent, MessageRows
<1> HIDE DEF cs, m
<1>7. cs \in Seq(ChannelRows) /\ NoTwins(cs) /\ DOMAIN cs = DOMAIN channels
  BY <1>2, <1>4, <1>5, RowsChanged
<1>8. /\ channels' \in Seq(ChannelRows) /\ NoTwins(channels')
      /\ Known' = {c.id : c \in Each(cs)}
      /\ \A c \in Each(channels') : ShowsNewest(c, met')
  <2>1. \A c \in Each(cs) : ShowsNewest(c, met')
    BY <1>5, <1>7 DEF Each
  <2> QED BY <1>3, <1>7, <2>1, ChannelsChanged
<1>9. Known' = Known
  <2>1. {c.id : c \in Each(cs)} = {cs[i].id : i \in DOMAIN channels}
    BY <1>7 DEF Each
  <2> QED BY <1>5, <1>8, <2>1 DEF Known
<1>10. ms \in Seq(MessageRows) /\ NoTwins(ms) /\ Each(ms) \subseteq Each(messages) \cup {m}
  <2>1. CASE \E i \in DOMAIN messages : messages[i].id = m.id
    <3> DEFINE new == [i \in DOMAIN messages |->
                          IF messages[i].id = m.id THEN m ELSE messages[i]]
    <3>1. ms = new
      BY <2>1 DEF Upserted
    <3>2. \A i \in DOMAIN messages : new[i] \in MessageRows /\ new[i].id = messages[i].id
      BY <1>2, <1>6
    <3>3. \A i \in DOMAIN messages : new[i] \in Each(messages) \cup {m}
      BY DEF Each
    <3>4. new = [i \in DOMAIN messages |-> new[i]]
      OBVIOUS
    <3> HIDE DEF new
    <3>5. new \in Seq(MessageRows) /\ NoTwins(new) /\ DOMAIN new = DOMAIN messages
      BY <1>2, <3>2, <3>4, RowsChanged
    <3> QED BY <3>1, <3>3, <3>5 DEF Each
  <2>2. CASE \A i \in DOMAIN messages : messages[i].id # m.id
    <3>1. ms = Append(messages, m)
      BY <2>2 DEF Upserted
    <3> QED BY <1>2, <1>6, <2>2, <3>1, RowAdded
  <2> QED BY <2>1, <2>2
<1> HIDE DEF ms
<1>11. /\ messages' \in Seq(MessageRows) /\ NoTwins(messages')
       /\ Each(messages') \subseteq Each(messages) \cup {m}
  BY <1>3, <1>10, MessagesInPlace
<1>12. ASSUME NEW x \in Each(messages')
       PROVE  x.hidden = (x.id \in hidden') /\ x.muted = (x.by \in muted')
  <2>1. CASE x = m
    BY <1>1, <1>6, <2>1
  <2>2. CASE x \in Each(messages)
    BY <1>1, <2>2 DEF ChatInv, Moderated
  <2> QED BY <1>11, <2>1, <2>2
<1>13. \A o \in met' : o.target \in Known'
  BY <1>1, <1>9 DEF ChatInv
<1>14. met' \subseteq ChatEvents
  BY <1>1 DEF ChatInv
<1> QED BY <1>8, <1>11, <1>12, <1>13, <1>14 DEF ChatInv, Moderated, ChannelRows, MessageRows

\* A hide or a mute goes over the loaded messages.
LEMMA FlagsKeep ==
    ASSUME ChatInv, UNCHANGED <<channels, met>>, NEW new, messages' = new,
           new = [i \in DOMAIN messages |-> new[i]],
           \A i \in DOMAIN messages :
               /\ new[i] \in MessageRows /\ new[i].id = messages[i].id
               /\ new[i].hidden = (new[i].id \in hidden') /\ new[i].muted = (new[i].by \in muted')
    PROVE  ChatInv'
<1>1. messages \in Seq(MessageRows) /\ NoTwins(messages)
  BY DEF ChatInv
<1>2. new \in Seq(MessageRows) /\ NoTwins(new) /\ DOMAIN new = DOMAIN messages
  BY <1>1, RowsChanged
<1>3. \A x \in Each(new) : x.hidden = (x.id \in hidden') /\ x.muted = (x.by \in muted')
  BY <1>2 DEF Each
<1>4. Known' = Known
  BY DEF Known
<1>5. /\ channels' \in Seq(ChannelRows) /\ NoTwins(channels')
      /\ met' \subseteq ChatEvents /\ \A e \in met' : e.target \in Known'
      /\ \A c \in Each(channels') : ShowsNewest(c, met')
  BY <1>4 DEF ChatInv
<1> QED BY <1>2, <1>3, <1>5 DEF ChatInv, Moderated, ChannelRows, MessageRows

LEMMA HideKeeps ==
    ASSUME ChatInv, NEW e \in ChatEvents, ApplyOwnHide(e)
    PROVE  ChatInv'
<1> DEFINE new == [i \in DOMAIN messages |->
                      [messages[i] EXCEPT !.hidden = messages[i].id \in hidden']]
<1>1. messages' = new /\ UNCHANGED <<channels, muted, met>>
  BY DEF ApplyOwnHide
<1>2. \A i \in DOMAIN messages : messages[i] \in MessageRows /\ Moderated(messages[i])
  BY RowsAreTyped DEF ChatInv, Each
<1>3. ASSUME NEW i \in DOMAIN messages
      PROVE  /\ new[i] \in MessageRows /\ new[i].id = messages[i].id
             /\ new[i].hidden = (new[i].id \in hidden') /\ new[i].muted = (new[i].by \in muted')
  <2> DEFINE m    == messages[i]
             flag == m.id \in hidden'
             d    == [m EXCEPT !.hidden = flag]
  <2>1. m \in MessageRows /\ m.muted = (m.by \in muted)
    BY <1>2 DEF Moderated
  <2>2. new[i] = d
    OBVIOUS
  <2>3. flag \in BOOLEAN
    OBVIOUS
  <2>4. flag = (m.id \in hidden')
    OBVIOUS
  <2> HIDE DEF m, new, flag
  <2>5. DOMAIN m = {"id", "channel", "by", "at", "hidden", "muted"}
    BY <2>1 DEF MessageRows
  <2>6. d.hidden = flag
    BY <2>5
  <2>7. /\ d \in MessageRows /\ d.id = m.id /\ d.by = m.by /\ d.muted = m.muted
    BY <2>1, <2>3 DEF MessageRows
  <2> HIDE DEF d
  <2>8. d.hidden = (d.id \in hidden')
    BY <2>4, <2>6, <2>7
  <2>9. d.muted = (d.by \in muted')
    BY <1>1, <2>1, <2>7
  <2> QED BY <2>2, <2>7, <2>8, <2>9 DEF m
<1>4. new = [i \in DOMAIN messages |-> new[i]]
  OBVIOUS
<1> HIDE DEF new
<1> QED BY <1>1, <1>3, <1>4, FlagsKeep

LEMMA MuteKeeps ==
    ASSUME ChatInv, NEW e \in ChatEvents, ApplyOwnMute(e)
    PROVE  ChatInv'
<1> DEFINE new == [i \in DOMAIN messages |->
                      [messages[i] EXCEPT !.muted = messages[i].by \in muted']]
<1>1. messages' = new /\ UNCHANGED <<channels, hidden, met>>
  BY DEF ApplyOwnMute
<1>2. \A i \in DOMAIN messages : messages[i] \in MessageRows /\ Moderated(messages[i])
  BY RowsAreTyped DEF ChatInv, Each
<1>3. ASSUME NEW i \in DOMAIN messages
      PROVE  /\ new[i] \in MessageRows /\ new[i].id = messages[i].id
             /\ new[i].hidden = (new[i].id \in hidden') /\ new[i].muted = (new[i].by \in muted')
  <2> DEFINE m    == messages[i]
             flag == m.by \in muted'
             d    == [m EXCEPT !.muted = flag]
  <2>1. m \in MessageRows /\ m.hidden = (m.id \in hidden)
    BY <1>2 DEF Moderated
  <2>2. new[i] = d
    OBVIOUS
  <2>3. flag \in BOOLEAN
    OBVIOUS
  <2>4. flag = (m.by \in muted')
    OBVIOUS
  <2> HIDE DEF m, new, flag
  <2>5. DOMAIN m = {"id", "channel", "by", "at", "hidden", "muted"}
    BY <2>1 DEF MessageRows
  <2>6. d.muted = flag
    BY <2>5
  <2>7. /\ d \in MessageRows /\ d.id = m.id /\ d.by = m.by /\ d.hidden = m.hidden
    BY <2>1, <2>3 DEF MessageRows
  <2> HIDE DEF d
  <2>8. d.muted = (d.by \in muted')
    BY <2>4, <2>6, <2>7
  <2>9. d.hidden = (d.id \in hidden')
    BY <1>1, <2>1, <2>7
  <2> QED BY <2>2, <2>7, <2>8, <2>9 DEF m
<1>4. new = [i \in DOMAIN messages |-> new[i]]
  OBVIOUS
<1> HIDE DEF new
<1> QED BY <1>1, <1>3, <1>4, FlagsKeep

LEMMA ClearedKeeps ==
    ASSUME messages' = <<>>,
           \/ ChatInv /\ UNCHANGED <<channels, hidden, muted, met>>
           \/ channels' = <<>> /\ met' = {}
    PROVE  ChatInv'
<1> DEFINE none == <<>>
<1>1. none \in Seq(MessageRows) /\ none \in Seq(ChannelRows) /\ DOMAIN none = {}
  OBVIOUS
<1>2. messages' = none /\ (channels' = <<>> => channels' = none)
  OBVIOUS
<1> HIDE DEF none
<1>3. messages' \in Seq(MessageRows) /\ NoTwins(messages') /\ Each(messages') = {}
  BY <1>1, <1>2 DEF NoTwins, Each
<1>4. /\ channels' \in Seq(ChannelRows) /\ NoTwins(channels')
      /\ met' \subseteq ChatEvents /\ \A e \in met' : e.target \in Known'
      /\ \A c \in Each(channels') : ShowsNewest(c, met')
  <2>1. CASE ChatInv /\ UNCHANGED <<channels, hidden, muted, met>>
    BY <2>1 DEF ChatInv, Known
  <2>2. CASE channels' = <<>> /\ met' = {}
    BY <1>1, <1>2, <2>2 DEF NoTwins, Each
  <2> QED BY <2>1, <2>2
<1> QED BY <1>3, <1>4 DEF ChatInv, ChannelRows, MessageRows

LEMMA MergeKeeps ==
    ASSUME ChatInv, NEW e \in ChatEvents, Merge(e)
    PROVE  ChatInv'
BY CreateKeeps, MetadataKeeps, MessageKeeps, HideKeeps, MuteKeeps DEF Merge

LEMMA ChatStarts == ChatInit => ChatInv
<1> SUFFICES ASSUME ChatInit PROVE ChatInv
  OBVIOUS
<1> DEFINE none == <<>>
<1>1. none \in Seq(MessageRows) /\ none \in Seq(ChannelRows) /\ DOMAIN none = {}
  OBVIOUS
<1>2. messages = none /\ channels = none /\ met = {}
  BY DEF ChatInit
<1> HIDE DEF none
<1> QED BY <1>1, <1>2 DEF ChatInv, NoTwins, Each

LEMMA ChatKeeps == ChatInv /\ [ChatNext]_chatVars => ChatInv'
<1> SUFFICES ASSUME ChatInv, [ChatNext]_chatVars PROVE ChatInv'
  OBVIOUS
<1>1. ASSUME UNCHANGED <<channels, messages, hidden, muted, met>> PROVE ChatInv'
  <2>1. /\ channels' = channels /\ messages' = messages /\ met' = met
        /\ hidden' = hidden /\ muted' = muted
    BY <1>1
  <2>2. Known' = Known
    BY <2>1 DEF Known
  <2>3. /\ channels' \in Seq(ChannelRows) /\ NoTwins(channels')
        /\ met' \subseteq ChatEvents /\ \A e \in met' : e.target \in Known'
        /\ \A c \in Each(channels') : ShowsNewest(c, met')
    BY <2>1, <2>2 DEF ChatInv
  <2>4. /\ messages' \in Seq(MessageRows) /\ NoTwins(messages')
        /\ \A x \in Each(messages') : x.hidden = (x.id \in hidden') /\ x.muted = (x.by \in muted')
    BY <2>1 DEF ChatInv, Moderated
  <2> QED BY <2>3, <2>4 DEF ChatInv, Moderated, ChannelRows, MessageRows
<1>2. CASE Ask \/ SetComposerText \/ UNCHANGED chatVars
  BY <1>1, <1>2 DEF Ask, SetComposerText, chatVars
<1>3. CASE ResetOnTabClose
  BY <1>3, ClearedKeeps DEF ResetOnTabClose
<1>4. ASSUME NEW id, SelectChannel(id) PROVE ChatInv'
  BY <1>4, ClearedKeeps DEF SelectChannel
<1>5. ASSUME NEW p, Finish(p) PROVE ChatInv'
  BY <1>1, <1>5 DEF Finish
<1>6. ASSUME NEW p, NEW e, Arrive(p, e) PROVE ChatInv'
  BY <1>6, MergeKeeps DEF Arrive, Matching
<1>7. ASSUME NEW e, MarkPublishQueued(e) PROVE ChatInv'
  BY <1>7, MergeKeeps DEF MarkPublishQueued, OwnEvents
<1>8. ASSUME NEW id, NEW lost, MergePublishResult(id, lost) PROVE ChatInv'
  BY <1>1, <1>8 DEF MergePublishResult
<1> QED BY <1>2, <1>3, <1>4, <1>5, <1>6, <1>7, <1>8 DEF ChatNext

\* crates/lkjstr-domain/src/public_chat: whatever the order and the number of
\* their arrivals, a channel shows the newest of the metadata events that met it.
THEOREM ChannelsShowTheNewest == ChatSpec => []NewestMetadataWins
<1>1. ChatInv => NewestMetadataWins
  BY ChatInvSuffices
<1> QED BY <1>1, ChatStarts, ChatKeeps, PTL DEF ChatSpec

\* No content of a hidden message or of a muted author is shown, whatever is
\* merged again, in whatever order, over any number of selections.
THEOREM ModerationIsKept == ChatSpec => []ModerationHolds
<1>1. ChatInv => ModerationHolds
  BY ChatInvSuffices
<1> QED BY <1>1, ChatStarts, ChatKeeps, PTL DEF ChatSpec

----------------------------------------------------------------------------
(* Loads.  First the algorithms of FeedCoverage: the walk over sorted rows   *)
(* finds exactly the proved ranges, and the sparse scan leaves no tick       *)
(* between its ranges.                                                       *)

(* The smallest interval *)

\* The induction over the rows: of the numbers that break a rule, take the
\* smallest.
LEMMA Smallest ==
  ASSUME NEW S \in SUBSET Nat, S # {}
  PROVE  \E x \in S : \A y \in S : x <= y
<1>1. \E x \in S : \A y \in S : ~ (<<y, x>> \in OpToRel(<, Nat))
  BY NatLessThanWellFounded, WFMin
<1>2. PICK x \in S : \A y \in S : ~ (<<y, x>> \in OpToRel(<, Nat))
  BY <1>1
<1>3. \A y \in S : ~ (y < x)
  <2> SUFFICES ASSUME NEW y \in S, y < x PROVE FALSE
    OBVIOUS
  <2>1. <<y, x>> \in OpToRel(<, Nat)
    BY DEF OpToRel
  <2> QED BY <2>1, <1>2
<1> QED BY <1>3

Spans == [since : Nat, until : Nat]

\* Sorting intervals begins with one that lies before all others.
LEMMA FirstIsLeast ==
  ASSUME NEW all \in SUBSET Spans, all # {}
  PROVE  /\ First(all) \in all
         /\ \A j \in all \ {First(all)} : Before(First(all), j)
<1> DEFINE sinces == {i.since : i \in all}
<1>1. sinces \in SUBSET Nat /\ sinces # {}
  BY DEF Spans
<1>2. PICK a \in sinces : \A y \in sinces : a <= y
  BY <1>1, Smallest
<1> DEFINE untils == {i.until : i \in {k \in all : k.since = a}}
<1>3. untils \in SUBSET Nat /\ untils # {}
  BY DEF Spans
<1>4. PICK b \in untils : \A y \in untils : b <= y
  BY <1>3, Smallest
<1>5. PICK i \in all : i.since = a /\ i.until = b
  OBVIOUS
<1>6. \A j \in all \ {i} : Before(i, j)
  <2> SUFFICES ASSUME NEW j \in all \ {i} PROVE Before(i, j)
    OBVIOUS
  <2>1. j \in Spans /\ i \in Spans /\ a <= j.since
    BY <1>2
  <2>2. CASE j.since = a
    <3>1. b <= j.until
      BY <1>4, <2>2
    <3>2. j.until # b
      BY <1>5, <2>1, <2>2 DEF Spans
    <3> QED BY <1>5, <2>1, <2>2, <3>1, <3>2 DEF Before, Spans
  <2>3. CASE j.since # a
    BY <1>5, <2>1, <2>3 DEF Before, Spans
  <2> QED BY <2>2, <2>3
<1> QED BY <1>5, <1>6 DEF First

----------------------------------------------------------------------------
(* The walk over the rows *)

Turns(f, start, until, N) ==
  f = [n \in 0..N |-> IF n = 0 THEN start ELSE Advance(f[n - 1], until)]

\* The loop has a next turn after every turn.
LEMMA TurnsDefined ==
  ASSUME NEW start, NEW until, NEW N \in Nat
  PROVE  \E f : Turns(f, start, until, N)
<1> DEFINE Turning(f, last) == Turns(f, start, until, last)
           bad == {m \in Nat : ~ \E f : Turning(f, m)}
<1> USE DEF Turns
<1>1. SUFFICES ASSUME bad # {} PROVE FALSE
  OBVIOUS
<1>2. PICK m \in bad : \A y \in bad : m <= y
  BY <1>1, Smallest
<1>3. m # 0
  <2> DEFINE f == [n \in 0..0 |-> start]
  <2>1. Turning(f, 0)
    OBVIOUS
  <2> QED BY <2>1
<1>4. m - 1 \in Nat /\ m - 1 \notin bad
  BY <1>2, <1>3
<1>5. PICK f : Turning(f, m - 1)
  BY <1>4
<1> DEFINE g == [n \in 0..m |-> IF n = 0 THEN start ELSE Advance(f[n - 1], until)]
<1>6. \A n \in 0..(m - 1) : g[n] = f[n]
  BY <1>4, <1>5
<1>7. Turning(g, m)
  <2>1. ASSUME NEW n \in 0..m, n # 0 PROVE g[n] = Advance(g[n - 1], until)
    <3>1. n - 1 \in 0..(m - 1)
      BY <1>4, <2>1
    <3> QED BY <2>1, <3>1, <1>6
  <2> QED BY <2>1
<1> QED BY <1>2, <1>7

\* What a loop over some intervals knows after some turns: the intervals it
\* has left behind end by the tick it reached, every tick up to there is in
\* one of them, and it took one in each turn unless it has stopped.
Stopped(walk, until) ==
  walk.left = {} \/ walk.to >= until \/ First(walk.left).since > walk.to

Within(tick, i) == i.since <= tick /\ tick < i.until

WalkedSoFar(walk, all, range, turns) ==
  /\ walk \in [left : SUBSET all, to : Nat]
  /\ range.since <= walk.to
  /\ \A i \in all \ walk.left : i.until <= walk.to
  /\ \A tick \in range.since..(walk.to - 1) : \E i \in all : Within(tick, i)
  /\ \/ Stopped(walk, range.until)
     \/ Cardinality(walk.left) + turns = Cardinality(all)

LEMMA TurnKeepsWalk ==
  ASSUME NEW all \in SUBSET Spans, IsFiniteSet(all), NEW range \in Spans,
         NEW turns \in Nat, NEW walk, WalkedSoFar(walk, all, range, turns)
  PROVE  WalkedSoFar(Advance(walk, range.until), all, range, turns + 1)
<1> DEFINE next == First(walk.left)
           after == [left |-> walk.left \ {next}, to |-> Larger(walk.to, next.until)]
<1>1. walk.left \in SUBSET all /\ walk.to \in Nat /\ range.since \in Nat /\ range.until \in Nat
  BY DEF WalkedSoFar, Spans
<1>2. CASE Stopped(walk, range.until)
  <2>1. Advance(walk, range.until) = walk
    BY <1>2 DEF Stopped, Advance
  <2> QED BY <1>2, <2>1 DEF WalkedSoFar
<1>3. CASE ~Stopped(walk, range.until)
  <2>1. Advance(walk, range.until) = after
    BY <1>3 DEF Stopped, Advance
  <2>2. walk.left # {} /\ ~(next.since > walk.to)
    BY <1>3 DEF Stopped
  <2>3. next \in walk.left /\ next \in Spans /\ next \in all
    BY <1>1, <2>2, FirstIsLeast
  <2>4. next.since \in Nat /\ next.until \in Nat /\ next.since <= walk.to
    BY <1>1, <2>2, <2>3 DEF Spans
  <2>5. /\ after.to \in Nat /\ walk.to <= after.to /\ next.until <= after.to
        /\ after.to = walk.to \/ after.to = next.until
    BY <1>1, <2>4 DEF Larger
  <2>6. after \in [left : SUBSET all, to : Nat]
    BY <1>1, <2>5
  <2>7. ASSUME NEW i \in all \ after.left PROVE i.until <= after.to
    <3>1. CASE i = next
      BY <2>5, <3>1
    <3>2. CASE i # next
      <4>1. i.until <= walk.to /\ i.until \in Nat
        BY <2>7, <3>2 DEF WalkedSoFar, Spans
      <4> QED BY <1>1, <2>5, <4>1
    <3> QED BY <3>1, <3>2
  <2>8. ASSUME NEW tick \in range.since..(after.to - 1) PROVE \E i \in all : Within(tick, i)
    <3>1. CASE tick < walk.to
      BY <1>1, <3>1, <2>8 DEF WalkedSoFar
    <3>2. CASE tick >= walk.to
      <4>1. next.since <= tick /\ tick < next.until
        BY <1>1, <2>4, <2>5, <2>8, <3>2
      <4> QED BY <2>3, <4>1 DEF Within
    <3> QED BY <1>1, <2>8, <3>1, <3>2
  <2>9. Cardinality(after.left) + (turns + 1) = Cardinality(all)
    <3>1. Cardinality(walk.left) + turns = Cardinality(all)
      BY <1>3 DEF WalkedSoFar
    <3>2. IsFiniteSet(walk.left)
      BY <1>1, FS_Subset
    <3>3. Cardinality(walk.left \ {next}) = Cardinality(walk.left) - 1
      BY <2>3, <3>2, FS_RemoveElement
    <3>4. Cardinality(walk.left) \in Nat /\ Cardinality(all) \in Nat
      BY <3>2, FS_CardinalityType
    <3> QED BY <3>1, <3>3, <3>4
  <2>10. range.since <= after.to
    BY <1>1, <2>5 DEF WalkedSoFar
  <2> QED BY <2>1, <2>6, <2>7, <2>8, <2>9, <2>10 DEF WalkedSoFar
<1> QED BY <1>2, <1>3

\* When the loop ends it has stopped.
LEMMA WalkEnds ==
  ASSUME NEW all \in SUBSET Spans, IsFiniteSet(all), NEW range \in Spans
  PROVE  /\ WalkedSoFar(Walked(all, range), all, range, Cardinality(all))
         /\ Stopped(Walked(all, range), range.until)
<1> DEFINE N == Cardinality(all)
           start == [left |-> all, to |-> range.since]
           walk == CHOOSE f : Turns(f, start, range.until, N)
<1>1. N \in Nat
  BY FS_CardinalityType
<1>2. Walked(all, range) = walk[N]
  BY DEF Walked, Turns
<1>3. Turns(walk, start, range.until, N)
  <2>1. \E f : Turns(f, start, range.until, N)
    <3> HIDE DEF start, N
    <3> QED BY <1>1, TurnsDefined
  <2> QED BY <2>1
<1> HIDE DEF walk, N
<1>4. \A n \in 0..N : WalkedSoFar(walk[n], all, range, n)
  <2> DEFINE bad == {n \in 0..N : ~WalkedSoFar(walk[n], all, range, n)}
  <2>1. SUFFICES ASSUME bad # {} PROVE FALSE
    OBVIOUS
  <2>2. bad \in SUBSET Nat
    BY <1>1
  <2>3. PICK m \in bad : \A y \in bad : m <= y
    BY <2>1, <2>2, Smallest
  <2>4. m # 0
    <3>1. walk[0] = start
      BY <1>1, <1>3 DEF Turns
    <3>2. range.since \in Nat
      BY DEF Spans
    <3>3. WalkedSoFar(start, all, range, 0)
      BY <1>1, <3>2, FS_CardinalityType DEF WalkedSoFar
    <3> QED BY <3>1, <3>3
  <2>5. m - 1 \in 0..N /\ m - 1 \in Nat /\ m - 1 \notin bad /\ m = (m - 1) + 1
    BY <1>1, <2>3, <2>4
  <2>6. WalkedSoFar(walk[m - 1], all, range, m - 1)
    BY <2>5
  <2>7. walk[m] = Advance(walk[m - 1], range.until)
    BY <1>3, <2>3, <2>4 DEF Turns
  <2>8. WalkedSoFar(walk[m], all, range, (m - 1) + 1)
    BY <2>5, <2>6, <2>7, TurnKeepsWalk
  <2> QED BY <2>3, <2>5, <2>8
<1>5. WalkedSoFar(walk[N], all, range, N)
  BY <1>1, <1>4
<1>6. Stopped(walk[N], range.until)
  <2>1. SUFFICES ASSUME Cardinality(walk[N].left) + N = N PROVE walk[N].left = {}
    BY <1>5 DEF WalkedSoFar, Stopped, N
  <2>2. IsFiniteSet(walk[N].left)
    BY <1>5, FS_Subset DEF WalkedSoFar
  <2>3. Cardinality(walk[N].left) = 0
    BY <1>1, <2>1, <2>2, FS_CardinalityType
  <2> QED BY <2>2, <2>3, FS_EmptySet
<1> QED BY <1>2, <1>5, <1>6 DEF N

\* The walk reaches the end of a range exactly when every tick of the range is
\* in an interval.
LEMMA WalkFindsGaps ==
  ASSUME NEW all \in SUBSET Spans, IsFiniteSet(all), NEW range \in Spans
  PROVE  Walked(all, range).to >= range.until
           <=> \A tick \in range.since..(range.until - 1) : \E i \in all : Within(tick, i)
<1> DEFINE walk == Walked(all, range)
<1>1. WalkedSoFar(walk, all, range, Cardinality(all)) /\ Stopped(walk, range.until)
  BY WalkEnds
<1> HIDE DEF walk
<1>2. /\ walk.left \in SUBSET all /\ walk.to \in Nat /\ range.since <= walk.to
      /\ range.since \in Nat /\ range.until \in Nat
  BY <1>1 DEF WalkedSoFar, Spans
<1>3. ASSUME walk.to >= range.until
      PROVE  \A tick \in range.since..(range.until - 1) : \E i \in all : Within(tick, i)
  <2>1. \A tick \in range.since..(range.until - 1) : tick \in range.since..(walk.to - 1)
    BY <1>2, <1>3
  <2> QED BY <1>1, <2>1 DEF WalkedSoFar
<1>4. ASSUME ~(walk.to >= range.until), NEW i \in all PROVE ~Within(walk.to, i)
  <2>1. i.since \in Nat /\ i.until \in Nat
    BY DEF Spans
  <2>2. CASE i \notin walk.left
    BY <1>1, <1>2, <2>1, <2>2 DEF WalkedSoFar, Within
  <2>3. CASE i \in walk.left
    <3>1. walk.left \in SUBSET Spans /\ walk.left # {}
      BY <1>2, <2>3
    <3>2. First(walk.left).since > walk.to
      BY <1>1, <1>4, <3>1 DEF Stopped
    <3>3. i = First(walk.left) \/ Before(First(walk.left), i)
      BY <2>3, <3>1, FirstIsLeast
    <3>4. First(walk.left).since \in Nat
      BY <3>1, FirstIsLeast DEF Spans
    <3>5. i.since >= First(walk.left).since
      BY <2>1, <3>3, <3>4 DEF Before
    <3> QED BY <1>2, <2>1, <3>2, <3>4, <3>5 DEF Within
  <2> QED BY <2>2, <2>3
<1>5. ASSUME ~(walk.to >= range.until) PROVE walk.to \in range.since..(range.until - 1)
  BY <1>2, <1>5
<1> QED BY <1>3, <1>4, <1>5 DEF walk

\* The rows of one relay name finitely many intervals.
LEMMA IntervalsFinite ==
  ASSUME NEW rows \in SUBSET CoverageRows(Relays), NEW relay
  PROVE  /\ Intervals(rows, relay) \in SUBSET Spans
         /\ IsFiniteSet(Intervals(rows, relay))
<1> DEFINE ticks == 0..Now
           pairs == ticks \X ticks
           spans == {Interval(p[1], p[2]) : p \in pairs}
<1>1. Now \in Nat
  BY SpanAssumption
<1>2. IsFiniteSet(pairs)
  <2>1. IsFiniteSet(ticks)
    BY <1>1, FS_Interval
  <2> HIDE DEF ticks
  <2> QED BY <2>1, FS_Product
<1>3. IsFiniteSet(spans)
  <2> DEFINE f == [p \in pairs |-> Interval(p[1], p[2])]
  <2>1. spans = {f[p] : p \in pairs}
    OBVIOUS
  <2>2. f \in [pairs -> spans]
    OBVIOUS
  <2>3. f \in Surjection(pairs, spans)
    BY <2>1, <2>2 DEF Surjection
  <2> QED BY <1>2, <2>3, FS_Surjection
<1>4. Intervals(rows, relay) \subseteq spans
  <2> SUFFICES ASSUME NEW row \in rows PROVE Interval(row.since, row.until) \in spans
    BY DEF Intervals
  <2>1. row.since \in ticks /\ row.until \in ticks
    BY DEF CoverageRows
  <2>2. <<row.since, row.until>> \in pairs
    BY <2>1
  <2> QED BY <2>2
<1>5. spans \subseteq Spans
  BY <1>1 DEF Interval, Spans
<1> QED BY <1>3, <1>4, <1>5, FS_Subset

KnownRows == SUBSET CoverageRows(Relays)

\* coverage_covers is right: a relay covers a range exactly when every tick of
\* it is in a clean row of the relay.
THEOREM CoversIsProved ==
  ASSUME NEW rows \in KnownRows, NEW relay, NEW range \in Spans
  PROVE  CoverageCovers(rows, relay, range) <=> Proved(rows, {relay}, range)
<1> DEFINE all == Intervals(rows, relay)
<1>1. all \in SUBSET Spans /\ IsFiniteSet(all)
  BY IntervalsFinite DEF KnownRows
<1>2. CoverageCovers(rows, relay, range)
        <=> \A tick \in range.since..(range.until - 1) : \E i \in all : Within(tick, i)
  <2> HIDE DEF all
  <2>1. Walked(all, range).to >= range.until
        <=> \A tick \in range.since..(range.until - 1) : \E i \in all : Within(tick, i)
    BY <1>1, WalkFindsGaps
  <2> QED BY <2>1 DEF CoverageCovers, all
<1>3. ASSUME NEW tick
      PROVE  (\E i \in all : Within(tick, i))
               <=> \E row \in rows : row.clean /\ row.relay = relay /\ Covers(row, tick)
  <2>1. ASSUME NEW i \in all, Within(tick, i)
        PROVE  \E row \in rows : row.clean /\ row.relay = relay /\ Covers(row, tick)
    <3>1. PICK row \in {w \in rows : w.clean /\ w.relay = relay} :
            i = Interval(row.since, row.until)
      BY DEF Intervals
    <3>2. i.since = row.since /\ i.until = row.until
      BY <3>1 DEF Interval
    <3> QED BY <2>1, <3>2 DEF Within, Covers
  <2>2. ASSUME NEW row \in rows, row.clean /\ row.relay = relay /\ Covers(row, tick)
        PROVE  \E i \in all : Within(tick, i)
    <3>1. Interval(row.since, row.until) \in all
      BY <2>2 DEF Intervals
    <3>2. Within(tick, Interval(row.since, row.until))
      BY <2>2 DEF Interval, Within, Covers
    <3> QED BY <3>1, <3>2
  <2> QED BY <2>1, <2>2
<1> QED BY <1>2, <1>3 DEF Proved

LEMMA ProvedByRelay ==
  ASSUME NEW rows, NEW relays, NEW range
  PROVE  Proved(rows, relays, range) <=> \A relay \in relays : Proved(rows, {relay}, range)
BY DEF Proved

\* A range is complete exactly when there are relays and all of them prove it.
LEMMA CompleteIsProved ==
  ASSUME NEW rows \in KnownRows, NEW relays, NEW range \in Spans
  PROVE  RangeComplete(rows, relays, range)
           <=> relays # {} /\ Proved(rows, relays, range)
<1>1. \A relay \in relays :
        CoverageCovers(rows, relay, range) <=> Proved(rows, {relay}, range)
  BY CoversIsProved
<1> QED BY <1>1, ProvedByRelay DEF RangeComplete

LEMMA EmptyIsProved ==
  ASSUME NEW rows \in KnownRows, NEW relays, NEW range \in Spans
  PROVE  RangeCompleteEmpty(rows, relays, range)
           <=> relays # {} /\ ProvedEmpty(rows, relays, range)
<1>1. {row \in rows : row.empty} \in KnownRows
  BY DEF KnownRows
<1> QED BY <1>1, CompleteIsProved DEF RangeCompleteEmpty, ProvedEmpty

----------------------------------------------------------------------------
(* The sparse scan *)

MinusTyped == \A m, n \in Nat : Minus(m, n) \in Nat /\ Minus(m, n) <= m

LEMMA MinusIsTyped == MinusTyped
BY DEF MinusTyped, Minus

ScanOf(f, N) ==
  f = [n \in 0..N |->
         IF n = 0 THEN [until |-> Now, span |-> Span]
         ELSE [until |-> Minus(f[n - 1].until, f[n - 1].span), span |-> 2 * f[n - 1].span]]

\* The scan goes on from every range.
LEMMA ScanDefined == ASSUME NEW N \in Nat PROVE \E f : ScanOf(f, N)
<1> DEFINE bad == {m \in Nat : ~ \E f : ScanOf(f, m)}
<1>1. SUFFICES ASSUME bad # {} PROVE FALSE
  OBVIOUS
<1>2. PICK m \in bad : \A y \in bad : m <= y
  BY <1>1, Smallest
<1>3. m # 0
  <2> DEFINE f == [n \in 0..0 |-> [until |-> Now, span |-> Span]]
  <2>1. ScanOf(f, 0)
    BY DEF ScanOf
  <2> QED BY <2>1
<1>4. m - 1 \in Nat /\ m - 1 \notin bad
  BY <1>2, <1>3
<1>5. PICK f : ScanOf(f, m - 1)
  BY <1>4
<1> USE DEF ScanOf
<1> DEFINE after(n) == [until |-> Minus(f[n].until, f[n].span), span |-> 2 * f[n].span]
           g == [n \in 0..m |-> IF n = 0 THEN [until |-> Now, span |-> Span]
                                ELSE after(n - 1)]
<1>6. \A n \in 0..(m - 1) : g[n] = f[n]
  BY <1>4, <1>5
<1>7. ScanOf(g, m)
  <2>1. ASSUME NEW n \in 0..m, n # 0
        PROVE  g[n] = [until |-> Minus(g[n - 1].until, g[n - 1].span),
                       span |-> 2 * g[n - 1].span]
    <3>1. n - 1 \in 0..(m - 1)
      BY <1>4, <2>1
    <3> QED BY <2>1, <3>1, <1>6
  <2> QED BY <2>1
<1> QED BY <1>2, <1>7

\* Each range of the scan begins where the one before ends.
LEMMA ScanTypes ==
  /\ \A n \in 0..MaxSteps : Scan[n] \in [until : 0..Now, span : Nat]
  /\ MaxSteps \in Nat /\ Scan[0].until = Now
  /\ \A n \in 0..MaxSteps : n # 0 => Scan[n].until = ScanRange(n - 1).since
<1> DEFINE bad == {n \in 0..MaxSteps : Scan[n] \notin [until : 0..Now, span : Nat]}
<1>1. MaxSteps \in Nat /\ Now \in Nat /\ Span \in Nat
  BY SpanAssumption
<1>2. ScanOf(Scan, MaxSteps)
  <2>1. \E f : ScanOf(f, MaxSteps)
    BY <1>1, ScanDefined
  <2> QED BY <2>1 DEF Scan, ScanOf
<1>3. Scan[0] = [until |-> Now, span |-> Span]
  BY <1>1, <1>2 DEF ScanOf
<1>4. ASSUME NEW n \in 0..MaxSteps, n # 0
      PROVE  Scan[n] = [until |-> Minus(Scan[n - 1].until, Scan[n - 1].span),
                        span |-> 2 * Scan[n - 1].span]
  BY <1>2, <1>4 DEF ScanOf
<1>5. bad = {}
  <2>1. SUFFICES ASSUME bad # {} PROVE FALSE
    OBVIOUS
  <2>2. bad \in SUBSET Nat
    BY <1>1
  <2>3. PICK m \in bad : \A y \in bad : m <= y
    BY <2>1, <2>2, Smallest
  <2>4. m # 0
    BY <1>1, <1>3
  <2>5. m - 1 \in 0..MaxSteps /\ m - 1 \notin bad
    BY <1>1, <2>3, <2>4
  <2>6. Scan[m - 1] \in [until : 0..Now, span : Nat]
    BY <2>5
  <2>7. Scan[m] = [until |-> Minus(Scan[m - 1].until, Scan[m - 1].span),
                   span |-> 2 * Scan[m - 1].span]
    BY <1>4, <2>3, <2>4
  <2>8. Minus(Scan[m - 1].until, Scan[m - 1].span) \in 0..Now
    BY <1>1, <2>6 DEF Minus
  <2>9. 2 * Scan[m - 1].span \in Nat
    BY <2>6
  <2> QED BY <2>3, <2>7, <2>8, <2>9
<1>6. \A n \in 0..MaxSteps : Scan[n] \in [until : 0..Now, span : Nat]
  BY <1>5
<1>7. ASSUME NEW n \in 0..MaxSteps, n # 0 PROVE Scan[n].until = ScanRange(n - 1).since
  <2>1. Scan[n] = [until |-> Minus(Scan[n - 1].until, Scan[n - 1].span),
                   span |-> 2 * Scan[n - 1].span]
    BY <1>4, <1>7
  <2>2. ScanRange(n - 1).since = Minus(Scan[n - 1].until, Scan[n - 1].span)
    BY DEF ScanRange, Interval
  <2> QED BY <2>1, <2>2
<1> QED BY <1>1, <1>3, <1>6, <1>7

LEMMA ScanRangeTyped ==
  ASSUME NEW n \in 0..MaxSteps
  PROVE  /\ ScanRange(n) \in [since : 0..Now, until : 0..Now]
         /\ ScanRange(n).until = Scan[n].until
<1>1. Scan[n] \in [until : 0..Now, span : Nat] /\ Now \in Nat
  BY ScanTypes, SpanAssumption
<1>2. Minus(Scan[n].until, Scan[n].span) \in 0..Now
  BY <1>1 DEF Minus
<1> QED BY <1>1, <1>2 DEF ScanRange, Interval

\* Two proofs that meet are one.
LEMMA ProofsJoin ==
  ASSUME NEW rows, NEW relays, NEW early \in Spans, NEW late \in Spans,
         early.until = late.since,
         ProvedEmpty(rows, relays, early), ProvedEmpty(rows, relays, late)
  PROVE  ProvedEmpty(rows, relays, Interval(early.since, late.until))
<1> DEFINE whole == Interval(early.since, late.until)
<1>1. whole.since = early.since /\ whole.until = late.until
  BY DEF Interval
<1>2. \A tick \in whole.since..(whole.until - 1) :
        \/ tick \in early.since..(early.until - 1)
        \/ tick \in late.since..(late.until - 1)
  BY <1>1 DEF Spans
<1> QED BY <1>2 DEF ProvedEmpty, Proved

\* While every range of the scan is proved empty, so is all that it passed.
LEMMA ScanPasses ==
  ASSUME NEW rows, NEW relays, NEW stop \in 0..MaxSteps,
         \A n \in 0..MaxSteps : n < stop => ProvedEmpty(rows, relays, ScanRange(n))
  PROVE  ProvedEmpty(rows, relays, Interval(Scan[stop].until, Now))
<1> DEFINE Passed(n) == ProvedEmpty(rows, relays, Interval(Scan[n].until, Now))
           bad == {n \in 0..stop : ~Passed(n)}
<1>1. MaxSteps \in Nat /\ Now \in Nat /\ stop \in Nat
  BY SpanAssumption
<1>2. bad = {}
  <2>1. SUFFICES ASSUME bad # {} PROVE FALSE
    OBVIOUS
  <2>2. bad \in SUBSET Nat
    BY <1>1
  <2>3. PICK m \in bad : \A y \in bad : m <= y
    BY <2>1, <2>2, Smallest
  <2>4. m # 0
    <3>1. Interval(Scan[0].until, Now) = [since |-> Now, until |-> Now]
      BY ScanTypes DEF Interval
    <3>2. Passed(0)
      BY <1>1, <3>1 DEF ProvedEmpty, Proved
    <3> QED BY <2>3, <3>2
  <2>5. /\ m - 1 \in 0..MaxSteps /\ m - 1 < stop /\ m \in 0..MaxSteps
        /\ m - 1 \in 0..stop /\ m - 1 \notin bad
    BY <1>1, <2>3, <2>4
  <2> DEFINE early == ScanRange(m - 1)
             late == Interval(Scan[m - 1].until, Now)
  <2>6. Passed(m - 1) /\ ProvedEmpty(rows, relays, early)
    BY <2>5
  <2>7. /\ early \in Spans /\ early.until = Scan[m - 1].until
        /\ early.since = Scan[m].until /\ Scan[m - 1].until \in Nat
    <3>1. /\ early \in [since : 0..Now, until : 0..Now]
          /\ early.until = Scan[m - 1].until
      BY <2>5, ScanRangeTyped
    <3>2. early.since = Scan[m].until
      BY <2>4, <2>5, ScanTypes
    <3> QED BY <1>1, <3>1, <3>2 DEF Spans
  <2>8. late \in Spans /\ late.since = Scan[m - 1].until /\ late.until = Now
    BY <1>1, <2>7 DEF Interval, Spans
  <2> HIDE DEF early, late
  <2>9. ProvedEmpty(rows, relays, late)
    BY <2>6 DEF late
  <2>10. ProvedEmpty(rows, relays, Interval(early.since, late.until))
    BY <2>6, <2>7, <2>8, <2>9, ProofsJoin
  <2>11. Passed(m)
    BY <2>7, <2>8, <2>10
  <2> QED BY <2>3, <2>11
<1> QED BY <1>1, <1>2

Decisions == [source : {"SearchingOlder", "EmptyProven", "CacheComplete"},
              range : [since : 0..Now, until : 0..Now]]

\* What the scan of a profile claims is so: a history that it calls empty is
\* proved to be empty down to its first tick, although no row need cover more
\* than one of the ranges; a range that it calls complete is complete.
THEOREM ScanIsRight ==
  ASSUME NEW rows \in KnownRows, NEW relays
  PROVE  LET decision == SparseScan(rows, relays)
         IN  /\ decision \in Decisions
             /\ decision.source = "EmptyProven" =>
                  relays # {} /\ ProvedEmpty(rows, relays, Interval(0, Now))
             /\ decision.source = "CacheComplete" =>
                  relays # {} /\ Proved(rows, relays, decision.range)
<1> DEFINE Stops(n) == \/ ~RangeCompleteEmpty(rows, relays, ScanRange(n))
                       \/ PlanScan(ScanRange(n), n) = "EmptyProven"
           stops == {n \in 0..(MaxSteps - 1) : Stops(n)}
           stop == CHOOSE n \in stops : \A m \in stops : n <= m
           range == ScanRange(stop)
<1>1. /\ MaxSteps \in Nat /\ Now \in Nat /\ MaxSteps \in 0..MaxSteps
      /\ \A n \in 0..(MaxSteps - 1) : n \in 0..MaxSteps /\ n + 1 \in 0..MaxSteps
  BY SpanAssumption
<1>2. SparseScan(rows, relays) =
        IF stops = {} THEN Decision("SearchingOlder", ScanRange(MaxSteps))
        ELSE IF RangeCompleteEmpty(rows, relays, range)
        THEN Decision("EmptyProven", range)
        ELSE IF RangeComplete(rows, relays, range)
        THEN Decision("CacheComplete", range)
        ELSE Decision("SearchingOlder", range)
  BY DEF SparseScan
<1>3. CASE stops = {}
  <2>1. SparseScan(rows, relays) = Decision("SearchingOlder", ScanRange(MaxSteps))
    BY <1>2, <1>3
  <2>2. ScanRange(MaxSteps) \in [since : 0..Now, until : 0..Now]
    BY <1>1, ScanRangeTyped
  <2> QED BY <2>1, <2>2 DEF Decision, Decisions
<1>4. CASE stops # {}
  <2>1. stop \in stops /\ \A m \in stops : stop <= m
    <3>1. stops \in SUBSET Nat
      BY <1>1
    <3>2. \E n \in stops : \A m \in stops : n <= m
      BY <1>4, <3>1, Smallest
    <3> QED BY <3>2
  <2>2. stop \in 0..(MaxSteps - 1) /\ Stops(stop) /\ stop \in 0..MaxSteps
    BY <1>1, <2>1
  <2>3. \A n \in 0..(MaxSteps - 1) : n < stop => ~Stops(n)
    BY <1>1, <2>1
  <2>4. range \in [since : 0..Now, until : 0..Now] /\ range.until = Scan[stop].until
    BY <2>2, ScanRangeTyped
  <2>5. range \in Spans
    BY <1>1, <2>4 DEF Spans
  <2> HIDE DEF stop
  <2>6. CASE RangeCompleteEmpty(rows, relays, range)
    <3>1. SparseScan(rows, relays) = Decision("EmptyProven", range)
      BY <1>2, <1>4, <2>6
    <3>2. relays # {} /\ ProvedEmpty(rows, relays, range) /\ range.since = 0
      BY <2>2, <2>5, <2>6, EmptyIsProved DEF PlanScan
    <3>3. ASSUME NEW n \in 0..(MaxSteps - 1), n < stop
          PROVE  ProvedEmpty(rows, relays, ScanRange(n))
      <4>1. ScanRange(n) \in Spans
        BY <1>1, ScanRangeTyped DEF Spans
      <4> QED BY <2>3, <3>3, <4>1, EmptyIsProved
    <3>4. \A n \in 0..MaxSteps : n < stop => ProvedEmpty(rows, relays, ScanRange(n))
      BY <1>1, <2>2, <3>3
    <3>5. ProvedEmpty(rows, relays, Interval(Scan[stop].until, Now))
      BY <2>2, <3>4, ScanPasses
    <3>6. ProvedEmpty(rows, relays, Interval(0, Now))
      <4> DEFINE late == Interval(Scan[stop].until, Now)
      <4>1. late \in Spans /\ late.since = range.until /\ late.until = Now
        BY <1>1, <2>4, <2>5 DEF Interval, Spans
      <4> HIDE DEF range
      <4>2. ProvedEmpty(rows, relays, Interval(range.since, late.until))
        BY <2>5, <3>2, <3>5, <4>1, ProofsJoin
      <4> QED BY <3>2, <4>1, <4>2
    <3> QED BY <2>4, <3>1, <3>2, <3>6 DEF Decision, Decisions
  <2>7. CASE ~RangeCompleteEmpty(rows, relays, range)
    <3>1. SparseScan(rows, relays) = IF RangeComplete(rows, relays, range)
                                     THEN Decision("CacheComplete", range)
                                     ELSE Decision("SearchingOlder", range)
      BY <1>2, <1>4, <2>7
    <3> QED BY <2>4, <2>5, <3>1, CompleteIsProved DEF Decision, Decisions
  <2> QED BY <2>6, <2>7
<1> QED BY <1>3, <1>4

----------------------------------------------------------------------------
(* The load *)

Path == {Order[i] : i \in DOMAIN Order}

\* A load takes the reads of its own surface.
OnPath == stage \in Path \cup {"done"} /\ failed \subseteq Path

\* What was read so far: before the coverage and the events nothing is known.
EarlyIsPending ==
  /\ stage \in {"account", "relays", "routes", "follow"} => source = "Pending"
  /\ stage \in {"account", "relays"} => failed \subseteq {"account"}
  /\ stage \notin {"build", "done"} \/ surface # "profile" => scanned = Recent

RoutesAreRead == routes # {} => "routes" \in Path

StoredOnly == {"thread", "author", "custom", "followees"}

DefaultsStandIn == "relays" \in failed /\ surface \notin StoredOnly => selected = Defaults

\* Coverage that could not be read proves nothing, now and later.
FailureIsPartial ==
  "coverage" \in failed =>
    /\ source = "Partial"
    /\ \/ stage \in {"build", "done"}
       \/ stage \in {"events", "range"} /\ surface \in {"home", "global", "profile"}

SourceIsProved ==
  /\ source = "CacheComplete" => PlanRelays # {} /\ Proved(coverage, PlanRelays, scanned)
  /\ source = "EmptyProven" =>
       PlanRelays # {} /\ ProvedEmpty(coverage, PlanRelays, Interval(0, Now))
  /\ source = "Partial" /\ failed = {} /\ PlanRelays # {} =>
       ~Proved(coverage, PlanRelays, Recent)

\* Without a relay there is nothing that a search misses.
SearchIsComplete ==
  /\ surface = "search" /\ source = "CacheComplete" => selected = {}
  /\ surface = "search" /\ stage \in {"build", "done"} =>
       source \in {"CacheComplete", "Partial"} \/ selected # {}
  /\ source \in {"EmptyProven", "SearchingOlder"} => surface = "profile"

\* A load that needs a follow list has looked for it before it ends.
FolloweesAreSought ==
  /\ surface = "followees" /\ stage \in {"build", "done"} => follow # "unread"
  /\ surface = "home" /\ (stage \in {"coverage", "events"} \/ source # "Pending") =>
       follow = "found"

BuiltFromState ==
  stage = "done" =>
    \E valid \in BOOLEAN, more \in BOOLEAN :
      read = RelayRead(valid) /\ view = LoadedView(valid, more)

LoadInv ==
        /\ TypeOK
        /\ OnPath
        /\ EarlyIsPending
        /\ RoutesAreRead
        /\ DefaultsStandIn
        /\ FailureIsPartial
        /\ Ranged => SourceIsProved
        /\ SearchIsComplete
        /\ FolloweesAreSought
        /\ BuiltFromState

\* The read after the i-th one.
LEMMA FollowingAt ==
  ASSUME NEW i \in DOMAIN Order, \A k \in DOMAIN Order : Order[k] = Order[i] => k = i
  PROVE  Following(Order[i]) = Order[i + 1]
BY DEF Following

\* What may follow a read of the surface, and which reads it has.
Routed ==
  /\ Path \subseteq Stages /\ "build" \in Path /\ Order[1] \in Path
  /\ Order[1] \in {"account", "relays"}
  /\ stage \in Path \ {"build"} => Following(stage) \in Path
  /\ stage = "account" /\ stage \in Path => Following(stage) = "relays"
  /\ stage = "relays" =>
       Following(stage) \in {"routes", "follow", "coverage", "events", "build"}
  /\ stage = "routes" /\ stage \in Path =>
       Following(stage) \in {"follow", "coverage", "events", "build"}
  /\ stage = "follow" /\ stage \in Path =>
       Following(stage) \in {"coverage", "events", "build"}
  /\ stage = "coverage" /\ stage \in Path =>
       Following(stage) \in {"events", "build"}
  /\ stage = "coverage" /\ stage \in Path /\ Following(stage) = "events" =>
       surface \in {"home", "global", "profile"}
  /\ stage = "events" /\ stage \in Path =>
       Following(stage) \in {"coverage", "range", "build"}
  /\ stage = "events" /\ stage \in Path /\ Following(stage) = "coverage" =>
       surface \in {"notifications", "timeline"}
  /\ stage = "range" /\ stage \in Path => Following(stage) = "build" /\ surface = "profile"
  /\ surface = "search" /\ stage \in {"relays", "events"} /\ stage \in Path =>
       Following(stage) = IF stage = "relays" THEN "events" ELSE "build"
  /\ surface = "home" /\ stage = "relays" => Following(stage) \in {"follow", "build"}
  /\ surface = "followees" =>
       /\ stage = "relays" => Following(stage) = "routes"
       /\ stage = "routes" => Following(stage) = "follow"
       /\ Path = {"relays", "routes", "follow", "build"}
  /\ "coverage" \in Path <=> Ranged
  /\ "account" \in Path <=> Protected
  /\ "routes" \in Path <=> surface \in {"profile", "author", "followees", "timeline"}
  /\ "follow" \in Path <=> surface \in {"home", "followees", "timeline"}
  /\ "range" \in Path <=> surface = "profile"
  /\ "events" \in Path <=> surface \notin {"custom", "followees"}

LEMMA RoutedIs == ASSUME surface \in AllSurfaces PROVE Routed
<1> USE DEF Routed, Stages, Ranged, Protected
<1>1. CASE surface = "home"
  <2>1. Order = HomeLoad /\ DOMAIN Order = 1..6
    BY <1>1 DEF Order, HomeLoad
  <2>2. \A i \in 1..6 : Following(Order[i]) = Order[i + 1]
    BY <2>1, FollowingAt DEF HomeLoad
  <2>3. /\ Order[1] = "account"
        /\ Path = {"account", "relays", "follow", "coverage", "events", "build"}
        /\ Following("account") = "relays"
        /\ Following("relays") = "follow"
        /\ Following("follow") = "coverage"
        /\ Following("coverage") = "events"
        /\ Following("events") = "build"
    BY <2>1, <2>2 DEF HomeLoad, Path
  <2> QED BY <1>1, <2>3
<1>2. CASE surface = "global"
  <2>1. Order = GlobalLoad /\ DOMAIN Order = 1..4
    BY <1>2 DEF Order, GlobalLoad
  <2>2. \A i \in 1..4 : Following(Order[i]) = Order[i + 1]
    BY <2>1, FollowingAt DEF GlobalLoad
  <2>3. /\ Order[1] = "relays"
        /\ Path = {"relays", "coverage", "events", "build"}
        /\ Following("relays") = "coverage"
        /\ Following("coverage") = "events"
        /\ Following("events") = "build"
    BY <2>1, <2>2 DEF GlobalLoad, Path
  <2> QED BY <1>2, <2>3
<1>3. CASE surface = "notifications"
  <2>1. Order = NotificationsLoad /\ DOMAIN Order = 1..5
    BY <1>3 DEF Order, NotificationsLoad
  <2>2. \A i \in 1..5 : Following(Order[i]) = Order[i + 1]
    BY <2>1, FollowingAt DEF NotificationsLoad
  <2>3. /\ Order[1] = "account"
        /\ Path = {"account", "relays", "events", "coverage", "build"}
        /\ Following("account") = "relays"
        /\ Following("relays") = "events"
        /\ Following("events") = "coverage"
        /\ Following("coverage") = "build"
    BY <2>1, <2>2 DEF NotificationsLoad, Path
  <2> QED BY <1>3, <2>3
<1>4. CASE surface = "thread"
  <2>1. Order = ThreadLoad /\ DOMAIN Order = 1..3
    BY <1>4 DEF Order, ThreadLoad
  <2>2. \A i \in 1..3 : Following(Order[i]) = Order[i + 1]
    BY <2>1, FollowingAt DEF ThreadLoad
  <2>3. /\ Order[1] = "relays"
        /\ Path = {"relays", "events", "build"}
        /\ Following("relays") = "events"
        /\ Following("events") = "build"
    BY <2>1, <2>2 DEF ThreadLoad, Path
  <2> QED BY <1>4, <2>3
<1>5. CASE surface = "profile"
  <2>1. Order = ProfileLoad /\ DOMAIN Order = 1..6
    BY <1>5 DEF Order, ProfileLoad
  <2>2. \A i \in 1..6 : Following(Order[i]) = Order[i + 1]
    BY <2>1, FollowingAt DEF ProfileLoad
  <2>3. /\ Order[1] = "relays"
        /\ Path = {"relays", "routes", "coverage", "events", "range", "build"}
        /\ Following("relays") = "routes"
        /\ Following("routes") = "coverage"
        /\ Following("coverage") = "events"
        /\ Following("events") = "range"
        /\ Following("range") = "build"
    BY <2>1, <2>2 DEF ProfileLoad, Path
  <2> QED BY <1>5, <2>3
<1>6. CASE surface = "search"
  <2>1. Order = SearchLoad /\ DOMAIN Order = 1..3
    BY <1>6 DEF Order, SearchLoad
  <2>2. \A i \in 1..3 : Following(Order[i]) = Order[i + 1]
    BY <2>1, FollowingAt DEF SearchLoad
  <2>3. /\ Order[1] = "relays"
        /\ Path = {"relays", "events", "build"}
        /\ Following("relays") = "events"
        /\ Following("events") = "build"
    BY <2>1, <2>2 DEF SearchLoad, Path
  <2> QED BY <1>6, <2>3
<1>7. CASE surface = "author"
  <2>1. Order = AuthorLoad /\ DOMAIN Order = 1..4
    BY <1>7 DEF Order, AuthorLoad
  <2>2. \A i \in 1..4 : Following(Order[i]) = Order[i + 1]
    BY <2>1, FollowingAt DEF AuthorLoad
  <2>3. /\ Order[1] = "relays"
        /\ Path = {"relays", "routes", "events", "build"}
        /\ Following("relays") = "routes"
        /\ Following("routes") = "events"
        /\ Following("events") = "build"
    BY <2>1, <2>2 DEF AuthorLoad, Path
  <2> QED BY <1>7, <2>3
<1>8. CASE surface = "custom"
  <2>1. Order = CustomLoad /\ DOMAIN Order = 1..2
    BY <1>8 DEF Order, CustomLoad
  <2>2. \A i \in 1..2 : Following(Order[i]) = Order[i + 1]
    BY <2>1, FollowingAt DEF CustomLoad
  <2>3. /\ Order[1] = "relays"
        /\ Path = {"relays", "build"}
        /\ Following("relays") = "build"
    BY <2>1, <2>2 DEF CustomLoad, Path
  <2> QED BY <1>8, <2>3
<1>9. CASE surface = "followees"
  <2>1. Order = FolloweesLoad /\ DOMAIN Order = 1..4
    BY <1>9 DEF Order, FolloweesLoad
  <2>2. \A i \in 1..4 : Following(Order[i]) = Order[i + 1]
    BY <2>1, FollowingAt DEF FolloweesLoad
  <2>3. /\ Order[1] = "relays"
        /\ Path = {"relays", "routes", "follow", "build"}
        /\ Following("relays") = "routes"
        /\ Following("routes") = "follow"
        /\ Following("follow") = "build"
    BY <2>1, <2>2 DEF FolloweesLoad, Path
  <2> QED BY <1>9, <2>3
<1>10. CASE surface = "timeline"
  <2>1. Order = TimelineLoad /\ DOMAIN Order = 1..6
    BY <1>10 DEF Order, TimelineLoad
  <2>2. \A i \in 1..6 : Following(Order[i]) = Order[i + 1]
    BY <2>1, FollowingAt DEF TimelineLoad
  <2>3. /\ Order[1] = "relays"
        /\ Path = {"relays", "routes", "follow", "events", "coverage", "build"}
        /\ Following("relays") = "routes"
        /\ Following("routes") = "follow"
        /\ Following("follow") = "events"
        /\ Following("events") = "coverage"
        /\ Following("coverage") = "build"
    BY <2>1, <2>2 DEF TimelineLoad, Path
  <2> QED BY <1>10, <2>3
<1> QED BY <1>1, <1>2, <1>3, <1>4, <1>5, <1>6, <1>7, <1>8, <1>9, <1>10 DEF AllSurfaces

LEMMA RecentTyped ==
  /\ Recent \in [since : 0..Now, until : 0..Now] /\ Recent \in Spans
  /\ Minus(Recent.since, Span) \in 0..Now /\ Recent.since \in 0..Now
<1>1. Now \in Nat /\ Span \in Nat
  BY SpanAssumption
<1>2. Minus(Now, Span) \in 0..Now
  BY <1>1 DEF Minus
<1>3. Recent.since = Minus(Now, Span)
  BY DEF Recent
<1>4. Minus(Recent.since, Span) \in 0..Now
  BY <1>1, <1>2, <1>3 DEF Minus
<1> QED BY <1>1, <1>2, <1>3, <1>4 DEF Recent, Spans

LEMMA NothingRead == source = "Pending" => SourceIsProved
BY DEF SourceIsProved

LEMMA InitLoadInv == Init => LoadInv
<1> SUFFICES ASSUME Init PROVE LoadInv
  OBVIOUS
<1>1. Routed /\ surface \in AllSurfaces
  BY RoutedIs, SurfacesAssumption DEF Init
<1>2. TypeOK
  BY <1>1, RecentTyped DEF Init, TypeOK, Routed, Sources, NoRead, ReadKinds
<1>3. OnPath /\ EarlyIsPending /\ RoutesAreRead /\ DefaultsStandIn /\ FailureIsPartial
  BY <1>1 DEF Init, OnPath, EarlyIsPending, RoutesAreRead, DefaultsStandIn,
              FailureIsPartial, Routed
<1>4. Ranged => SourceIsProved
  BY NothingRead DEF Init
<1>5. SearchIsComplete /\ FolloweesAreSought /\ BuiltFromState
  BY <1>1 DEF Init, SearchIsComplete, FolloweesAreSought, BuiltFromState, Routed
<1> QED BY <1>2, <1>3, <1>4, <1>5 DEF LoadInv

\* The surface of a load does not change, nor does what follows from it.
LEMMA SameSurface ==
  ASSUME LoadInv, surface' = surface
  PROVE  /\ Routed /\ surface \in AllSurfaces
         /\ Path' = Path /\ Ranged' = Ranged
<1>1. surface \in AllSurfaces
  BY SurfacesAssumption DEF LoadInv, TypeOK
<1> QED BY <1>1, RoutedIs DEF Path, Order, Ranged

LEMMA ReadAccountLoadInv == ASSUME LoadInv, ReadAccount PROVE LoadInv'
<1>1. /\ stage = "account" /\ surface' = surface /\ selected' = selected /\ routes' = routes
      /\ follow' = follow /\ anchor' = anchor /\ coverage' = coverage /\ source' = source
      /\ scanned' = scanned /\ window' = window /\ read' = read /\ view' = view
      /\ stage' = Following(stage) /\ account' \in BOOLEAN
      /\ failed' = failed \/ failed' = failed \cup {stage}
  BY DEF ReadAccount, GoOn, Fails
<1>2. /\ Routed /\ surface \in AllSurfaces /\ Path' = Path /\ Ranged' = Ranged
  BY <1>1, SameSurface
<1>3. /\ TypeOK /\ OnPath /\ EarlyIsPending /\ RoutesAreRead /\ DefaultsStandIn
      /\ FailureIsPartial /\ SearchIsComplete
  BY DEF LoadInv
<1>4. /\ stage \in Path /\ stage' = "relays"
      /\ source = "Pending" /\ source' = "Pending" /\ failed \subseteq {"account"}
  BY <1>1, <1>2, <1>3 DEF OnPath, Routed, EarlyIsPending
<1>5. TypeOK'
  BY <1>1, <1>3, <1>4 DEF TypeOK, Stages
<1>6. OnPath' /\ RoutesAreRead'
  BY <1>1, <1>2, <1>3, <1>4 DEF OnPath, RoutesAreRead, Routed
<1>7. EarlyIsPending' /\ DefaultsStandIn' /\ FailureIsPartial' /\ SearchIsComplete'
  BY <1>1, <1>3, <1>4 DEF EarlyIsPending, DefaultsStandIn, FailureIsPartial, SearchIsComplete
<1>8. SourceIsProved'
  BY <1>4 DEF SourceIsProved
<1>9. FolloweesAreSought' /\ BuiltFromState'
  BY <1>4 DEF FolloweesAreSought, BuiltFromState
<1> QED BY <1>5, <1>6, <1>7, <1>8, <1>9 DEF LoadInv

LEMMA ReadRelaysLoadInv == ASSUME LoadInv, ReadRelays PROVE LoadInv'
<1>1. /\ stage = "relays" /\ surface' = surface /\ account' = account /\ routes' = routes
      /\ follow' = follow /\ anchor' = anchor /\ coverage' = coverage /\ source' = source
      /\ scanned' = scanned /\ window' = window /\ read' = read /\ view' = view
      /\ stage' \in {Following(stage), "build"}
      /\ Following(stage) = "routes" \/ surface = "search" => stage' = Following(stage)
  BY DEF ReadRelays, GoOn, GoOnIf, Reachable
<1>2. /\ Routed /\ surface \in AllSurfaces /\ Path' = Path /\ Ranged' = Ranged
  BY <1>1, SameSurface
<1>3. /\ TypeOK /\ OnPath /\ EarlyIsPending /\ RoutesAreRead /\ DefaultsStandIn
      /\ FailureIsPartial /\ SearchIsComplete
  BY DEF LoadInv
<1>4. /\ stage \in Path /\ source = "Pending" /\ source' = "Pending"
      /\ stage' \in {"routes", "follow", "coverage", "events", "build"} /\ stage' \in Path
      /\ surface = "followees" => stage' = "routes"
      /\ surface = "search" => stage' = "events"
      /\ surface = "home" => stage' \in {"follow", "build"}
      /\ "relays" \notin failed /\ "coverage" \notin failed
  BY <1>1, <1>2, <1>3 DEF OnPath, Routed, EarlyIsPending
<1>5. /\ selected' \in SUBSET Relays
      /\ \/ failed' = failed
         \/ failed' = failed \cup {"relays"} /\ (surface \notin StoredOnly => selected' = Defaults)
  BY <1>1, DefaultsAssumption
     DEF ReadRelays, Fails, SelectedRelays, StoredRelays, EffectiveRelays, StoredOnly
<1>6. TypeOK'
  BY <1>1, <1>3, <1>4, <1>5 DEF TypeOK, Stages
<1>7. OnPath' /\ RoutesAreRead' /\ EarlyIsPending'
  BY <1>1, <1>2, <1>3, <1>4, <1>5 DEF OnPath, RoutesAreRead, EarlyIsPending
<1>8. DefaultsStandIn' /\ FailureIsPartial' /\ SearchIsComplete'
  BY <1>1, <1>3, <1>4, <1>5 DEF DefaultsStandIn, FailureIsPartial, SearchIsComplete
<1>9. SourceIsProved' /\ FolloweesAreSought' /\ BuiltFromState'
  BY <1>1, <1>4 DEF SourceIsProved, FolloweesAreSought, BuiltFromState
<1> QED BY <1>6, <1>7, <1>8, <1>9 DEF LoadInv

LEMMA ReadRoutesLoadInv == ASSUME LoadInv, ReadRoutes PROVE LoadInv'
<1>1. /\ stage = "routes" /\ surface' = surface /\ account' = account
      /\ selected' = selected /\ follow' = follow /\ anchor' = anchor
      /\ coverage' = coverage /\ source' = source /\ scanned' = scanned
      /\ window' = window /\ read' = read /\ view' = view
      /\ stage' \in {Following(stage), "build"} /\ routes' \in SUBSET Relays
      /\ surface = "followees" => stage' = Following(stage)
      /\ failed' = failed \/ failed' = failed \cup {"routes"}
  BY DEF ReadRoutes, GoOnIf, Fails, Reachable
<1>2. /\ Routed /\ surface \in AllSurfaces /\ Path' = Path /\ Ranged' = Ranged
  BY <1>1, SameSurface
<1>3. /\ TypeOK /\ OnPath /\ EarlyIsPending /\ RoutesAreRead /\ DefaultsStandIn
      /\ FailureIsPartial /\ SearchIsComplete
  BY DEF LoadInv
<1>4. /\ stage \in Path /\ source = "Pending" /\ source' = "Pending"
      /\ stage' \in {"follow", "coverage", "events", "build"} /\ stage' \in Path
      /\ surface = "followees" => stage' = "follow"
      /\ surface \notin {"search", "home"}
      /\ "coverage" \notin failed
  BY <1>1, <1>2, <1>3 DEF OnPath, Routed, EarlyIsPending, FailureIsPartial
<1>5. TypeOK'
  BY <1>1, <1>3, <1>4 DEF TypeOK, Stages
<1>6. OnPath' /\ RoutesAreRead' /\ EarlyIsPending'
  BY <1>1, <1>2, <1>3, <1>4 DEF OnPath, RoutesAreRead, EarlyIsPending
<1>7. DefaultsStandIn' /\ FailureIsPartial' /\ SearchIsComplete'
  BY <1>1, <1>3, <1>4 DEF DefaultsStandIn, FailureIsPartial, SearchIsComplete
<1>8. SourceIsProved' /\ FolloweesAreSought' /\ BuiltFromState'
  BY <1>1, <1>4 DEF SourceIsProved, FolloweesAreSought, BuiltFromState
<1> QED BY <1>5, <1>6, <1>7, <1>8 DEF LoadInv

LEMMA ReadFollowListLoadInv == ASSUME LoadInv, ReadFollowList PROVE LoadInv'
<1>1. /\ stage = "follow" /\ surface' = surface /\ account' = account
      /\ selected' = selected /\ routes' = routes /\ anchor' = anchor
      /\ coverage' = coverage /\ scanned' = scanned
      /\ window' = window /\ read' = read /\ view' = view
      /\ stage' \in {Following(stage), "build"}
      /\ follow' \in {"found", "none", "trouble"}
      /\ \/ failed' = failed /\ source' = source
         \/ failed' = failed \cup {"follow"} /\ source' \in {source, "Partial"}
      /\ surface = "home" => source' = source /\ (stage' # "build" => follow' = "found")
  BY DEF ReadFollowList, GoOnIf, Fails
<1>2. /\ Routed /\ surface \in AllSurfaces /\ Path' = Path /\ Ranged' = Ranged
  BY <1>1, SameSurface
<1>3. /\ TypeOK /\ OnPath /\ EarlyIsPending /\ RoutesAreRead /\ DefaultsStandIn
      /\ FailureIsPartial /\ SearchIsComplete
  BY DEF LoadInv
<1>4. /\ stage \in Path /\ source = "Pending" /\ source' \in {"Pending", "Partial"}
      /\ source' = "Partial" => failed' # {}
      /\ stage' \in {"coverage", "events", "build"} /\ stage' \in Path
      /\ "coverage" \notin failed /\ "coverage" \notin failed'
      /\ surface # "search"
  BY <1>1, <1>2, <1>3 DEF OnPath, Routed, EarlyIsPending, FailureIsPartial
<1>5. TypeOK'
  BY <1>1, <1>3, <1>4 DEF TypeOK, Stages, Sources
<1>6. OnPath' /\ RoutesAreRead' /\ EarlyIsPending'
  BY <1>1, <1>2, <1>3, <1>4 DEF OnPath, RoutesAreRead, EarlyIsPending
<1>7. DefaultsStandIn' /\ FailureIsPartial' /\ SearchIsComplete'
  BY <1>1, <1>3, <1>4 DEF DefaultsStandIn, FailureIsPartial, SearchIsComplete
<1>8. SourceIsProved' /\ FolloweesAreSought' /\ BuiltFromState'
  BY <1>1, <1>4 DEF SourceIsProved, FolloweesAreSought, BuiltFromState
<1> QED BY <1>5, <1>6, <1>7, <1>8 DEF LoadInv

LEMMA CoverageIsKnown ==
  ASSUME LoadInv, NEW table \in Tables
  PROVE  table \in KnownRows
BY TablesAssumption DEF KnownRows

LEMMA ReadCoverageLoadInv == ASSUME LoadInv, ReadCoverage PROVE LoadInv'
<1>1. /\ stage = "coverage" /\ surface' = surface /\ account' = account
      /\ selected' = selected /\ routes' = routes /\ anchor' = anchor
      /\ follow' = follow /\ scanned' = scanned
      /\ window' = window /\ read' = read /\ view' = view
      /\ stage' = Following(stage)
      /\ \/ failed' = failed /\ coverage' \in Tables /\ source' = CoverageSource(coverage')
         \/ failed' = failed \cup {"coverage"} /\ coverage' = coverage /\ source' = "Partial"
  BY DEF ReadCoverage, GoOn, Fails, CoverageFailure
<1>2. /\ Routed /\ surface \in AllSurfaces /\ Path' = Path /\ Ranged' = Ranged
  BY <1>1, SameSurface
<1>3. /\ TypeOK /\ OnPath /\ EarlyIsPending /\ RoutesAreRead /\ DefaultsStandIn
      /\ FailureIsPartial /\ SearchIsComplete /\ FolloweesAreSought
  BY DEF LoadInv
<1>4. /\ stage \in Path /\ Ranged /\ "coverage" \notin failed /\ scanned = Recent
      /\ stage' \in {"events", "build"} /\ stage' \in Path
      /\ stage' = "events" => surface \in {"home", "global", "profile"}
      /\ surface \notin {"search", "followees"}
  BY <1>1, <1>2, <1>3 DEF OnPath, Routed, EarlyIsPending, FailureIsPartial, Ranged
<1>5. CoverageSource(coverage') = SourceOf(coverage', PlanRelays)
  <2>1. surface \in {"home", "global", "notifications"} => routes = {}
    BY <1>2, <1>3 DEF Routed, RoutesAreRead
  <2> QED BY <1>4, <2>1 DEF Ranged, CoverageSource, HomeCoverage, GlobalCoverage,
             NotificationsCoverage, TimelineCoverage, ProfileCoverage, PlanRelays, Queried
<1>6. PlanRelays' = PlanRelays
  BY <1>1 DEF PlanRelays, Queried
<1>7. /\ source' \in {"CacheComplete", "Partial"}
      /\ SourceIsProved'
  <2>1. CASE failed' = failed /\ coverage' \in Tables /\ source' = CoverageSource(coverage')
    <3>1. RangeComplete(coverage', PlanRelays, Recent)
            <=> PlanRelays # {} /\ Proved(coverage', PlanRelays, Recent)
      BY <2>1, RecentTyped, CompleteIsProved, CoverageIsKnown
    <3> QED BY <1>1, <1>4, <1>5, <1>6, <2>1, <3>1 DEF SourceOf, SourceIsProved
  <2>2. CASE failed' = failed \cup {"coverage"} /\ coverage' = coverage /\ source' = "Partial"
    BY <2>2 DEF SourceIsProved
  <2> QED BY <1>1, <2>1, <2>2
<1>8. TypeOK'
  BY <1>1, <1>3, <1>4, <1>7 DEF TypeOK, Stages, Sources
<1>9. OnPath' /\ RoutesAreRead' /\ EarlyIsPending'
  BY <1>1, <1>2, <1>3, <1>4 DEF OnPath, RoutesAreRead, EarlyIsPending
<1>10. DefaultsStandIn' /\ FailureIsPartial' /\ SearchIsComplete'
  BY <1>1, <1>2, <1>3, <1>4, <1>7 DEF DefaultsStandIn, FailureIsPartial, SearchIsComplete
<1>11. FolloweesAreSought' /\ BuiltFromState'
  BY <1>1, <1>3, <1>4 DEF FolloweesAreSought, BuiltFromState
<1> QED BY <1>7, <1>8, <1>9, <1>10, <1>11 DEF LoadInv

LEMMA ReadEventsLoadInv == ASSUME LoadInv, ReadEvents PROVE LoadInv'
<1>1. /\ stage = "events" /\ surface' = surface /\ account' = account
      /\ selected' = selected /\ routes' = routes /\ follow' = follow
      /\ coverage' = coverage /\ scanned' = scanned /\ read' = read /\ view' = view
      /\ stage' \in {Following(stage), "build"}
  BY DEF ReadEvents, GoOnIf
<1>2. /\ Routed /\ surface \in AllSurfaces /\ Path' = Path /\ Ranged' = Ranged
  BY <1>1, SameSurface
<1>3. /\ TypeOK /\ OnPath /\ EarlyIsPending /\ RoutesAreRead /\ DefaultsStandIn
      /\ FailureIsPartial /\ SearchIsComplete /\ (Ranged => SourceIsProved)
      /\ FolloweesAreSought
  BY DEF LoadInv
<1>4. /\ stage \in Path /\ stage' \in {"coverage", "range", "build"} /\ stage' \in Path
      /\ stage' = "coverage" => surface \in {"notifications", "timeline"}
      /\ scanned = Recent /\ surface \notin {"custom", "followees"}
  BY <1>1, <1>2, <1>3 DEF OnPath, Routed, EarlyIsPending
<1>5. \/ /\ failed' = failed /\ window' \in SUBSET Events /\ anchor' \in BOOLEAN
         /\ source' = SourceOfEvents(window')
      \/ /\ failed' = failed \cup {"events"} /\ window' = window /\ anchor' = anchor
         /\ source' = SourceOfTrouble
  BY <1>1 DEF ReadEvents, Fails
<1>6. ASSUME Ranged
      PROVE  /\ source' \in Sources /\ FailureIsPartial' /\ SearchIsComplete'
             /\ SourceIsProved'
  <2>1. \/ failed' = failed /\ source' = source
        \/ failed' = failed \cup {"events"} /\ source' \in {source, "Partial"}
    BY <1>5, <1>6 DEF Ranged, SourceOfEvents, SourceOfTrouble
  <2>2. PlanRelays' = PlanRelays
    BY <1>1 DEF PlanRelays, Queried
  <2>3. SourceIsProved'
    BY <1>1, <1>3, <1>6, <2>1, <2>2 DEF SourceIsProved
  <2>4. source' \in Sources /\ FailureIsPartial' /\ SearchIsComplete'
    BY <1>1, <1>3, <1>4, <1>6, <2>1
       DEF FailureIsPartial, SearchIsComplete, Ranged, TypeOK, Sources
  <2> QED BY <2>3, <2>4
<1>7. ASSUME ~Ranged
      PROVE  source' \in Sources /\ FailureIsPartial' /\ SearchIsComplete'
  <2>1. surface \in {"thread", "search", "author"}
    BY <1>2, <1>4, <1>7 DEF Ranged, AllSurfaces
  <2>2. /\ source' \in {"Partial", "Pending", "CacheComplete"}
        /\ surface = "search" /\ source' = "CacheComplete" => selected = {}
        /\ surface = "search" => source' \in {"CacheComplete", "Partial"} \/ selected # {}
    BY <1>5, <2>1 DEF SourceOfEvents, SearchSource, AnchoredSource, SourceOfTrouble
  <2>3. "coverage" \notin failed /\ "coverage" \notin failed'
    BY <1>2, <1>3, <1>5, <1>7 DEF OnPath, Routed
  <2> QED BY <1>1, <1>2, <1>7, <2>2, <2>3
          DEF FailureIsPartial, SearchIsComplete, Sources
<1>8. source' \in Sources /\ FailureIsPartial' /\ SearchIsComplete' /\ (Ranged => SourceIsProved)'
  BY <1>2, <1>6, <1>7
<1>9. TypeOK'
  BY <1>1, <1>3, <1>4, <1>5, <1>8 DEF TypeOK, Stages
<1>10. OnPath' /\ RoutesAreRead' /\ EarlyIsPending' /\ DefaultsStandIn'
  BY <1>1, <1>2, <1>3, <1>4, <1>5 DEF OnPath, RoutesAreRead, EarlyIsPending, DefaultsStandIn
<1>11. FolloweesAreSought' /\ BuiltFromState'
  BY <1>1, <1>3, <1>4 DEF FolloweesAreSought, BuiltFromState
<1> QED BY <1>8, <1>9, <1>10, <1>11 DEF LoadInv

LEMMA ReadRangeLoadInv == ASSUME LoadInv, ReadRange PROVE LoadInv'
<1> DEFINE decision == SparseDecision(source, window = {}, coverage, PlanRelays)
<1>1. /\ stage = "range" /\ surface' = surface /\ account' = account
      /\ selected' = selected /\ routes' = routes /\ follow' = follow /\ anchor' = anchor
      /\ coverage' = coverage /\ read' = read /\ view' = view
      /\ stage' = Following(stage)
      /\ source' = decision.source /\ scanned' = decision.range
  BY DEF ReadRange, GoOn
<1>2. /\ Routed /\ surface \in AllSurfaces /\ Path' = Path /\ Ranged' = Ranged
  BY <1>1, SameSurface
<1>3. /\ TypeOK /\ OnPath /\ EarlyIsPending /\ RoutesAreRead /\ DefaultsStandIn
      /\ FailureIsPartial /\ SearchIsComplete /\ (Ranged => SourceIsProved)
  BY DEF LoadInv
<1>4. /\ stage \in Path /\ stage' = "build" /\ stage' \in Path /\ "range" \in Path
      /\ surface = "profile" /\ Ranged /\ scanned = Recent
  BY <1>1, <1>2, <1>3 DEF OnPath, Routed, EarlyIsPending, Ranged
<1>5. /\ window' \in SUBSET Events
      /\ failed' = failed \/ failed' = failed \cup {"range"}
  BY <1>1, <1>3 DEF ReadRange, Fails, TypeOK
<1>6. PlanRelays' = PlanRelays
  BY <1>1 DEF PlanRelays, Queried
<1>7. /\ source' \in Sources /\ scanned' \in [since : 0..Now, until : 0..Now]
      /\ SourceIsProved'
      /\ source = "Partial" => source' = "Partial"
  <2>1. CASE window = {} /\ source = "CacheComplete"
    <3>1. decision = SparseScan(coverage, PlanRelays)
      BY <2>1 DEF SparseDecision
    <3>2. coverage \in KnownRows
      BY <1>3, CoverageIsKnown DEF TypeOK, KnownRows
    <3>3. /\ decision \in Decisions
          /\ decision.source = "EmptyProven" =>
               PlanRelays # {} /\ ProvedEmpty(coverage, PlanRelays, Interval(0, Now))
          /\ decision.source = "CacheComplete" =>
               PlanRelays # {} /\ Proved(coverage, PlanRelays, decision.range)
      BY <3>1, <3>2, ScanIsRight
    <3> HIDE DEF decision
    <3>4. decision.source # "Partial"
      BY <3>3 DEF Decisions
    <3> QED BY <1>1, <1>6, <2>1, <3>3, <3>4 DEF Decisions, Sources, SourceIsProved
  <2>2. CASE ~(window = {} /\ source = "CacheComplete")
    <3>1. source' = source /\ scanned' = Recent
      BY <1>1, <2>2 DEF SparseDecision, Decision
    <3>2. failed' = {} => failed = {}
      BY <1>5
    <3> QED BY <1>1, <1>3, <1>4, <1>6, <3>1, <3>2, RecentTyped DEF TypeOK, SourceIsProved
  <2> QED BY <2>1, <2>2
<1>8. TypeOK'
  BY <1>1, <1>3, <1>4, <1>5, <1>7 DEF TypeOK, Stages
<1>9. OnPath' /\ RoutesAreRead' /\ EarlyIsPending' /\ DefaultsStandIn'
  BY <1>1, <1>2, <1>3, <1>4, <1>5 DEF OnPath, RoutesAreRead, EarlyIsPending, DefaultsStandIn
<1>10. FailureIsPartial' /\ SearchIsComplete' /\ FolloweesAreSought' /\ BuiltFromState'
  BY <1>1, <1>2, <1>3, <1>4, <1>5, <1>7
     DEF FailureIsPartial, SearchIsComplete, FolloweesAreSought, BuiltFromState
<1> QED BY <1>7, <1>8, <1>9, <1>10 DEF LoadInv

LEMMA RelayReadTyped ==
  ASSUME TypeOK, NEW valid \in BOOLEAN
  PROVE  RelayRead(valid) \in [kind : ReadKinds, range : [since : 0..Now, until : 0..Now]]
<1> DEFINE ranges == [since : 0..Now, until : 0..Now]
           every == [kind : ReadKinds, range : ranges]
<1>1. /\ Recent \in ranges /\ scanned \in ranges
      /\ Interval(Minus(Recent.since, Span), Recent.since) \in ranges
  BY RecentTyped DEF TypeOK, Interval
<1>2. /\ NoRead \in every
      /\ \A kind \in ReadKinds, range \in ranges : ReadOf(kind, range) \in every
  BY <1>1 DEF NoRead, ReadOf, ReadKinds
<1>3. {"initial", "older", "follow"} \subseteq ReadKinds
  BY DEF ReadKinds
<1>4. surface \in AllSurfaces
  BY SurfacesAssumption DEF TypeOK
<1> HIDE DEF ranges, every
<1>5. RelayRead(valid) \in every
  BY <1>1, <1>2, <1>3, <1>4
     DEF RelayRead, HomeRead, GlobalRead, NotificationsRead, ThreadRead, ProfileRead,
         SearchRead, AuthorRead, CustomRead, FolloweesRead, TimelineRead, AllSurfaces
<1> QED BY <1>5 DEF ranges, every

LEMMA BuildLoadInv == ASSUME LoadInv, Build PROVE LoadInv'
<1>1. /\ stage = "build" /\ surface' = surface /\ account' = account
      /\ selected' = selected /\ routes' = routes /\ follow' = follow /\ anchor' = anchor
      /\ coverage' = coverage /\ source' = source /\ scanned' = scanned
      /\ window' = window /\ failed' = failed /\ stage' = "done"
  BY DEF Build
<1>2. PICK valid \in BOOLEAN, more \in BOOLEAN :
        read' = RelayRead(valid) /\ view' = LoadedView(valid, more)
  BY DEF Build
<1>3. /\ Routed /\ surface \in AllSurfaces /\ Path' = Path /\ Ranged' = Ranged
  BY <1>1, SameSurface
<1>4. /\ TypeOK /\ OnPath /\ EarlyIsPending /\ RoutesAreRead /\ DefaultsStandIn
      /\ FailureIsPartial /\ SearchIsComplete /\ (Ranged => SourceIsProved)
      /\ FolloweesAreSought
  BY DEF LoadInv
<1>5. PlanRelays' = PlanRelays
  BY <1>1 DEF PlanRelays, Queried
<1>6. read' \in [kind : ReadKinds, range : [since : 0..Now, until : 0..Now]]
  BY <1>2, <1>4, RelayReadTyped
<1>7. TypeOK'
  BY <1>1, <1>4, <1>6 DEF TypeOK, Stages
<1>8. OnPath' /\ RoutesAreRead' /\ EarlyIsPending' /\ DefaultsStandIn' /\ FailureIsPartial'
  BY <1>1, <1>3, <1>4
     DEF OnPath, RoutesAreRead, EarlyIsPending, DefaultsStandIn, FailureIsPartial
<1>9. SearchIsComplete' /\ FolloweesAreSought' /\ (Ranged => SourceIsProved)'
  BY <1>1, <1>3, <1>4, <1>5 DEF SearchIsComplete, FolloweesAreSought, SourceIsProved
<1>10. BuiltFromState'
  <2>1. RelayRead(valid)' = RelayRead(valid)
    BY <1>1, <1>5
       DEF RelayRead, HomeRead, GlobalRead, NotificationsRead, ThreadRead, ProfileRead,
           SearchRead, AuthorRead, CustomRead, FolloweesRead, TimelineRead
  <2>2. LoadedView(valid, more)' = LoadedView(valid, more)
    BY <1>1, <1>5
       DEF LoadedView, HomeLoaded, GlobalLoaded, NotificationsLoaded, ThreadLoaded,
           ProfileLoaded, SearchLoaded, AuthorLoaded, CustomLoaded, FolloweesLoaded,
           TimelineLoaded, Loaded
  <2> QED BY <1>2, <2>1, <2>2 DEF BuiltFromState
<1> QED BY <1>7, <1>8, <1>9, <1>10 DEF LoadInv

LEMMA IdleLoadInv == ASSUME LoadInv, UNCHANGED vars PROVE LoadInv'
<1>1. /\ surface' = surface /\ account' = account /\ stage' = stage
      /\ selected' = selected /\ routes' = routes /\ follow' = follow /\ anchor' = anchor
      /\ coverage' = coverage /\ source' = source /\ scanned' = scanned
      /\ window' = window /\ failed' = failed /\ read' = read /\ view' = view
  BY DEF vars
<1>2. Path' = Path /\ Ranged' = Ranged
  BY <1>1, SameSurface
<1>3. PlanRelays' = PlanRelays
  BY <1>1 DEF PlanRelays, Queried
<1>4. TypeOK' /\ OnPath' /\ EarlyIsPending' /\ RoutesAreRead' /\ DefaultsStandIn'
  BY <1>1, <1>2 DEF LoadInv, TypeOK, OnPath, EarlyIsPending, RoutesAreRead, DefaultsStandIn
<1>5. /\ FailureIsPartial' /\ SearchIsComplete' /\ FolloweesAreSought'
      /\ (Ranged => SourceIsProved)'
  BY <1>1, <1>2, <1>3
     DEF LoadInv, FailureIsPartial, SearchIsComplete, FolloweesAreSought, SourceIsProved
<1>6. \A valid \in BOOLEAN : RelayRead(valid)' = RelayRead(valid)
  BY <1>1, <1>3
     DEF RelayRead, HomeRead, GlobalRead, NotificationsRead, ThreadRead, ProfileRead,
         SearchRead, AuthorRead, CustomRead, FolloweesRead, TimelineRead
<1>7. \A valid \in BOOLEAN, more \in BOOLEAN :
        LoadedView(valid, more)' = LoadedView(valid, more)
  BY <1>1, <1>3
     DEF LoadedView, HomeLoaded, GlobalLoaded, NotificationsLoaded, ThreadLoaded,
         ProfileLoaded, SearchLoaded, AuthorLoaded, CustomLoaded, FolloweesLoaded,
         TimelineLoaded, Loaded
<1>8. BuiltFromState'
  BY <1>1, <1>6, <1>7 DEF LoadInv, BuiltFromState
<1> QED BY <1>4, <1>5, <1>8 DEF LoadInv

LEMMA NextLoadInv == LoadInv /\ [Next]_vars => LoadInv'
BY ReadAccountLoadInv, ReadRelaysLoadInv, ReadRoutesLoadInv, ReadFollowListLoadInv, ReadCoverageLoadInv,
   ReadEventsLoadInv, ReadRangeLoadInv, BuildLoadInv, IdleLoadInv DEF Next

LEMMA Invariance == Spec => []LoadInv
<1> QED BY InitLoadInv, NextLoadInv, PTL DEF Spec

----------------------------------------------------------------------------
(* The theorems *)

\* Every variable of a load keeps its type: in particular the sparse scan
\* stays within the history, however often its span doubles.
THEOREM TypeCorrect == Spec => []TypeOK
<1>1. LoadInv => TypeOK
  BY DEF LoadInv
<1> QED BY <1>1, Invariance, PTL

LEMMA LoadInvCompleteIsCovered == LoadInv => CompleteIsCovered
<1> SUFFICES ASSUME LoadInv, Done, Ranged PROVE
       /\ source = "CacheComplete" /\ surface # "profile" =>
              PlanRelays # {} /\ Proved(coverage, PlanRelays, Recent)
       /\ source = "CacheComplete" /\ surface = "profile" =>
              PlanRelays # {} /\ Proved(coverage, PlanRelays, scanned)
       /\ source = "EmptyProven" =>
              PlanRelays # {} /\ ProvedEmpty(coverage, PlanRelays, Interval(0, Now))
       /\ source = "Partial" /\ failed = {} /\ PlanRelays # {} =>
              ~Proved(coverage, PlanRelays, Recent)
  BY DEF CompleteIsCovered
<1>1. SourceIsProved /\ EarlyIsPending
  BY DEF LoadInv
<1> QED BY <1>1 DEF SourceIsProved, EarlyIsPending

\* A feed is called complete, and its relay read left out, exactly when the
\* rows of the store prove every second of the range for every relay of the
\* plan; a profile is called empty only when its whole history is proved empty.
\* It holds for any rows: the walk and the doubling scan make no mistake.
THEOREM CompletenessIsProved == Spec => []CompleteIsCovered
<1> QED BY LoadInvCompleteIsCovered, Invariance, PTL

LEMMA LoadInvReadUnlessProved == LoadInv => ReadUnlessProved
<1> SUFFICES ASSUME LoadInv, Done, Askable, Protected => account, read.kind = "none"
    PROVE  \/ source = "CacheComplete" /\ Ranged /\ "coverage" \notin failed
           \/ source = "EmptyProven" /\ "coverage" \notin failed
           \/ surface \in {"followees", "timeline"} /\ follow = "found"
           \/ surface = "followees" /\ follow = "trouble" /\ view.status = "PartialFailure"
           \/ surface = "custom" /\ view.status = "Invalid"
  BY DEF ReadUnlessProved
<1>1. /\ TypeOK /\ RoutesAreRead /\ DefaultsStandIn /\ FailureIsPartial /\ SearchIsComplete
      /\ FolloweesAreSought /\ BuiltFromState /\ stage = "done"
  BY DEF LoadInv, Done
<1>2. surface \in AllSurfaces /\ Routed
  BY <1>1, SurfacesAssumption, RoutedIs DEF TypeOK
<1>3. PICK valid \in BOOLEAN, more \in BOOLEAN :
        read = RelayRead(valid) /\ view = LoadedView(valid, more)
  BY <1>1 DEF BuiltFromState
<1>4. source \in {"CacheComplete", "EmptyProven"} => "coverage" \notin failed
  BY <1>1 DEF FailureIsPartial
<1>5. PlanRelays # {}
  <2>1. CASE "relays" \in failed /\ surface \notin StoredOnly
    <3>1. selected # {}
      BY <1>1, <2>1, DefaultsAssumption DEF DefaultsStandIn
    <3> QED BY <3>1 DEF PlanRelays, Queried
  <2> QED BY <2>1 DEF Askable, StoredOnly
<1>6. surface \notin {"profile", "author", "followees", "timeline"} => selected # {}
  BY <1>1, <1>2, <1>5 DEF PlanRelays, Queried, Routed, RoutesAreRead
<1>7. \A range : ReadOf("initial", range).kind # "none" /\ ReadOf("older", range).kind # "none"
                 /\ ReadOf("follow", range).kind # "none"
  BY DEF ReadOf
<1> USE <1>3, <1>4, <1>5, <1>6, <1>7 DEF RelayRead, Ranged
<1>8. CASE surface = "home"
  BY <1>8 DEF HomeRead, Protected
<1>9. CASE surface = "global"
  BY <1>9 DEF GlobalRead
<1>10. CASE surface = "notifications"
  BY <1>10 DEF NotificationsRead, Protected
<1>11. CASE surface = "thread"
  BY <1>11 DEF ThreadRead
<1>12. CASE surface = "profile"
  BY <1>12 DEF ProfileRead
<1>13. CASE surface = "search"
  BY <1>1, <1>13 DEF SearchRead, SearchIsComplete
<1>14. CASE surface = "author"
  BY <1>14 DEF AuthorRead
<1>15. CASE surface = "custom"
  BY <1>15 DEF CustomRead, LoadedView, CustomLoaded, View
<1>16. CASE surface = "followees"
  <2>1. follow \in {"found", "none", "trouble"}
    BY <1>1, <1>16 DEF FolloweesAreSought, TypeOK
  <2>2. CASE follow = "trouble"
    <3>1. view.status = "PartialFailure"
      BY <1>16, <2>2 DEF LoadedView, FolloweesLoaded, View
    <3> QED BY <1>16, <2>2, <3>1
  <2> QED BY <1>16, <2>1, <2>2 DEF FolloweesRead
<1>17. CASE surface = "timeline"
  BY <1>17 DEF TimelineRead
<1> QED BY <1>2, <1>8, <1>9, <1>10, <1>11, <1>12, <1>13, <1>14, <1>15, <1>16, <1>17
        DEF AllSurfaces

\* With a relay to ask, a load asks it whatever reads of the store fail, unless
\* the store proved the read needless or gave it the follow list it looks for, or
\* the custom request is not valid; or the surface is followees and it is the
\* follow list that cannot be read: that load asks nobody and says PartialFailure.
THEOREM TroubleIsNoProof == Spec => []ReadUnlessProved
<1> QED BY LoadInvReadUnlessProved, Invariance, PTL

LEMMA LoadInvLoadingIsWorkedOn == LoadInv => LoadingIsWorkedOn
<1> DEFINE footers == {"Loading", "ReadingRelays"}
           statuses == {"Loading", "LoadingFollows", "LoadingFeed", "LoadingDiscovery",
                        "Searching"}
<1> SUFFICES ASSUME LoadInv, Done, view.footer \in footers \/ view.status \in statuses
    PROVE  \/ read.kind # "none"
           \/ surface = "profile" /\ source = "CacheComplete" /\ window = {}
           \/ surface = "followees" /\ PlanRelays = {}
  BY DEF LoadingIsWorkedOn
<1>1. /\ TypeOK /\ RoutesAreRead /\ SearchIsComplete /\ FolloweesAreSought
      /\ BuiltFromState /\ stage = "done"
  BY DEF LoadInv, Done
<1>2. surface \in AllSurfaces /\ Routed /\ source \in Sources
      /\ follow \in {"unread", "found", "none", "trouble"}
  BY <1>1, SurfacesAssumption, RoutedIs DEF TypeOK
<1>3. PICK valid \in BOOLEAN, more \in BOOLEAN :
        read = RelayRead(valid) /\ view = LoadedView(valid, more)
  BY <1>1 DEF BuiltFromState
<1>4. \A status, footer : View(status, footer).status = status /\ View(status, footer).footer = footer
  BY DEF View
<1>5. surface \notin {"profile", "author", "followees", "timeline"} => PlanRelays = selected
  BY <1>1, <1>2 DEF PlanRelays, Queried, Routed, RoutesAreRead
<1>6. \A range : ReadOf("initial", range).kind # "none" /\ ReadOf("older", range).kind # "none"
                 /\ ReadOf("follow", range).kind # "none"
  BY DEF ReadOf
<1>7. ~(ConfigurationMissing.footer \in footers) /\ ~(ConfigurationMissing.status \in statuses)
      /\ ~(AccountMissing.footer \in footers) /\ ~(AccountMissing.status \in statuses)
  BY DEF ConfigurationMissing, AccountMissing, View
<1> DEFINE settled == {"CacheHit", "TerminalEmpty", "OlderLoadReady", "Partial"}
<1>8. ASSUME NEW status \in {"Ready", "Partial"}, NEW footer \in settled
      PROVE  view # View(status, footer)
  BY DEF View
<1>8a. \A w : CacheFooter(w) \in settled /\ OlderOrPartial(w) \in settled
  BY DEF CacheFooter, OlderOrPartial
<1>9. source # "RelayProgressive"
  BY <1>2 DEF Sources
<1> USE <1>3, <1>4, <1>5, <1>6, <1>7, <1>8, <1>9 DEF RelayRead, LoadedView
<1>10. CASE surface = "home"
  <2>1. CASE ~account \/ selected = {}
    BY <1>10, <2>1 DEF HomeLoaded
  <2>2. CASE account /\ selected # {} /\ source = "CacheComplete"
    <3>1. follow = "found"
      BY <1>1, <1>10, <2>2 DEF FolloweesAreSought
    <3>2. view = View("Ready", CacheFooter(Loaded(FALSE)))
      BY <1>10, <2>2, <3>1 DEF HomeLoaded, HomeView
    <3> QED BY <3>2, <1>8a
  <2>3. CASE account /\ selected # {} /\ source # "CacheComplete"
    BY <1>10, <2>3 DEF HomeRead
  <2> QED BY <2>1, <2>2, <2>3
<1>11. CASE surface = "global"
  <2>1. CASE selected = {}
    BY <1>11, <2>1 DEF GlobalLoaded
  <2>2. CASE selected # {} /\ source = "CacheComplete"
    <3>1. view = View("Ready", CacheFooter(Loaded(window # {})))
      BY <1>11, <2>2 DEF GlobalLoaded, GlobalView
    <3> QED BY <3>1, <1>8a
  <2>3. CASE selected # {} /\ source # "CacheComplete"
    BY <1>11, <2>3 DEF GlobalRead
  <2> QED BY <2>1, <2>2, <2>3
<1>12. CASE surface = "notifications"
  <2>1. CASE ~account \/ selected = {}
    BY <1>12, <2>1 DEF NotificationsLoaded
  <2>2. CASE account /\ selected # {} /\ source = "CacheComplete" /\ window # {}
    <3>1. view = View("Ready", "CacheHit")
      BY <1>12, <2>2 DEF NotificationsLoaded, NotificationsView, Loaded
    <3> QED BY <3>1
  <2>3. CASE account /\ selected # {} /\ ~(source = "CacheComplete" /\ window # {})
    BY <1>12, <2>3 DEF NotificationsRead
  <2> QED BY <2>1, <2>2, <2>3
<1>13. CASE surface = "thread"
  BY <1>13 DEF ThreadRead, ThreadLoaded
<1>14. CASE surface = "profile"
  <2>1. CASE PlanRelays = {}
    BY <1>14, <2>1 DEF ProfileLoaded
  <2>2. CASE source = "EmptyProven"
    BY <1>14, <2>2 DEF ProfileLoaded
  <2>3. CASE source = "CacheComplete" /\ window # {} /\ PlanRelays # {}
    <3>1. view = View("Ready", "CacheHit")
      BY <1>14, <2>3 DEF ProfileLoaded, ProfileView, Loaded
    <3> QED BY <3>1
  <2>4. CASE source \notin {"CacheComplete", "EmptyProven"} /\ PlanRelays # {}
    BY <1>14, <2>4 DEF ProfileRead
  <2> QED BY <1>14, <2>1, <2>2, <2>3, <2>4
<1>15. CASE surface = "search"
  <2>1. CASE source = "CacheComplete"
    <3> DEFINE w == Loaded(more /\ window # {})
    <3>1. view = View("Ready", IF w.rows /\ w.hasOlder THEN "OlderLoadReady" ELSE CacheFooter(w))
      BY <1>15, <2>1 DEF SearchLoaded, SearchView
    <3>2. (IF w.rows /\ w.hasOlder THEN "OlderLoadReady" ELSE CacheFooter(w)) \in settled
      BY <1>8a
    <3> HIDE DEF w
    <3> QED BY <3>1, <3>2
  <2>2. CASE source = "Partial"
    <3> DEFINE w == Loaded(more /\ window # {})
    <3>1. view = View("Partial", OlderOrPartial(w))
      BY <1>15, <2>2 DEF SearchLoaded, SearchView
    <3> QED BY <3>1, <1>8a
  <2>3. CASE source # "CacheComplete" /\ selected # {}
    BY <1>15, <2>3 DEF SearchRead
  <2> QED BY <1>1, <1>15, <2>1, <2>2, <2>3 DEF SearchIsComplete
<1>16. CASE surface = "author"
  BY <1>16 DEF AuthorRead, AuthorLoaded
<1>17. CASE surface = "custom"
  <2>1. CASE ~valid
    BY <1>17, <2>1 DEF CustomLoaded
  <2>2. CASE selected = {}
    BY <1>17, <2>2 DEF CustomLoaded
  <2>3. CASE valid /\ selected # {}
    BY <1>17, <2>3 DEF CustomRead
  <2> QED BY <2>1, <2>2, <2>3
<1>18. CASE surface = "followees"
  BY <1>1, <1>2, <1>18 DEF FolloweesRead, FolloweesLoaded, FolloweesAreSought
<1>19. CASE surface = "timeline"
  <2>1. CASE follow = "found"
    <3>1. \/ view = ConfigurationMissing \/ view = View("Partial", "Partial")
          \/ view = View("Ready", CacheFooter(Loaded(FALSE)))
      BY <1>19, <2>1 DEF TimelineLoaded
    <3>2. ConfigurationMissing.footer \notin footers /\ ConfigurationMissing.status \notin statuses
      BY <1>7
    <3>3. view # View("Partial", "Partial")
      BY <1>8
    <3> QED BY <3>1, <3>2, <3>3, <1>8a
  <2>2. CASE follow # "found" /\ PlanRelays # {}
    BY <1>19, <2>2 DEF TimelineRead
  <2>3. CASE PlanRelays = {}
    BY <1>19, <2>3 DEF TimelineLoaded
  <2> QED BY <2>1, <2>2, <2>3
<1> QED BY <1>2, <1>10, <1>11, <1>12, <1>13, <1>14, <1>15, <1>16, <1>17, <1>18, <1>19
        DEF AllSurfaces

\* A surface that says it is loading or reading is: the relay read that will
\* end it was started.
THEOREM LoadingIsNoPretence == Spec => []LoadingIsWorkedOn
<1> QED BY LoadInvLoadingIsWorkedOn, Invariance, PTL
=============================================================================
