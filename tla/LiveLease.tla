----------------------------- MODULE LiveLease -----------------------------
(***************************************************************************)
(* Live leases of the subscription orchestrator:                           *)
(*   src/lib/relays/orchestration/orchestrator-live.ts                     *)
(*   src/lib/relays/orchestration/demand-registry.ts                       *)
(*                                                                         *)
(* An owner is a tab runtime.  A print is the fingerprint of a live        *)
(* demand: owners with the same print share one lease, hence one wire      *)
(* subscription.  Every operation is synchronous, so each is one action;   *)
(* the order of the calls is what varies.                                  *)
(*                                                                         *)
(* An owner attaches with the visibility its tab has at that moment, also  *)
(* a print it has registered already, as Home attaches its follow list     *)
(* twice.  Left out are the listeners of a lease, which only pass events   *)
(* on, and Home's notes, whose visibility is read before an await.         *)
(***************************************************************************)
EXTENDS FiniteSets

CONSTANTS Owners, Prints

VARIABLES shown,     \* shown[o]: the visibility last set by the tab of o
          demand,    \* demand[o][p]: the registry, by owner and print
          lease,     \* the prints that have a lease record
          wire,      \* the prints whose lease has a releaseManager
          closed     \* the orchestrator was closed

vars == <<shown, demand, lease, wire, closed>>

Visibilities == {"visible", "hidden"}

Init == /\ shown = [o \in Owners |-> "visible"]
        /\ demand = [o \in Owners |-> [p \in Prints |-> "none"]]
        /\ lease = {}
        /\ wire = {}
        /\ closed = FALSE

----------------------------------------------------------------------------
(* The registry's queries, over a registry d *)

HasOwners(d, p)     == \E o \in Owners : d[o][p] # "none"
VisibleOwners(d, p) == {o \in Owners : d[o][p] = "visible"}

----------------------------------------------------------------------------
(* Actions *)

\* subscribeDemand / submitLiveIntent.  The registration of an owner who had
\* one is overwritten.  A hidden demand is only registered; a visible one gets
\* a lease, whose wire is opened when the lease is new and only then.
Attach(o, p) ==
  /\ demand' = [demand EXCEPT ![o][p] = shown[o]]
  /\ \/ /\ shown[o] = "hidden"
        /\ UNCHANGED <<lease, wire>>
     \/ /\ shown[o] = "visible"
        /\ lease' = lease \cup {p}
        /\ wire' = IF p \in lease THEN wire ELSE wire \cup {p}
  /\ UNCHANGED <<shown, closed>>

DetachKeepingWire(o, p) ==
  /\ demand' = [demand EXCEPT ![o][p] = "none"]
  /\ LET dead == {q \in {p} : ~ HasOwners(demand', q)}
     IN  lease' = lease \ dead /\ wire' = wire \ dead
  /\ UNCHANGED <<shown, closed>>

\* The handle of an attach is released: the registration goes, be it of this
\* attach or of a later one, and the wire closes when no visible owner is left;
\* the record stays as long as there is any owner (detachLive).
Detach(o, p) ==
  /\ demand' = [demand EXCEPT ![o][p] = "none"]
  /\ lease' = {q \in lease : q = p => HasOwners(demand', q)}
  /\ wire' = {q \in wire : q = p => VisibleOwners(demand', q) # {}}
  /\ UNCHANGED <<shown, closed>>

PauseSuspendingItsLeases(o) ==
  /\ shown' = [shown EXCEPT ![o] = "hidden"]
  /\ demand' = [demand EXCEPT ![o] = [p \in Prints |-> IF @[p] = "none" THEN "none"
                                                       ELSE "hidden"]]
  /\ wire' = {p \in wire : demand[o][p] = "none"}
  /\ UNCHANGED <<lease, closed>>

\* pauseOwner: the owner's demands become hidden and every lease without a
\* visible owner is suspended.
Pause(o) ==
  /\ shown' = [shown EXCEPT ![o] = "hidden"]
  /\ demand' = [demand EXCEPT ![o] = [p \in Prints |-> IF @[p] = "none" THEN "none"
                                                       ELSE "hidden"]]
  /\ wire' = {p \in wire : VisibleOwners(demand', p) # {}}
  /\ UNCHANGED <<lease, closed>>

\* resumeOwner: the owner's demands become visible and the leases among them
\* that are suspended get a wire again.
Resume(o) ==
  /\ shown' = [shown EXCEPT ![o] = "visible"]
  /\ demand' = [demand EXCEPT ![o] = [p \in Prints |-> IF @[p] = "none" THEN "none"
                                                       ELSE "visible"]]
  /\ wire' = wire \cup {p \in lease : demand'[o][p] # "none"}
  /\ UNCHANGED <<lease, closed>>

ReleaseRegistryOnly(o) ==
  /\ demand' = [demand EXCEPT ![o] = [p \in Prints |-> "none"]]
  /\ UNCHANGED <<shown, lease, wire, closed>>

\* A tab closes: its runtime calls releaseOwner, which detaches the owner from
\* every lease and drops its other registrations.  The handles the runtime
\* releases before and after are Detach.
ReleaseOwner(o) ==
  /\ demand' = [demand EXCEPT ![o] = [p \in Prints |-> "none"]]
  /\ LET left == {p \in lease : demand[o][p] # "none"}
     IN  /\ lease' = lease \ {p \in left : ~ HasOwners(demand', p)}
         /\ wire' = wire \ {p \in left : VisibleOwners(demand', p) = {}}
  /\ UNCHANGED <<shown, closed>>

\* orchestrator.close: every wire is closed and the records are dropped; the
\* registry is not cleared.
Close ==
  /\ ~closed
  /\ closed' = TRUE
  /\ lease' = {} /\ wire' = {}
  /\ UNCHANGED <<shown, demand>>

Next == \/ \E o \in Owners, p \in Prints : Attach(o, p) \/ Detach(o, p)
        \/ \E o \in Owners : Pause(o) \/ Resume(o) \/ ReleaseOwner(o)
        \/ Close

Spec == Init /\ [][Next]_vars

----------------------------------------------------------------------------
(* Properties *)

\* Every variable has its type; a wire belongs to a record.
TypeOK == /\ shown \in [Owners -> Visibilities]
          /\ demand \in [Owners -> [Prints -> Visibilities \cup {"none"}]]
          /\ lease \subseteq Prints
          /\ wire \subseteq lease
          /\ closed \in BOOLEAN

\* No relay traffic for tabs that are all hidden or gone: a wire is open only
\* while some owner of its print is visible (closeWire in detachLive,
\* pauseOwner and releaseOwner).
WireOnlyWhileVisible == \A p \in wire : VisibleOwners(demand, p) # {}

\* No lease outlives its owners, in whatever order tabs attach, attach again,
\* pause, detach and close: when the last registration is gone the record is too.
LeaseHasOwner == \A p \in lease : HasOwners(demand, p)

\* A tab that pauses, detaches or closes never cuts the stream of another
\* one: a wire closes only when no visible owner is left for its print.
NoCutUnderVisibleOwner ==
  [][~closed' => \A p \in wire \ wire' : VisibleOwners(demand', p) = {}]_vars
=============================================================================
