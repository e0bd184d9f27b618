--------------------------- MODULE ReadAdmission ---------------------------
(***************************************************************************)
(* What the read limiter promises its callers, without counts and queues:  *)
(* a paged read asks for a set of relays and is admitted to all of them in *)
(* one step, or refused; no relay ever serves more than Max admitted       *)
(* reads; only a read whose signal aborted is refused.  Module PageReads   *)
(* relies on an admission of this kind, module ReadLimiter implements it.  *)
(***************************************************************************)
EXTENDS Integers, FiniteSets

CONSTANTS Readers, Relays, Max

VARIABLES call,    \* call[r]: "idle", "asking" or "admitted"
          claim,   \* claim[r]: the relays the call asks for, or has
          revoked, \* revoked[r]: the signal of the call aborted
          closed   \* the limiter takes no new calls

vars == <<call, claim, revoked, closed>>

Init == /\ call = [r \in Readers |-> "idle"]
        /\ claim = [r \in Readers |-> {}]
        /\ revoked = [r \in Readers |-> FALSE]
        /\ closed = FALSE

\* The admitted reads of relay x.
Crowd(x) == {r \in Readers : call[r] = "admitted" /\ x \in claim[r]}

\* The signal may have aborted before the call.
Ask(r) == /\ ~closed /\ call[r] = "idle"
          /\ call' = [call EXCEPT ![r] = "asking"]
          /\ \E S \in (SUBSET Relays) \ {{}}, pre \in BOOLEAN :
               /\ claim' = [claim EXCEPT ![r] = S]
               /\ revoked' = [revoked EXCEPT ![r] = pre]
          /\ UNCHANGED closed

Admit(r) == /\ call[r] = "asking"
            /\ \A x \in claim[r] : Cardinality(Crowd(x)) < Max
            /\ call' = [call EXCEPT ![r] = "admitted"]
            /\ UNCHANGED <<claim, revoked, closed>>

Ends(r) == /\ call' = [call EXCEPT ![r] = "idle"]
           /\ claim' = [claim EXCEPT ![r] = {}]
           /\ UNCHANGED <<revoked, closed>>

Refuse(r) == call[r] = "asking" /\ revoked[r] /\ Ends(r)

Leave(r) == call[r] = "admitted" /\ Ends(r)

Revoke(r) == /\ call[r] # "idle" /\ ~revoked[r]
             /\ revoked' = [revoked EXCEPT ![r] = TRUE]
             /\ UNCHANGED <<call, claim, closed>>

\* Whoever uses the limiter closes it and aborts its reads.
Close == /\ ~closed /\ closed' = TRUE
         /\ revoked' = [r \in Readers |-> revoked[r] \/ call[r] # "idle"]
         /\ UNCHANGED <<call, claim>>

Next == \/ \E r \in Readers : Ask(r) \/ Admit(r) \/ Refuse(r) \/ Leave(r) \/ Revoke(r)
        \/ Close

Spec == Init /\ [][Next]_vars
=============================================================================
