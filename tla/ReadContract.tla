---------------------------- MODULE ReadContract ----------------------------
(***************************************************************************)
(* What a feed surface may rely on from any relay read, whatever relays do:*)
(* views arrive while the read runs, the last of them arrives with, or     *)
(* before, its end, and nothing arrives after the end or after the         *)
(* release.                                                                *)
(***************************************************************************)
VARIABLES phase,    \* "idle", "running", "settled" or "released"
          shown     \* the view last delivered to the surface

vars == <<phase, shown>>

Init == phase = "idle"

Begin   == phase = "idle" /\ phase' \in {"running", "settled"}

Update  == phase = "running" /\ UNCHANGED phase

Settle  == phase = "running" /\ phase' = "settled"

Release == phase' = "released" /\ UNCHANGED shown

Next == Begin \/ Update \/ Settle \/ Release

Spec == Init /\ [][Next]_vars
=============================================================================
