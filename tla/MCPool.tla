------------------------------- MODULE MCPool -------------------------------
(***************************************************************************)
(* The clients of a page that outlive what they talk to, each behaviour    *)
(* one of them: the relay pool, which publishes two events to two relays   *)
(* and evicts idle clients; the subscription manager, with two callers of  *)
(* two shared paged reads; the kernel client of the SQLite worker, with    *)
(* three calls and two attempts to open.  No symmetry: the liveness        *)
(* properties tell the callers apart.                                      *)
(***************************************************************************)
EXTENDS SqliteKernel, PoolPublish

CONSTANTS Callers, Keys, MaxSeq, MaxLeaks

VARIABLES
    part,      \* which machine this behaviour runs
    call, stage, cancelled, inFlight, subId, readSeq, eose, managerClosed,
    clients, snapshot, counts, leaks

pageVars == <<call, stage, cancelled, inFlight, subId, readSeq, eose, managerClosed,
              clients, snapshot, counts, leaks>>

Pages == INSTANCE PageReads WITH phase <- stage, aborted <- cancelled, active <- counts, closed <- managerClosed

MCInit == /\ part \in {"kernel", "pool", "pages"}
          /\ Init /\ PoolInit /\ Pages!Init
          /\ lock = Free \/ part = "kernel"

MCNext == \/ part = "kernel" /\ Next /\ UNCHANGED <<part, poolVars, pageVars>>
          \/ part = "pool" /\ PoolNext /\ UNCHANGED <<part, vars, pageVars>>
          \/ part = "pages" /\ Pages!Next /\ UNCHANGED <<part, vars, poolVars>>

MCSpec == MCInit /\ [][MCNext]_<<part, vars, poolVars, pageVars>>
          /\ Fairness /\ Pages!Fairness

EveryReadSettles == Pages!EveryReadSettles
=============================================================================
