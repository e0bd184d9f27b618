------------------------------- MODULE MCReads -------------------------------
(***************************************************************************)
(* The relay reads of the Rust hosts, each behaviour one read from two     *)
(* relays.  The nine reads of windows: a window of three events, a page of *)
(* two, at most three views of a Custom Request.  The three reads through  *)
(* the store: two events for a profile header, at most two stored.         *)
(***************************************************************************)
EXTENDS WindowRead, StoredRead

VARIABLE stored   \* whether this behaviour reads through the store

\* The read that does not run has one state.
MCInit ==
    /\ stored \in BOOLEAN
    /\ Init /\ StoredInit
    /\ stored => kind = "follow" /\ cached = CHOOSE c \in CachedRows : TRUE
    /\ ~stored => surface = "header"

MCNext == \/ ~stored /\ Next /\ UNCHANGED <<stored, storedVars>>
          \/ stored /\ StoredNext /\ UNCHANGED <<stored, vars>>

MCSpec == MCInit /\ [][MCNext]_<<stored, vars, storedVars>> /\ Fairness /\ StoredFairness

\* Whatever the surface, a read that began ends, even if no relay answers.
EveryReadEnds == ReadSettles /\ StoredSettles
=============================================================================
