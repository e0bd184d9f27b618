--------------------------- MODULE MCReadLimiter ---------------------------
(***************************************************************************)
(* Instances of ReadLimiter for TLC.  The readers are not declared         *)
(* symmetric: the liveness properties tell them apart.                     *)
(***************************************************************************)
EXTENDS ReadLimiter
=============================================================================
