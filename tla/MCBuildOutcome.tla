--------------------------- MODULE MCBuildOutcome ---------------------------
(***************************************************************************)
(* Two clients and two values of every argument, at the boundaries of the  *)
(* checks: no jobs, the largest mask and the one after it, the epoch before*)
(* the first, and two values that are no enumerator.                       *)
(***************************************************************************)
EXTENDS BuildOutcome, TLC

MCEpoch == {-1, 0, Absent}
Symmetric == Permutations(Client)

=============================================================================
