---------------------------- MODULE MCWriteRelay ----------------------------
(***************************************************************************)
(* Model-checking instances of WriteRelay.  Signers do not interact, so    *)
(* one is enough; two calls are enough to pass the same count.  A window   *)
(* of three ticks and a retention of one let the purge delete a running    *)
(* counter; the next tick lets a call straddle a rollover.                 *)
(***************************************************************************)
EXTENDS WriteRelay, TLC

CONSTANTS s1, c1, c2

\* Calls are interchangeable.
CallSymmetry == Permutations(Calls)
=============================================================================
