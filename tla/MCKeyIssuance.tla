--------------------------- MODULE MCKeyIssuance ---------------------------
(***************************************************************************)
(* Model-checking instances of KeyIssuance.  The interesting races need    *)
(* two admin calls on one request; a second request is what the public     *)
(* endpoint adds behind the admin store's back.                            *)
(***************************************************************************)
EXTENDS KeyIssuance, TLC

CONSTANTS r1, r2, a1, a2

\* Admin calls are interchangeable.
AdminSymmetry == Permutations(Admins)
=============================================================================
