----------------------------- MODULE MCKeyFile -----------------------------
(***************************************************************************)
(* Model-checking instances of KeyFile.  Two clients are enough for one    *)
(* process to overwrite the other's change to a different client; the      *)
(* inode bound allows two complete saves after the initial file, and more  *)
(* are refused as a failed CreateTemp.                                     *)
(***************************************************************************)
EXTENDS KeyFile

CONSTANTS c1, c2, t1
=============================================================================
