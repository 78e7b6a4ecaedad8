---------------------------- MODULE MCRpcClient ----------------------------
(***************************************************************************)
(* Model-checking instances of RpcClient.  Two calls are enough for a      *)
(* result to arrive in a later generation than its call was admitted in.   *)
(***************************************************************************)
EXTENDS RpcClient

CONSTANTS c1, c2
=============================================================================
