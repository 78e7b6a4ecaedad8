---------------------------- MODULE MCPgKeyStore ----------------------------
(* PgKeyStore with two clients, two replicas and two authentications.       *)
EXTENDS PgKeyStore
MCRawKeys == 1..3
=============================================================================
