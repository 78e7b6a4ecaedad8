----------------------------- MODULE PgKeyStore -----------------------------
(***************************************************************************)
(* The Postgres key store (internal/mcp/postgres_store.go) shared by       *)
(* several replicas, the versioned digests of internal/auth/keyhasher.go   *)
(* and the validator that checks a match again                             *)
(* (internal/auth/apikey_validator.go).  Replicas look keys up, upgrade    *)
(* the digests they match and edit the table while an operator rotates     *)
(* the pepper by restarting them one after the other.                      *)
(*                                                                         *)
(* A digest is the pair of the raw key and the pepper it was made with;    *)
(* pepper 0 is the plain SHA-256 of version 0.  Two pairs never collide.   *)
(***************************************************************************)
EXTENDS Naturals, FiniteSets, Sequences

CONSTANTS
    Clients,    \* client ids
    RawKeys,    \* raw keys, in the order GenerateKey draws them: 1..n
    Replicas,
    Lookups,    \* authentications in flight
    MaxFaults   \* bound on failing statements

ASSUME PgKeyStoreAssumption ==
    /\ Cardinality(RawKeys) \in Nat \ {0}
    /\ RawKeys = 1..Cardinality(RawKeys)
    /\ MaxFaults \in Nat

\* The pepper configuration of a replica through a rotation: the old pepper
\* alone, the new one with the old as previous, the new one alone.  (A
\* Postgres store does not start without an active pepper.)
Stages == 0..2
Active(stage) == IF stage = 0 THEN 1 ELSE 2
Previous(stage) == IF stage = 1 THEN {1} ELSE {}

VARIABLES
    table,      \* table[c]: the row of client c, or NoRow
    stage,      \* stage[s]: the configuration replica s runs with
    drawn,      \* raw keys drawn so far
    lookup,     \* lookup[p]: an authentication in flight
    faults,
    issued,     \* issued[c]: the raw key the row of c was made for, or 0
    stolen,     \* stolen: clients whose row an upgrade of another key overwrote
    known       \* known: raw keys that Create has handed out

vars == <<table, stage, drawn, lookup, faults, issued, stolen, known>>

NoRow == [raw |-> 0, pepper |-> 0, enabled |-> FALSE]
Row(raw, pepper) == [raw |-> raw, pepper |-> pepper, enabled |-> TRUE]
Idle == [pc |-> "idle"]

Veteran == CHOOSE c \in Clients : TRUE

\* The migrated table holds a key of version 0, from before there was a pepper.
Init ==
    /\ table = [c \in Clients |-> IF c = Veteran THEN Row(1, 0) ELSE NoRow]
    /\ issued = [c \in Clients |-> IF c = Veteran THEN 1 ELSE 0]
    /\ stage = [s \in Replicas |-> 0]
    /\ drawn = 1
    /\ lookup = [p \in Lookups |-> Idle]
    /\ faults = 0
    /\ stolen = {}
    /\ known = {1}
-----------------------------------------------------------------------------
\* KeyHasher.Candidates: the peppers under which replica s looks for a key.
Candidates(s) == {0, Active(stage[s])} \cup Previous(stage[s])

\* KeyHasher.HashForStore.
HashForStore(s) == Active(stage[s])

\* The rows a query by digest returns.
Matches(s, raw) ==
    {c \in Clients : table[c] # NoRow /\ table[c].raw = raw /\ table[c].pepper \in Candidates(s)}

\* The unique index on key_hash.
Taken(raw, pepper, c) ==
    \E d \in Clients \ {c} : table[d].raw = raw /\ table[d].pepper = pepper

Fault == faults < MaxFaults /\ faults' = faults + 1
-----------------------------------------------------------------------------
(* Lookup and Validate. *)

\* Mutation: only digests of version 0 are upgraded.
LookupUpgradesPlain(p, s) ==
    \E raw \in known : \E c \in Matches(s, raw) :
        /\ lookup[p].pc = "idle"
        /\ table[c].enabled /\ table[c].pepper = 0
        /\ lookup' = [lookup EXCEPT ![p] =
                [pc |-> "rehash", replica |-> s, client |-> c, raw |-> raw]]
        /\ UNCHANGED <<table, stage, drawn, faults, issued, stolen, known>>

\* The query finds an enabled key whose digest is not the active one.  Any
\* other lookup (no row or a failed query: unknown key; a disabled row:
\* revoked; an up-to-date row: admitted) answers and leaves nothing behind.
Lookup(p, s) ==
    \E raw \in known : \E c \in Matches(s, raw) :
        /\ lookup[p].pc = "idle"
        /\ table[c].enabled /\ table[c].pepper # HashForStore(s)
        /\ lookup' = [lookup EXCEPT ![p] =
                [pc |-> "rehash", replica |-> s, client |-> c, raw |-> raw]]
        /\ UNCHANGED <<table, stage, drawn, faults, issued, stolen, known>>

\* Mutation: the upgrade inserts the row when it is gone.
RehashUpserts(p) ==
    LET l == lookup[p]
        new == HashForStore(l.replica)
    IN  /\ l.pc = "rehash"
        /\ table' = [table EXCEPT ![l.client] = Row(l.raw, new)]
        /\ lookup' = [lookup EXCEPT ![p] = Idle]
        /\ UNCHANGED <<stage, drawn, faults, issued, stolen, known>>

\* maybeRehash: one UPDATE by client id.  It changes nothing when the row is
\* gone or another row holds the digest, and its result is ignored.  The
\* validator then compares the entry's digest with the candidates once more,
\* which it is one of by now, and the caller is admitted.
Rehash(p) ==
    LET l == lookup[p]
        new == HashForStore(l.replica)
        hit == table[l.client] # NoRow /\ ~Taken(l.raw, new, l.client)
    IN  /\ l.pc = "rehash"
        /\ \/ /\ hit
              /\ table' = [table EXCEPT ![l.client].raw = l.raw, ![l.client].pepper = new]
              /\ stolen' = IF table[l.client].raw = l.raw THEN stolen ELSE stolen \cup {l.client}
              /\ UNCHANGED faults
           \/ ~hit /\ UNCHANGED <<table, stolen, faults>>
           \/ Fault /\ UNCHANGED <<table, stolen>>
        /\ lookup' = [lookup EXCEPT ![p] = Idle]
        /\ UNCHANGED <<stage, drawn, issued, known>>
-----------------------------------------------------------------------------
(* Edits, each one statement. *)

\* Create: a fresh raw key; the primary key refuses an id that is taken.
Create(s, c) ==
    /\ table[c] = NoRow /\ drawn < Cardinality(RawKeys)
    /\ drawn' = drawn + 1
    /\ table' = [table EXCEPT ![c] = Row(drawn', HashForStore(s))]
    /\ issued' = [issued EXCEPT ![c] = drawn']
    /\ known' = known \cup {drawn'}
    /\ UNCHANGED <<stage, lookup, faults, stolen>>

\* The INSERT is committed and its answer is lost: the caller gets an error,
\* the client has a row, and nobody has its key.
CreateLost(s, c) ==
    /\ table[c] = NoRow /\ drawn < Cardinality(RawKeys)
    /\ Fault
    /\ drawn' = drawn + 1
    /\ table' = [table EXCEPT ![c] = Row(drawn', HashForStore(s))]
    /\ issued' = [issued EXCEPT ![c] = drawn']
    /\ UNCHANGED <<stage, lookup, stolen, known>>

\* An insert that fails, because the id is taken or the statement did not go
\* through, has drawn a key that nobody gets.
CreateFails(c) ==
    /\ drawn < Cardinality(RawKeys)
    /\ \/ table[c] # NoRow /\ UNCHANGED faults
       \/ Fault
    /\ drawn' = drawn + 1
    /\ UNCHANGED <<table, stage, lookup, issued, stolen, known>>

\* Mutation: the UPDATE has no WHERE clause.
UpdateEverybody(c) ==
    /\ table[c] # NoRow
    /\ \E e \in BOOLEAN :
          table' = [d \in Clients |->
                      IF table[d] = NoRow THEN NoRow ELSE [table[d] EXCEPT !.enabled = e]]
    /\ UNCHANGED <<stage, drawn, lookup, faults, issued, stolen, known>>

\* Update: enabled is the column that matters here.
Update(c) ==
    /\ table[c] # NoRow
    /\ \E e \in BOOLEAN : table' = [table EXCEPT ![c].enabled = e]
    /\ UNCHANGED <<stage, drawn, lookup, faults, issued, stolen, known>>

Delete(c) ==
    /\ table[c] # NoRow
    /\ table' = [table EXCEPT ![c] = NoRow]
    /\ issued' = [issued EXCEPT ![c] = 0]
    /\ stolen' = stolen \ {c}
    /\ UNCHANGED <<stage, drawn, lookup, faults, known>>

\* The operator restarts a replica with the next configuration of the
\* rotation; its authentications in flight end.
Restart(s) ==
    /\ stage[s] < 2
    /\ \A t \in Replicas : stage[t] >= stage[s]
    /\ stage' = [stage EXCEPT ![s] = @ + 1]
    /\ lookup' = [p \in Lookups |->
                    IF lookup[p].pc = "rehash" /\ lookup[p].replica = s THEN Idle ELSE lookup[p]]
    /\ UNCHANGED <<table, drawn, faults, issued, stolen, known>>

Next ==
    \/ \E p \in Lookups :
          Rehash(p) \/ \E s \in Replicas : Lookup(p, s)
    \/ \E c \in Clients :
          \/ CreateFails(c) \/ Update(c) \/ Delete(c)
          \/ \E s \in Replicas : Create(s, c) \/ CreateLost(s, c)
    \/ \E s \in Replicas : Restart(s)

Spec == Init /\ [][Next]_vars

\* A lookup that began ends: the statement runs under the request's context.
Fairness == \A p \in Lookups : WF_vars(Rehash(p))
FairSpec == Spec /\ Fairness
-----------------------------------------------------------------------------
(* Properties. *)

Upgrades == [pc : {"rehash"}, replica : Replicas, client : Clients, raw : RawKeys]

TypeOK ==
    /\ table \in [Clients -> [raw : RawKeys \cup {0}, pepper : 0..2, enabled : BOOLEAN]]
    /\ stage \in [Replicas -> Stages]
    /\ drawn \in RawKeys /\ faults \in 0..MaxFaults
    /\ lookup \in [Lookups -> {Idle} \cup Upgrades]
    /\ issued \in [Clients -> RawKeys \cup {0}]
    /\ stolen \subseteq Clients /\ known \subseteq RawKeys

\* The row of a client answers to the key that was made for it, to no
\* other, and a deleted client's key is gone: through every interleaving of
\* upgrades, edits and restarts.  The exception is the one the upgrade by id
\* (postgres_store.go:83) makes: a client deleted and created again while a
\* lookup of its old key was about to upgrade the row.
RowBelongsToOwner ==
    \A c \in Clients : c \notin stolen => table[c].raw = issued[c]

\* A row as the registry sees it: without its digest.
State(row) == IF row = NoRow THEN "none" ELSE IF row.enabled THEN "on" ELSE "off"
View == [c \in Clients |-> State(table[c])]

\* Whatever replicas, faults and restarts do, the table is a key registry:
\* the upgrade of a digest is invisible in it.
Registry == INSTANCE KeyRegistry WITH registry <- View
RegistrySpec == Registry!Spec

\* Client c keeps presenting its key.
Presents(c) ==
    \E p \in Lookups, s \in Replicas : Lookup(p, s) /\ lookup'[p].client = c

\* Within one rotation window a key that somebody has, that stays enabled and
\* keeps being used moves to the new pepper: maybeRehash retries on every
\* lookup.
KeyMovesOn ==
    \A c \in Clients :
        SF_vars(Presents(c)) =>
            (<>[](/\ table[c].enabled /\ table[c].raw \in known
                  /\ \A s \in Replicas : stage[s] = 1) => <>[](table[c].pepper = 2))
=============================================================================
