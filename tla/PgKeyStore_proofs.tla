------------------------- MODULE PgKeyStore_proofs -------------------------
(***************************************************************************)
(* Proofs about PgKeyStore, for every set of clients, any number of        *)
(* replicas and of lookups in flight, and every number of keys and faults. *)
(***************************************************************************)
EXTENDS PgKeyStore, TLAPS

(* One key more can be drawn where the bound allows it.                    *)
LEMMA DrawLemma ==
  ASSUME drawn \in RawKeys, drawn < Cardinality(RawKeys)
  PROVE  drawn + 1 \in RawKeys /\ drawn + 1 # 0
BY PgKeyStoreAssumption

(* The migrated table is well typed.                                       *)
LEMMA InitType == Init => TypeOK
<1> SUFFICES ASSUME Init PROVE TypeOK
  OBVIOUS
<1>1. 1 \in RawKeys /\ 0 \in 0..MaxFaults
  BY PgKeyStoreAssumption
<1>2. QED
  BY <1>1 DEF Init, TypeOK, Row, NoRow, Stages

(* Every step keeps the state well typed.                                  *)
LEMMA TypeStep == TypeOK /\ [Next]_vars => TypeOK'
<1> SUFFICES ASSUME TypeOK, [Next]_vars PROVE TypeOK'
  OBVIOUS
<1> USE DEF TypeOK
<1>0. ASSUME NEW s \in Replicas PROVE HashForStore(s) \in 0..2
  BY DEF HashForStore, Active
<1>f. Fault => faults' \in 0..MaxFaults
  BY PgKeyStoreAssumption DEF Fault
<1>1. ASSUME NEW p \in Lookups, NEW s \in Replicas, Lookup(p, s) PROVE TypeOK'
  <2>1. PICK raw \in known, c \in Clients :
          lookup' = [lookup EXCEPT ![p] =
                       [pc |-> "rehash", replica |-> s, client |-> c, raw |-> raw]]
    BY <1>1 DEF Lookup, Matches
  <2>2. raw \in RawKeys
    BY <2>1
  <2>3. lookup' \in [Lookups -> {Idle} \cup Upgrades]
    BY <2>1, <2>2 DEF Upgrades
  <2>4. QED
    BY <1>1, <2>3 DEF Lookup
<1>2. ASSUME NEW p \in Lookups, Rehash(p) PROVE TypeOK'
  <2>1. lookup[p] \in Upgrades
    BY <1>2 DEF Rehash, Idle
  <2>2. lookup' \in [Lookups -> {Idle} \cup Upgrades]
    BY <1>2 DEF Rehash
  <2>3. HashForStore(lookup[p].replica) \in 0..2
    BY <2>1, <1>0 DEF Upgrades
  <2>4. table' \in [Clients -> [raw : RawKeys \cup {0}, pepper : 0..2, enabled : BOOLEAN]]
    BY <1>2, <2>1, <2>3 DEF Rehash, Upgrades
  <2>5. stolen' \subseteq Clients /\ known' \subseteq RawKeys /\ faults' \in 0..MaxFaults
    BY <1>2, <2>1, <1>f DEF Rehash, Upgrades
  <2>6. QED
    BY <1>2, <2>2, <2>4, <2>5 DEF Rehash
<1>3. ASSUME NEW c \in Clients, NEW s \in Replicas, Create(s, c) PROVE TypeOK'
  <2>1. drawn' \in RawKeys
    BY <1>3, DrawLemma DEF Create
  <2>2. QED
    BY <1>3, <2>1, <1>0 DEF Create, Row
<1>4. ASSUME NEW c \in Clients, CreateFails(c) PROVE TypeOK'
  <2>1. drawn' \in RawKeys
    BY <1>4, DrawLemma DEF CreateFails
  <2>2. QED
    BY <1>4, <2>1, <1>f DEF CreateFails
<1>5. ASSUME NEW c \in Clients, Update(c) PROVE TypeOK'
  BY <1>5 DEF Update
<1>6. ASSUME NEW c \in Clients, Delete(c) PROVE TypeOK'
  BY <1>6 DEF Delete, NoRow
<1>7. ASSUME NEW s \in Replicas, Restart(s) PROVE TypeOK'
  BY <1>7 DEF Restart, Stages
<1>8. ASSUME NEW c \in Clients, NEW s \in Replicas, CreateLost(s, c) PROVE TypeOK'
  <2>1. drawn' \in RawKeys
    BY <1>8, DrawLemma DEF CreateLost
  <2>2. QED
    BY <1>8, <2>1, <1>0, <1>f DEF CreateLost, Row
<1>9. CASE UNCHANGED vars
  BY <1>9 DEF vars
<1>10. QED
  BY <1>1, <1>2, <1>3, <1>4, <1>5, <1>6, <1>7, <1>8, <1>9 DEF Next

(* The table, the replicas and the lookups are well typed in every         *)
(* reachable state.                                                        *)
THEOREM TypeCorrect == Spec => []TypeOK
BY InitType, TypeStep, PTL DEF Spec

(* Every step leaves a client's row with the key made for it, unless       *)
(* it is the upgrade that overwrites another key's row.                    *)
LEMMA OwnerStep == TypeOK /\ RowBelongsToOwner /\ [Next]_vars => RowBelongsToOwner'
<1> SUFFICES ASSUME TypeOK, RowBelongsToOwner, [Next]_vars,
                    NEW c \in Clients, c \notin stolen'
             PROVE  table'[c].raw = issued'[c]
  BY DEF RowBelongsToOwner
<1> USE DEF TypeOK, RowBelongsToOwner
<1>1. ASSUME NEW p \in Lookups, NEW s \in Replicas, Lookup(p, s)
      PROVE  table'[c].raw = issued'[c]
  BY <1>1 DEF Lookup
<1>2. ASSUME NEW p \in Lookups, Rehash(p) PROVE table'[c].raw = issued'[c]
  <2>1. lookup[p] \in Upgrades
    BY <1>2 DEF Rehash, Idle
  <2>2. CASE UNCHANGED <<table, stolen>>
    BY <1>2, <2>2 DEF Rehash
  <2>3. CASE /\ table' = [table EXCEPT ![lookup[p].client].raw = lookup[p].raw,
                                       ![lookup[p].client].pepper = HashForStore(lookup[p].replica)]
             /\ stolen' = IF table[lookup[p].client].raw = lookup[p].raw
                          THEN stolen ELSE stolen \cup {lookup[p].client}
    <3>1. c \notin stolen
      BY <2>3
    <3>2. CASE c = lookup[p].client
      <4>1. table[c].raw = lookup[p].raw
        BY <2>3, <3>2
      <4>2. QED
        BY <1>2, <2>3, <3>1, <3>2, <4>1 DEF Rehash
    <3>3. CASE c # lookup[p].client
      BY <1>2, <2>1, <2>3, <3>1, <3>3 DEF Rehash, Upgrades
    <3>4. QED
      BY <3>2, <3>3
  <2>4. QED
    BY <1>2, <2>2, <2>3 DEF Rehash
<1>3. ASSUME NEW d \in Clients, NEW s \in Replicas, Create(s, d)
      PROVE  table'[c].raw = issued'[c]
  BY <1>3 DEF Create, Row
<1>4. ASSUME NEW d \in Clients, CreateFails(d) PROVE table'[c].raw = issued'[c]
  BY <1>4 DEF CreateFails
<1>5. ASSUME NEW d \in Clients, Update(d) PROVE table'[c].raw = issued'[c]
  BY <1>5 DEF Update
<1>6. ASSUME NEW d \in Clients, Delete(d) PROVE table'[c].raw = issued'[c]
  BY <1>6 DEF Delete, NoRow
<1>7. ASSUME NEW s \in Replicas, Restart(s) PROVE table'[c].raw = issued'[c]
  BY <1>7 DEF Restart
<1>8. ASSUME NEW d \in Clients, NEW s \in Replicas, CreateLost(s, d)
      PROVE  table'[c].raw = issued'[c]
  BY <1>8 DEF CreateLost, Row
<1>9. CASE UNCHANGED vars
  BY <1>9 DEF vars
<1>10. QED
  BY <1>1, <1>2, <1>3, <1>4, <1>5, <1>6, <1>7, <1>8, <1>9 DEF Next

(* A client's row answers to the key that was made for it and to no        *)
(* other, except after the one race of the upgrade by id                   *)
(* (postgres_store.go:83), for any number of replicas and lookups.         *)
THEOREM RowsBelongToOwners == Spec => []RowBelongsToOwner
<1>1. Init => RowBelongsToOwner
  BY DEF Init, RowBelongsToOwner, Row, NoRow
<1>2. QED
  BY <1>1, OwnerStep, TypeCorrect, PTL DEF Spec

(* A raw key is never the number 0 of a missing row.                       *)
LEMMA RawKeysPositive == 0 \notin RawKeys
BY PgKeyStoreAssumption

(* A row holds a raw key: a row with none is no row.                       *)
RowsHoldKeys == \A c \in Clients : table[c] # NoRow => table[c].raw \in RawKeys

(* What a step makes of the view: it changes at most one client's state,   *)
(* by an operation of the registry.                                        *)
OneOperation ==
    \/ View' = View
    \/ \E c \in Clients :
          \/ View[c] = "none" /\ View' = [View EXCEPT ![c] = "on"]
          \/ View[c] # "none" /\ \E v \in {"none", "on", "off"} : View' = [View EXCEPT ![c] = v]

(* Replacing one row changes one entry of the view.                        *)
LEMMA ViewOfEdit ==
  ASSUME TypeOK, NEW c \in Clients, NEW row, table' = [table EXCEPT ![c] = row]
  PROVE  View' = [View EXCEPT ![c] = State(row)]
BY DEF View, State, TypeOK

(* Every step is one operation of the registry or invisible in it.         *)
LEMMA RegistryStep ==
  TypeOK /\ RowsHoldKeys /\ [Next]_vars => RowsHoldKeys' /\ OneOperation
<1> SUFFICES ASSUME TypeOK, RowsHoldKeys, [Next]_vars PROVE RowsHoldKeys' /\ OneOperation
  OBVIOUS
<1>0. ASSUME table' = table PROVE RowsHoldKeys' /\ OneOperation
  BY <1>0 DEF RowsHoldKeys, OneOperation, View
<1>e. ASSUME NEW c \in Clients, NEW row, table' = [table EXCEPT ![c] = row],
             row # NoRow => row.raw \in RawKeys,
             \/ State(row) = State(table[c])
             \/ table[c] # NoRow /\ State(row) \in {"none", "on", "off"}
             \/ table[c] = NoRow /\ State(row) = "on"
      PROVE  RowsHoldKeys' /\ OneOperation
  <2>1. RowsHoldKeys'
    BY <1>e DEF RowsHoldKeys, TypeOK
  <2>2. View' = [View EXCEPT ![c] = State(row)] /\ View[c] = State(table[c])
    BY <1>e, ViewOfEdit DEF View
  <2>3. CASE State(row) = State(table[c])
    <3>1. View' = View
      BY <2>2, <2>3 DEF View
    <3>2. QED
      BY <2>1, <3>1 DEF OneOperation
  <2>4. CASE table[c] # NoRow /\ State(row) \in {"none", "on", "off"}
    BY <2>1, <2>2, <2>4 DEF OneOperation, State
  <2>5. CASE table[c] = NoRow /\ State(row) = "on"
    BY <2>1, <2>2, <2>5 DEF OneOperation, State
  <2>6. QED
    BY <1>e, <2>3, <2>4, <2>5
<1>1. ASSUME NEW p \in Lookups, NEW s \in Replicas, Lookup(p, s)
      PROVE  RowsHoldKeys' /\ OneOperation
  BY <1>1, <1>0 DEF Lookup
<1>2. ASSUME NEW p \in Lookups, Rehash(p) PROVE RowsHoldKeys' /\ OneOperation
  <2> DEFINE c == lookup[p].client
             row == [table[c] EXCEPT !.raw = lookup[p].raw, !.pepper = HashForStore(lookup[p].replica)]
  <2>1. lookup[p] \in Upgrades
    BY <1>2 DEF Rehash, Idle, TypeOK
  <2>2. CASE table' = table
    BY <2>2, <1>0
  <2>3. CASE /\ table[c] # NoRow
             /\ table' = [table EXCEPT ![c].raw = lookup[p].raw,
                                       ![c].pepper = HashForStore(lookup[p].replica)]
    <3>1. c \in Clients /\ lookup[p].raw \in RawKeys
      BY <2>1 DEF Upgrades
    <3>2. table' = [table EXCEPT ![c] = row]
      BY <2>3, <3>1 DEF TypeOK
    <3>3. row.raw \in RawKeys /\ row.enabled = table[c].enabled
      BY <3>1 DEF TypeOK
    <3>4. row # NoRow
      BY <3>3, RawKeysPositive DEF NoRow
    <3>5. State(row) = State(table[c])
      BY <2>3, <3>3, <3>4 DEF State
    <3> HIDE DEF c, row
    <3>6. QED
      BY <1>e, <3>1, <3>2, <3>3, <3>5
  <2>4. QED
    BY <1>2, <2>2, <2>3 DEF Rehash
<1>3. ASSUME NEW c \in Clients, NEW s \in Replicas, Create(s, c) \/ CreateLost(s, c)
      PROVE  RowsHoldKeys' /\ OneOperation
  <2> DEFINE row == Row(drawn', HashForStore(s))
  <2>1. drawn' \in RawKeys
    BY <1>3, DrawLemma DEF Create, CreateLost, TypeOK
  <2>2. row.raw \in RawKeys /\ row.enabled = TRUE
    BY <2>1 DEF Row
  <2>3. row # NoRow
    BY <2>2, RawKeysPositive DEF NoRow
  <2>4. State(row) = "on"
    BY <2>2, <2>3 DEF State
  <2>5. table[c] = NoRow /\ table' = [table EXCEPT ![c] = row]
    BY <1>3 DEF Create, CreateLost
  <2> HIDE DEF row
  <2>6. QED
    BY <1>e, <2>2, <2>4, <2>5
<1>4. ASSUME NEW c \in Clients, CreateFails(c) PROVE RowsHoldKeys' /\ OneOperation
  BY <1>4, <1>0 DEF CreateFails
<1>5. ASSUME NEW c \in Clients, Update(c) PROVE RowsHoldKeys' /\ OneOperation
  <2>1. PICK e \in BOOLEAN : table' = [table EXCEPT ![c].enabled = e]
    BY <1>5 DEF Update
  <2> DEFINE row == [table[c] EXCEPT !.enabled = e]
  <2>2. table' = [table EXCEPT ![c] = row] /\ table[c] # NoRow
    BY <1>5, <2>1 DEF Update, TypeOK
  <2>3. row.raw \in RawKeys
    BY <2>2 DEF RowsHoldKeys, TypeOK
  <2>4. State(row) \in {"none", "on", "off"}
    BY DEF State
  <2> HIDE DEF row
  <2>5. QED
    BY <1>e, <2>2, <2>3, <2>4
<1>6. ASSUME NEW c \in Clients, Delete(c) PROVE RowsHoldKeys' /\ OneOperation
  <2>1. table' = [table EXCEPT ![c] = NoRow] /\ table[c] # NoRow
    BY <1>6 DEF Delete
  <2>2. State(NoRow) \in {"none", "on", "off"}
    BY DEF State
  <2>3. QED
    BY <1>e, <2>1, <2>2
<1>7. ASSUME NEW s \in Replicas, Restart(s) PROVE RowsHoldKeys' /\ OneOperation
  BY <1>7, <1>0 DEF Restart
<1>8. CASE UNCHANGED vars
  BY <1>8, <1>0 DEF vars
<1>9. QED
  BY <1>1, <1>2, <1>3, <1>4, <1>5, <1>6, <1>7, <1>8 DEF Next

(* For any number of clients, replicas and lookups the Postgres table      *)
(* implements the abstract key registry: each edit is one operation of it, *)
(* upgrades, faults and restarts are invisible.                            *)
THEOREM TableImplementsRegistry == Spec => RegistrySpec
<1>1. Init => RowsHoldKeys /\ Registry!Init
  BY PgKeyStoreAssumption
     DEF Init, RowsHoldKeys, Row, NoRow, Registry!Init, Registry!States, View, State
<1>2. OneOperation => [Registry!Next]_View
  BY DEF OneOperation, Registry!Next, Registry!Create, Registry!Update, Registry!Delete
<1>3. QED
  BY <1>1, <1>2, RegistryStep, TypeCorrect, PTL DEF Spec, RegistrySpec, Registry!Spec
=============================================================================
