---------------------------- MODULE KeyRegistry ----------------------------
(***************************************************************************)
(* What an API key store promises: a durable map from client to key state  *)
(* that changes only by one whole operation at a time, each applied to the *)
(* current contents.  Crashes, restarts and failed saves are not visible.  *)
(***************************************************************************)
CONSTANT Clients

VARIABLE registry      \* [Clients -> {"none", "on", "off"}]

States == {"none", "on", "off"}

\* KeyStoreBackend.Create: only for a client that has no entry.
Create(c) ==
    /\ registry[c] = "none"
    /\ registry' = [registry EXCEPT ![c] = "on"]

\* KeyStoreBackend.Update: only for a client that has an entry.
Update(c, s) ==
    /\ registry[c] # "none"
    /\ registry' = [registry EXCEPT ![c] = s]

\* KeyStoreBackend.Delete: only for a client that has an entry.
Delete(c) ==
    /\ registry[c] # "none"
    /\ registry' = [registry EXCEPT ![c] = "none"]

Init == registry \in [Clients -> States]

Next == \E c \in Clients :
            Create(c) \/ Delete(c) \/ \E s \in {"on", "off"} : Update(c, s)

Spec == Init /\ [][Next]_registry
=============================================================================
