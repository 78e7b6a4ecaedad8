---------------------------- MODULE MCAnchorTools ----------------------------
(* Tables of up to three registries that grow by two steps, pages of two    *)
(* rows that the chain may cut to one, walks of at most two pages.           *)
EXTENDS AnchorTools

Plain == {"contains"}
All == Modes
MCClasses == {Plain, All}
MCTables == UNION {[1 .. n -> MCClasses] : n \in 0 .. 3}
MCTips == {-1, 0, 3}

Ask(tool, match, offset, limit, key, index, legacy, faults) ==
    [tool |-> tool, match |-> match, offset |-> offset, limit |-> limit, key |-> key,
     index |-> index, legacy |-> legacy, faults |-> faults]

Listings == {Ask("list", "", o, l, k, 0, FALSE, {}) : o \in {0, 1, 5}, l \in {0, 1, 3}, k \in {0, 2}}
            \cup {Ask("list", m, 0, 0, 9, 0, FALSE, f) : m \in {"", "exact"}, f \in {{}, {"key"}}}
Scans == {Ask("scan", m, o, l, 0, 0, FALSE, {}) :
             m \in {"", "contains"}, o \in {0, 1}, l \in {0, 1, Wrap - 1}}
         \cup {Ask("scan", m, 0, 0, k, 0, FALSE, {}) : m \in {"fuzzy", "suffix"}, k \in {0, 2}}
Lookups == {Ask(t, m, 0, 0, 0, i, FALSE, f) :
              t \in {"by_id", "registry", "records"}, m \in {"", "exact"}, i \in {1, 5}, f \in {{}, {"id"}}}
Prepares == {Ask(t, "", 0, 0, 0, 0, legacy, f) :
               t \in PrepareTools, legacy \in BOOLEAN,
               f \in {{}, {"from_malformed"}, {"checksum", "role"}}}
            \cup {Ask("update_status", "", 0, 0, 0, 1, TRUE, {})}
\* A reading call does not look at the account, nor a preparation at the table.
MCInit ==
    /\ ToolsInit
    /\ \/ account = [nonce |-> 0, version |-> 0, price |-> 1]
       \/ table = << >> /\ cap = 1 /\ ~counts
MCSpec == MCInit /\ [][ToolsNext]_toolVars

MCRequests == Listings \cup Scans \cup Lookups \cup Prepares
=============================================================================
