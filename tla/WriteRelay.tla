----------------------------- MODULE WriteRelay -----------------------------
(***************************************************************************)
(* evm_send_raw_transaction: the write relay, its per-signer gates, and    *)
(* the Postgres tables behind them (signer_quota, signer_blacklist,        *)
(* write_audit) that all replicas, the admin API and the retention purge   *)
(* share.                                                                  *)
(*                                                                         *)
(* A call is one execution of the handler, on any replica.  Every SQL      *)
(* statement and the RPC to the node is a step of its own: nothing is      *)
(* locked between the quota check, the broadcast and the increment.  A     *)
(* call may die between any two steps (the process stops), a store         *)
(* statement may fail (outage, or a cancelled request context), and the    *)
(* node may accept a transaction and the answer be lost.                   *)
(*                                                                         *)
(* A transaction is its recovered signer and its kind: "anchor" (to the    *)
(* precompile, no value), "payable" (to the precompile, with value),       *)
(* "elsewhere" (any other destination) or "garbled" (does not decode).     *)
(* The node is assumed to read in the bytes it gets what DecodeSignedTx    *)
(* reads in the caller's: under keyless writes they are the decoded        *)
(* transaction encoded again, otherwise the caller's own.                  *)
(* Rejected calls end without a trace in the state modelled here.          *)
(***************************************************************************)
EXTENDS Integers, FiniteSets

CONSTANTS
    Signers,
    None,              \* no signer: a call that is not running
    Calls,             \* concurrent handler executions, over all replicas
    Modes,             \* the deployments considered
    Rate,              \* MCP_SIGNER_WRITE_RATE
    Window,            \* MCP_SIGNER_WRITE_WINDOW, in clock ticks
    QuotaRetention,    \* MCP_SIGNER_QUOTA_RETENTION; 0 is unset
    BanRetention,      \* MCP_SIGNER_BLACKLIST_RETENTION; 0 is unset
    QuotaFailOpen,     \* MCP_SIGNER_QUOTA_FAIL_OPEN
    BlacklistFailOpen, \* MCP_SIGNER_BLACKLIST_FAIL_OPEN
    MaxNow,            \* bound: the last clock tick
    MaxArrivals        \* bound: calls ever made

\* Config.validate: rate >= 1, window > 0; retention windows are not negative.
ASSUME RelayAssumption ==
    /\ None \notin Signers
    /\ IsFiniteSet(Calls) /\ Calls # {}
    /\ Modes \subseteq {"keyless", "scoped", "any"}
    /\ Rate \in Nat \ {0} /\ Window \in Nat \ {0}
    /\ QuotaRetention \in Nat /\ BanRetention \in Nat
    /\ QuotaFailOpen \in BOOLEAN /\ BlacklistFailOpen \in BOOLEAN
    /\ MaxNow \in Nat /\ MaxArrivals \in Nat

VARIABLES
    mode,      \* keyless writes; authed, scoped; authed, MCP_RELAY_ALLOW_ANY
    now,       \* the clock
    quota,     \* signer_quota: count by signer and window_start (no row is 0)
    bans,      \* signer_blacklist: created_at of the ban, or NotBanned
    okRows,    \* write_audit: broadcast_ok rows by signer, by calls of a window
    failRows,  \* write_audit: broadcast_failed rows, likewise
    pc,        \* control point of each call
    signer,    \* the recovered signer
    kind,      \* the kind of the transaction
    ws,        \* quotaWindowStart, taken when the call is checked
    \* observers
    sent,      \* transactions the node accepted
    lost,      \* those that never reached the quota counter
    unchecked, \* calls admitted because the quota store failed open
    forgotten, \* counts the purge deleted while their window was running
    unlogged,  \* attempts that left no write_audit row
    afterBan,  \* transactions accepted since the signer's current ban
    arrivals   \* calls made

gateVars == <<quota, bans, unchecked, forgotten>>
auditVars == <<okRows, failRows, unlogged>>
nodeVars == <<sent, afterBan>>
callVars == <<arrivals, pc, signer, kind, ws>>
relayVars == <<mode, now, gateVars, auditVars, nodeVars, lost, callVars>>

Kinds == {"anchor", "payable", "elsewhere", "garbled"}
NotBanned == -1
Steps == {"idle", "ban", "count", "send", "landed", "ok", "failed", "charge"}

\* WindowStart: now truncated to the fixed window.
WindowStart(t) == t - (t % Window)
Windows == {WindowStart(t) : t \in 0..MaxNow}
NoWindow == WindowStart(0)
Live(w) == now < w + Window
Tally == [Signers -> [Windows -> Nat]]
ZeroTally == [s \in Signers |-> [w \in Windows |-> 0]]

Banned(s) == bans[s] # NotBanned
Decoded(c) == kind[c] # "garbled"
Keyless == mode = "keyless"

Init ==
    /\ mode \in Modes
    /\ now = 0
    /\ quota = ZeroTally
    /\ bans = [s \in Signers |-> NotBanned]
    /\ okRows = ZeroTally /\ failRows = ZeroTally
    /\ pc = [c \in Calls |-> "idle"]
    /\ signer = [c \in Calls |-> None]
    /\ kind = [c \in Calls |-> "none"]
    /\ ws = [c \in Calls |-> NoWindow]
    /\ sent = ZeroTally /\ lost = ZeroTally
    /\ unchecked = ZeroTally /\ unlogged = ZeroTally /\ forgotten = ZeroTally
    /\ afterBan = [s \in Signers |-> 0]
    /\ arrivals = 0

---------------------------------------------------------------------------
(* The handler.                                                            *)

Goto(c, step) == pc' = [pc EXCEPT ![c] = step]

\* The handler returns.
Return(c) ==
    /\ Goto(c, "idle") /\ UNCHANGED arrivals
    /\ signer' = [signer EXCEPT ![c] = None]
    /\ kind' = [kind EXCEPT ![c] = "none"]
    /\ ws' = [ws EXCEPT ![c] = NoWindow]

Continue(c, step) == Goto(c, step) /\ UNCHANGED <<arrivals, signer, kind, ws>>

\* One more in a tally, for the call's signer and window.  Without a decoded
\* transaction there is no signer to count or audit under.
Bump(tally, c) ==
    IF Decoded(c) THEN [tally EXCEPT ![signer[c]][ws[c]] = @ + 1] ELSE tally

\* checkRelayScope: the anchor precompile, and no value.
InScope(k) == k = "anchor"

\* decodeAndScope: an undecodable transaction is refused, then one out of scope.
DecodeAndScope(k) == k # "garbled" /\ InScope(k)

\* A call arrives with its role checked (requireRole) and carries a
\* transaction of kind k.
Begin(c, k) ==
    /\ pc[c] = "idle"
    /\ arrivals < MaxArrivals
    /\ arrivals' = arrivals + 1
    /\ \E s \in Signers : signer' = [signer EXCEPT ![c] = s]
    /\ kind' = [kind EXCEPT ![c] = k]
    /\ UNCHANGED <<mode, now, gateVars, auditVars, nodeVars, lost>>

\* prepareKeylessBroadcast: decode and scope, then the gates; the window is
\* taken before either of them is asked.
ArriveKeyless(c) ==
    /\ Keyless
    /\ \E k \in Kinds : DecodeAndScope(k) /\ Begin(c, k)
    /\ ws' = [ws EXCEPT ![c] = WindowStart(now)]
    /\ Goto(c, "ban")

\* resolveBroadcast, MCP_RELAY_ALLOW_ANY: decoded for the audit only, whatever
\* it is, and broadcast.  There are no gates and no window.
ArriveAny(c) ==
    /\ mode = "any"
    /\ \E k \in Kinds : Begin(c, k)
    /\ ws' = [ws EXCEPT ![c] = NoWindow]
    /\ Goto(c, "send")

\* resolveBroadcast, the authenticated default: decode and scope, no gates.
ArriveScoped(c) ==
    /\ mode = "scoped"
    /\ \E k \in Kinds : DecodeAndScope(k) /\ Begin(c, k)
    /\ ws' = [ws EXCEPT ![c] = NoWindow]
    /\ Goto(c, "send")

Arrive(c) == ArriveKeyless(c) \/ ArriveAny(c) \/ ArriveScoped(c)

\* Mutation: the store error is not looked at, an unknown signer is admitted.
BlacklistAdmitsAlways(c, err) == ~Banned(signer[c]) \/ err

\* checkSignerGates, the blacklist switch.
BlacklistAdmits(c, err) == IF err THEN BlacklistFailOpen ELSE ~Banned(signer[c])

CheckBlacklist(c) ==
    /\ pc[c] = "ban"
    /\ \E err \in BOOLEAN :
          IF BlacklistAdmits(c, err) THEN Continue(c, "count") ELSE Return(c)
    /\ UNCHANGED <<mode, now, gateVars, auditVars, nodeVars, lost>>

\* Mutation: rejects above the rate instead of at it.
QuotaAdmitsOneMore(c, err) ==
    IF err THEN QuotaFailOpen ELSE quota[signer[c]][ws[c]] <= Rate

\* checkSignerGates, the quota switch: Count >= rate rejects.
QuotaAdmits(c, err) ==
    IF err THEN QuotaFailOpen ELSE quota[signer[c]][ws[c]] < Rate

CheckQuota(c) ==
    /\ pc[c] = "count"
    /\ \E err \in BOOLEAN :
          /\ IF QuotaAdmits(c, err) THEN Continue(c, "send") ELSE Return(c)
          /\ unchecked' = IF err /\ QuotaFailOpen THEN Bump(unchecked, c) ELSE unchecked
    /\ UNCHANGED <<mode, now, quota, bans, forgotten, auditVars, nodeVars, lost>>

\* SendRawTransaction: the node accepts the transaction ...
Transmit(c) ==
    /\ pc[c] = "send"
    /\ sent' = Bump(sent, c)
    /\ afterBan' = IF Banned(signer[c]) THEN [afterBan EXCEPT ![signer[c]] = @ + 1] ELSE afterBan
    /\ Continue(c, "landed")
    /\ UNCHANGED <<mode, now, gateVars, auditVars, lost>>

\* ... or it never gets there or is refused (rate limiter, open breaker,
\* transport error, node rejection).
TransmitFails(c) ==
    /\ pc[c] = "send"
    /\ Continue(c, "failed")
    /\ UNCHANGED <<mode, now, gateVars, auditVars, nodeVars, lost>>

\* Mutation: the success path returns before it records.
AnswerUnrecorded(c) ==
    /\ pc[c] = "landed"
    /\ Continue(c, "charge")
    /\ UNCHANGED <<mode, now, gateVars, auditVars, nodeVars, lost>>

\* The node's answer arrives.
Answer(c) ==
    /\ pc[c] = "landed"
    /\ Continue(c, "ok")
    /\ UNCHANGED <<mode, now, gateVars, auditVars, nodeVars, lost>>

\* The transaction landed and the handler sees an error.
AnswerLost(c) ==
    /\ pc[c] = "landed"
    /\ lost' = Bump(lost, c)
    /\ Continue(c, "failed")
    /\ UNCHANGED <<mode, now, gateVars, auditVars, nodeVars>>

\* WriteAuditStore.Record, one INSERT: the attempt is in the table, or the
\* error is logged and dropped.
Record(rows, c) ==
    \/ rows' = Bump(rows, c) /\ UNCHANGED unlogged
    \/ unlogged' = Bump(unlogged, c) /\ UNCHANGED rows

\* recordAudit("broadcast_ok"): best effort.  The increment follows when the
\* quota store is configured (keyless writes only).
RecordOk(c) ==
    /\ pc[c] = "ok"
    /\ Record(okRows, c)
    /\ IF Keyless THEN Continue(c, "charge") ELSE Return(c)
    /\ UNCHANGED <<mode, now, gateVars, failRows, nodeVars, lost>>

\* Mutation: the error path falls through to the increment.
RecordFailedCharges(c) ==
    /\ pc[c] = "failed"
    /\ failRows' = Bump(failRows, c)
    /\ Continue(c, "charge")
    /\ UNCHANGED <<mode, now, gateVars, okRows, unlogged, nodeVars, lost>>

\* recordAudit("broadcast_failed") and the error return: no increment.
RecordFailed(c) ==
    /\ pc[c] = "failed"
    /\ Record(failRows, c)
    /\ Return(c)
    /\ UNCHANGED <<mode, now, gateVars, okRows, nodeVars, lost>>

\* SignerQuotaStore.Increment: one atomic upsert, in the window of the check.
Increment(c) ==
    /\ pc[c] = "charge"
    /\ quota' = Bump(quota, c)
    /\ Return(c)
    /\ UNCHANGED <<mode, now, bans, unchecked, forgotten, auditVars, nodeVars, lost>>

\* The increment fails: logged, and the call still succeeds.
IncrementFails(c) ==
    /\ pc[c] = "charge"
    /\ lost' = Bump(lost, c)
    /\ Return(c)
    /\ UNCHANGED <<mode, now, gateVars, auditVars, nodeVars>>

\* The process running the call stops.
Die(c) ==
    /\ pc[c] # "idle"
    /\ lost' = IF pc[c] \in {"landed", "ok", "charge"} THEN Bump(lost, c) ELSE lost
    /\ unlogged' = IF pc[c] \in {"landed", "ok", "failed"} THEN Bump(unlogged, c) ELSE unlogged
    /\ Return(c)
    /\ UNCHANGED <<mode, now, gateVars, okRows, failRows, nodeVars>>

---------------------------------------------------------------------------
(* The admin API, the retention purge and the clock.                       *)

\* SignerBlacklistStore.Add: an upsert that keeps an existing created_at.
Add(s) == bans' = [bans EXCEPT ![s] = IF Banned(s) THEN @ ELSE now]

\* SignerBlacklistStore.Remove: a signer that is not banned stays as it is.
Remove(s) == bans' = [bans EXCEPT ![s] = NotBanned]

\* POST /admin/signer-blacklist.  A ban that stands is not restarted.  The row
\* in admin_audit that follows is not read by anything here.
Ban(s) ==
    /\ Keyless
    /\ Add(s)
    /\ afterBan' = IF Banned(s) THEN afterBan ELSE [afterBan EXCEPT ![s] = 0]
    /\ UNCHANGED <<mode, now, quota, unchecked, forgotten, auditVars, sent, lost, callVars>>

\* DELETE /admin/signer-blacklist/{signer}.
Unban(s) ==
    /\ Keyless
    /\ Remove(s)
    /\ UNCHANGED <<mode, now, quota, unchecked, forgotten, auditVars, nodeVars, lost, callVars>>

\* PurgeOnce's sweep over signer_quota deletes rows that start before the
\* retention window, whether or not the quota window they count has ended.  It
\* takes them in batches and its cutoff may be old by then, so one statement
\* deletes some of those rows.
PurgeQuota ==
    /\ QuotaRetention > 0
    /\ \E s \in Signers, w \in Windows :
          /\ w < now - QuotaRetention
          /\ quota[s][w] > 0
          /\ quota' = [quota EXCEPT ![s][w] = 0]
          /\ forgotten' = IF Live(w) THEN [forgotten EXCEPT ![s][w] = @ + quota[s][w]]
                          ELSE forgotten
    /\ UNCHANGED <<mode, now, bans, unchecked, auditVars, nodeVars, lost, callVars>>

\* PurgeOnce's sweep over signer_blacklist: an expired ban is lifted.
PurgeBan(s) ==
    /\ BanRetention > 0
    /\ Banned(s) /\ bans[s] < now - BanRetention
    /\ bans' = [bans EXCEPT ![s] = NotBanned]
    /\ UNCHANGED <<mode, now, quota, unchecked, forgotten, auditVars, nodeVars, lost, callVars>>

Tick ==
    /\ now < MaxNow
    /\ now' = now + 1
    /\ UNCHANGED <<mode, gateVars, auditVars, nodeVars, lost, callVars>>

Call(c) ==
    \/ Arrive(c) \/ CheckBlacklist(c) \/ CheckQuota(c)
    \/ Transmit(c) \/ TransmitFails(c) \/ Answer(c) \/ AnswerLost(c)
    \/ RecordOk(c) \/ RecordFailed(c)
    \/ Increment(c) \/ IncrementFails(c) \/ Die(c)

Next ==
    \/ \E c \in Calls : Call(c)
    \/ \E s \in Signers : Ban(s) \/ Unban(s) \/ PurgeBan(s)
    \/ PurgeQuota
    \/ Tick

Spec == Init /\ [][Next]_relayVars

---------------------------------------------------------------------------
(* Properties.                                                             *)

(* Type correctness of the tables, the calls and the observers.            *)
TypeOK ==
    /\ mode \in Modes
    /\ now \in 0..MaxNow
    /\ quota \in Tally
    /\ bans \in [Signers -> 0..MaxNow \cup {NotBanned}]
    /\ okRows \in Tally /\ failRows \in Tally
    /\ pc \in [Calls -> Steps]
    /\ signer \in [Calls -> Signers \cup {None}]
    /\ kind \in [Calls -> Kinds \cup {"none"}]
    /\ ws \in [Calls -> Windows]
    /\ sent \in Tally /\ lost \in Tally
    /\ unchecked \in Tally /\ unlogged \in Tally /\ forgotten \in Tally
    /\ afterBan \in [Signers -> Nat]
    /\ arrivals \in 0..MaxArrivals
    /\ \A c \in Calls : pc[c] # "idle" => signer[c] \in Signers

Slack(s, w) == Cardinality(Calls) - 1 + lost[s][w] + unchecked[s][w] + forgotten[s][w]

(* The quota is a soft ceiling, and this is how soft: in a window that is  *)
(* still running, the transactions of one signer that reached the chain    *)
(* exceed the rate by less than the number of calls running at once, plus  *)
(* one for each that was never counted, each call that the quota store     *)
(* failed open for, and each count the purge deleted before the window was *)
(* over (MCP_SIGNER_QUOTA_RETENTION may be shorter than the quota window). *)
(* The Count and Increment of the handler are not atomic, and the purge    *)
(* runs beside them.                                                       *)
QuotaBound ==
    Keyless => \A s \in Signers, w \in Windows : Live(w) => sent[s][w] <= Rate + Slack(s, w)

(* Once a signer is banned only calls already past the blacklist check can *)
(* still reach the chain, so while the ban lasts at most one transaction   *)
(* per concurrent call gets out (IsBlacklisted is queried per write).      *)
BanBound ==
    ~BlacklistFailOpen =>
        \A s \in Signers : Banned(s) => afterBan[s] <= Cardinality(Calls)

(* When no call is running, the audit trail accounts for every transaction *)
(* on the chain, those whose answer was lost included, and for every one   *)
(* the quota counted, except where a row could not be written.             *)
AuditTrail ==
    (\A c \in Calls : pc[c] = "idle") =>
        \A s \in Signers, w \in Windows :
            /\ sent[s][w] <= okRows[s][w] + failRows[s][w] + unlogged[s][w]
            /\ quota[s][w] <= okRows[s][w] + unlogged[s][w]

(* A failed broadcast never consumes quota and a success is counted at     *)
(* most once (SignerQuotaStore).                                           *)
CountedOnce == \A s \in Signers, w \in Windows : quota[s][w] <= sent[s][w] - lost[s][w]

---------------------------------------------------------------------------
(* The inductive strengthenings used by the proofs.                        *)

\* Calls by s, checked in window w, that are admitted and not yet counted;
\* of these, the ones whose transaction has landed.
Admitted(s, w) ==
    {c \in Calls : /\ pc[c] \in {"send", "landed", "ok", "charge"}
                   /\ Decoded(c) /\ signer[c] = s /\ ws[c] = w}
Uncounted(s, w) ==
    {c \in Calls : /\ pc[c] \in {"landed", "ok", "charge"}
                   /\ Decoded(c) /\ signer[c] = s /\ ws[c] = w}

\* Calls by s that are past the blacklist check and not yet on the chain.
PastBan(s) == {c \in Calls : pc[c] \in {"count", "send"} /\ signer[c] = s}

\* A call under keyless writes has a signer: what does not decode was refused.
DecodedInv == Keyless => \A c \in Calls : pc[c] # "idle" => Decoded(c)

\* A check that sees a count below the rate leaves room for one admission
\* per concurrent call.
AdmissionInv ==
    Keyless => \A s \in Signers, w \in Windows : Live(w) =>
        quota[s][w] + Cardinality(Admitted(s, w))
            <= Rate + Cardinality(Calls) - 1 + unchecked[s][w]

\* Every landed transaction is counted, about to be, or lost to the counter,
\* or its count was purged while the window was running.
LandingInv ==
    \A s \in Signers, w \in Windows :
        /\ quota[s][w] + Cardinality(Uncounted(s, w)) + lost[s][w] <= sent[s][w]
        /\ Keyless /\ Live(w) =>
              sent[s][w] <= quota[s][w] + Cardinality(Uncounted(s, w)) + lost[s][w]
                               + forgotten[s][w]

\* A ban turns every call past the check into one transaction at most.
BanInv ==
    /\ ~BlacklistFailOpen => \A s \in Signers : Banned(s) =>
          afterBan[s] + Cardinality(PastBan(s)) <= Cardinality(Calls)
    /\ ~Keyless => \A s \in Signers : ~Banned(s)

QuotaInv == AdmissionInv /\ LandingInv
=============================================================================
