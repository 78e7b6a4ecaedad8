# TLA+ verification of nvnm-mcp-server

`nvnm-mcp-server` is a Go server that exposes an EVM chain and its anchoring
precompile to MCP clients: read tools, tools that prepare unsigned anchor
transactions, one tool that broadcasts transactions the caller signed, and,
around them, API keys, roles, rate limits, per-signer gates, audit tables and an
admin REST API. This directory models the parts that keep state and share it
between requests, processes or replicas, checks them with TLC, and proves the
main results with TLAPS.

- [1. The system](#1-the-system)
- [2. Modules and the code they model](#2-modules-and-the-code-they-model)
- [3. What the runs check](#3-what-the-runs-check)
- [4. What is proved](#4-what-is-proved)
- [5. Findings](#5-findings)
- [6. What is not modelled](#6-what-is-not-modelled)
- [7. Plan](#7-plan)

## 1. The system

### Components, their state and operations

| Component | Source | State | Operations |
|---|---|---|---|
| key request queue | `keys_request_http.go`, `keys_pending.go` | a JSON file, and one copy of it in memory per `PendingKeyStore` (there are two) | submit, list, decide, save, load |
| admin review | `admin_keys_pending.go`, `admin_audit.go` | the call in flight: minted key, recorded decision | approve (mint, decide, roll back, mail, audit), reject |
| API keys file | `keys.go`, `managed_keys.go`, `keystore_backend.go` | keys file, `.pre-migration` backup, flock, in-memory entries | load, migrate, create, update, delete, save |
| key-mgmt tool | `cmd/key-mgmt` | none between invocations | load, edit, save of the same file |
| Postgres key store | `postgres_store.go`, `auth/keyhasher.go` | `api_keys` rows, peppers | lookup, rehash, create, update, delete |
| write relay | `tools_evm_write.go`, `relayscope.go`, `evm/decode.go` | the call in flight | decode, scope, gates, broadcast, audit, count |
| signer gates | `signer_quota.go`, `signer_blacklist.go` | counters per signer and window; bans | count, increment; ban, unban, lookup |
| write audit | `write_audit.go` | `write_audit` rows | record, list |
| retention purge | `purge.go` | none; the four keyless tables | batched deletes per tick, table after table |
| resilient RPC client | `evm/resilient.go`, `evm/client.go`, gobreaker, backoff | token bucket, breaker state, generation and counts | call with limiter, breaker, retries |
| rate limiters | `keyedrate.go`, `failrate.go`, `ratelimit.go`, `anonrate.go` | bounded map of token buckets | allow, peek, penalise, evict, sweep, stop |
| request pipeline | `server.go`, `auth.go`, `authpolicy.go`, `rbac.go`, `origin.go`, `cors.go`, `forwardedproto.go`, `auth/*` | context of a request | origin, proto, failure budget, authentication, rate, enforcement, role check, handler |
| health | `telemetry/health.go` | last probe result | listen, start, probe loop, close |
| anchor reads | `tools_anchor.go`, `anchor/client.go`, `anchor/types.go` | the call in flight; cursors are the client's | listing by pages, scan by name, lookups |
| anchor preparation | `anchor/prepare.go`, `tools_anchor_write.go` | the call in flight | version, nonce, price, gas estimate and buffer, fees |
| setup wizard | `tools_setup_wizard.go` | none (the client carries the step) | next step |
| configuration | `config/*` | immutable after start | parse, validate |
| start and shutdown | `cmd/nvnm-mcp-server` | servers, pools, goroutines, deferred cleanups | open, serve, drain, unwind |

### How they interact

The public key endpoint and the admin API meet in the pending file; an approval
crosses from there into the key store and from there into every authentication.
The server and key-mgmt meet in the keys file. All replicas, the admin API and
the purge meet in Postgres: the relay reads bans and counters, broadcasts through
the RPC client, then writes audit rows and increments the counter. All tools,
the health probe aside, share one RPC client and so one breaker. Every HTTP
request passes the gate first, which reads the key store and three maps of
buckets; the lifecycle decides in which order all of this is opened and closed,
and the configuration which of it exists.

### What is hard

* *Copies of shared state.* Two pending stores hold private copies of one file;
  the server keeps the keys file in memory while another process rewrites it.
* *Check, act, record.* The relay's quota check, its broadcast and the increment
  are three steps with nothing locked between them, on any number of replicas;
  approve is mint, decide, mail, audit, respond, with two stores.
* *Partial failure.* Each of those steps may fail or be cut off; the answer of
  the node may be lost after the transaction was accepted.
* *Crashes and files.* A save is temp file, fsync, rename, and the lock sits on
  an inode the rename replaces; a backup may be left half-written.
* *Time.* A call may start in one quota window and end in the next; the purge
  deletes rows other calls are using; the breaker's timer runs beside calls that
  were admitted in an earlier generation.
* *Check before, charge after.* The failure limiter reads a budget before
  authentication and charges it after; a bucket may be evicted while a request
  holds it; a key may be edited while its requests run.
* *Replicas that differ.* During a pepper rotation replicas know different
  peppers and upgrade each other's digests; purges of two replicas take rows from
  under each other.
* *A moving chain.* A listing or a preparation is several RPCs, and the chain
  grows and reprices between them.
* *Eventually.* The breaker must open in an outage and close after it; expired
  rows must go; a key in use must move to the new pepper; the process must stop.

`PROJECT.json` lists the hazards one by one, with the line each is at and the
properties that would catch it going wrong.

### What makes each part correct

* Issuance: one outcome per request; no live key without an approval; a key that
  was handed out works; accepted requests are not lost.
* Keys file: never half-written; behaves as one map changed by one operation at a
  time; memory agrees with it; the unhashed original is backed up before it goes.
* Relay: the quota's overshoot is bounded, and by what, the purge included; a ban
  takes effect; the audit trail accounts for what is on the chain.
* RPC client: a send is made once; one probe at a time; bad requests do not trip
  the breaker, outages do, and it recovers.
* Gate: nobody runs what configuration and key store do not allow; every call is
  charged to one bucket; failures are limited per real address, and only the
  offender is refused; eviction and sweep give away no more than a bound.
* Postgres keys: a row answers to the key handed out for it; the table behaves as
  the same registry as the file; a key in use moves to the new pepper.
* Retention: nothing goes early; a sweep leaves a table clean or for a reason;
  expired rows go in the end.
* Lifecycle: what is accepted as configuration is usable; HTTP is guarded;
  nothing is closed while in use or left open; the process stops; readiness
  follows the node.
* Anchor tools: an answer that claims to be whole or exact was so at some moment
  of the call; a prepared transaction is one the chain would have taken.

## 2. Modules and the code they model

Every module takes its parameters as CONSTANTS with a named assumption, has one
action per operation or per step between which others can interleave, and states
its properties at the end; definitions whose comment starts with "Mutation:" are
deliberate defects, used to confirm that a property can fail. The exact lines
behind each definition are in `PROJECT.json` under `map`.

### KeyIssuance

`pendingFile` is the file at `NVNM_KEY_PENDING_FILE`; `adminItems` and
`publicItems` are the `items` maps of the two `PendingKeyStore`s that
`main.go` opens on it (`newPendingAndEmail`, `newKeyRequestHandler`). `keys` is
the key store, reduced to the serial number of the live key of the client
`pending:<request>`. An admin call in flight has a control point `pc`, a request
`job` and the key it carries, `held`. `handleApprovePending` is
`ApproveStart`, `Mint`/`MintFails`/`MintLost` (a Create that Postgres committed
and whose answer was lost), `Approve`/`ApproveFails`,
`Rollback`/`RollbackFails`, `SendEmail`, `RecordAudit`, `Respond`;
`handleRejectPending` is `Reject` and the same audit and response steps;
`NewKeyRequestHandler` is `Submit`/`SubmitFails`; `handleDelete` is `DeleteKey`;
`Restart` loses every call and both memories. A store operation is one step,
because it runs under the store's mutex and its save replaces the file or leaves
it (KeyFile looks inside a save of that form). `released`, `revoked` (the keys an
operator deleted), `undercut` (the requests whose key an operator deleted while
its approval had not recorded a decision), `stranded` and `accepted` are
observers.

### KeyRegistry and KeyFile

`KeyRegistry` is the abstract specification: a durable map from clients to key
states, changed by one Create, Update or Delete at a time. `KeyFile` is the
implementation: inodes, the inode the path names (`target`), what it holds
(`live`), which inodes are completely written (`whole`), locks per inode, and for
each process the descriptor it locked, its temp file and the draft it is saving.
`SaveKeysFile` is `OpenForLock`, `Flock`, `CreateTemp`, `WriteTemp`, `Rename`,
`Commit`, each of which may fail (`SaveFails`); the server's constructor is
`Boot`, `BackupCreate`, `BackupFill`, `BackupFails`; edits are `ServerEdit` (from
memory) and `ToolEdit` (from a fresh load); `Crash` and `ToolKilled` end a
process anywhere. The refinement maps `registry` to the entries `Load` returns.
The observer `tooled` says that an edit of key-mgmt is newer than the server's
copy; `RegistryUntilTool` asks for steps of the registry while it is false.

### WriteRelay

A call is one execution of `makeSendRawTxHandler` on any replica. It enters by the
path of its mode, `ArriveKeyless` (`prepareKeylessBroadcast`), `ArriveAny` or
`ArriveScoped` (`resolveBroadcast`), of which the first and the last decode and
scope (`DecodeAndScope`); then come `CheckBlacklist`, `CheckQuota`,
`Transmit`/`TransmitFails` (the node accepts or refuses), `Answer`/`AnswerLost`
(the handler learns it or not), `RecordOk`/`RecordFailed`, `Increment`/
`IncrementFails`; `Die` cuts it off. `quota`, `bans`, `okRows`, `failRows` are
the tables, written by the stores' `Record`, `Increment`, `Add` and `Remove`;
`Ban`, `Unban` come from the admin API, `PurgeQuota` and `PurgeBan` from the
purge, which does not ask whether the window of a counter is over. `mode` is the deployment: keyless writes, authenticated and
scoped, or `MCP_RELAY_ALLOW_ANY`. A transaction is its signer and one of four
kinds, which is all that `checkRelayScope` distinguishes. `sent`, `lost`,
`unchecked`, `forgotten` (counts purged in a running window), `unlogged` and
`afterBan` are observers. The node is assumed to read in the bytes it gets what
`DecodeSignedTx` read.

### RpcClient

`breaker`, `failures`, `probes`, `expired` are gobreaker's state with this
server's settings (one half-open request, no interval, trip at a number of
consecutive failures). A call goes `Start`, `LimiterAdmits`/`LimiterRefuses`,
`Admit`/`Shed` (`beforeRequest`), `Reply`, `BackoffEnds`/`BackoffCancelled`,
and then `VerdictStale`, `VerdictSuccess` or `VerdictFailure` (`afterRequest`).
The generation number is only ever compared for equality with the current one,
so each call carries `fresh` instead. `weather` is the environment: what the node
and the callers do. `Results` says what each method can come to in each weather,
with the conversion `TransactionReceipt` makes of a timeout. `seen` is an
observer.

### RateLimiter and RequestGate

`RateLimiter` holds the operators of the bucket maps: `limiterFor` (with
`evictLRULocked` at the cap), `sweep`, and the three limiters' bursts. A map goes
from keys to the address of a bucket; `RequestGate` keeps the buckets in `heap`,
because a request uses one after the lock is released. A request in `slot` goes
`Arrive` or `TurnAway` (CORS, origin, forwarded proto), `PeekPasses`/
`PeekRefuses`, `PublicPath` or `AuthAdmits`/`AuthRefuses`, `Penalize`; then it
meets the anonymous and the per-client limiter one after the other, each of which
lets it by (`PassBy`) or looks its bucket up and draws from it (`Limit`,
`TakeAdmits`/`TakeRefuses`); then `Run`/`Deny`, `Respond`. The observer `charged` of
a request collects what it paid. A deployment may have no validator, in which case
`AuthMiddleware` is not there at all: Lifecycle shows that this can be served.
`clientIP` is the source's walk along X-Forwarded-For for the given number of
proxies, against headers that clients forged. The code reads the first header line
only; the environment (`ForwardedFor`) is one in which proxies append to that
line, and with one that adds a line of its own the walk would read the client's. `Sweep` is a janitor, `Tick` refills, `EditKey` is the operator.
A tick is the time in which a bucket gains a token. A key's entry names a client
(`ClientOf`), which may be empty: key-mgmt and the file loader do not insist on
one. `fails`, `blocked`, `admitted`, `lost` are observers. `lost` counts, per
limiter and caller, the buckets that were evicted at the cap or swept while a
request held them, and the draws made so late after the lookup
that the janitor may forget the bucket before it is full again (`Late`).

### PgKeyStore

`table` is `api_keys`; a digest is the pair of raw key and pepper. `Lookup` and
`Rehash` are the two statements of an authentication that upgrades a key;
`Create`, `CreateFails`, `CreateLost` (committed, and its answer lost), `Update`,
`Delete` are one statement each; `Restart`
moves a replica one stage on in the rotation (old pepper, both, new). The
refinement maps a row to the state `KeyRegistry` gives it. `issued`, `stolen` and
`known` (the raw keys somebody has) are observers.

### Retention

`rows` are the rows of the four tables with their kind and age; `purger[p]` is
the goroutine of a replica: asleep, or in a sweep at a phase, with the batches
done and the time the sweep began. `Batch` is one DELETE: a full batch if there is
one, fewer where a rival's statement took selected rows first (`raced`). `Fail`
ends the sweep; a phase in `broken` fails for good. `Insert` is the server.

### ServerConfig and Lifecycle

`ServerConfig` is `config.Load` as a predicate, `Loads`, on an environment whose
values are unset, empty, blank, unparsable, NaN or a value (`WellFormed` says
which variable can be which), and `Settings`, what the rest of the start-up
reads. `Lifecycle` is `run()`: one action per step with
its ways to fail, `defers` the stack of deferred cleanups, `live` what is open,
`Unwind` one cleanup at a time (closing a pool waits for its connections). The
pool `startAuditAndAdmin` opens is on no stack until that function returns; when a
part after it fails, the function closes it itself (`CloseAudit`). Beside `run()`
are the health goroutine (`HealthStart`, `ProbePing`, `ProbeHead`), the admin
goroutine, the purge, and a request per server, which may hold a connection. A
listener that fails while serving ends `RunHTTP` without a drain
(`ListenerFails`, `undrained`); a health server that is closed before its goroutine
has come to `Start` leaves its listener, and once the goroutine runs its probe
loop, behind (`HealthLate`); a database may stop answering (`Hang`).

### AnchorTools

`call` is one tool call, a sequence of RPCs; `ChainMoves` creates registries (with
gaps in the ids), adds versions, moves the nonce or changes the price between any
two. The listing is `FetchList`, `PeekTotal`; the scan by name `PeekHighest`,
`FetchScan`; lookups `GetRegistry`, `RegistriesByID`, `GetRecords`; a preparation
`ResolveIndex`, `PendingNonceAt`, `SuggestGasPrice`, `EstimateGas`,
`SuggestGasTipCap`/`TipFails`; `Fails` ends any of them. `session` follows one
client that pages through a listing, by cursor or by offset (`NextPage`). The
chain may return fewer rows than asked for and may or may not count them. A
registry table lists ids, some of them holes; `Live` is the set of registries from
an id on and `InOrder` lists a set of ids, the smallest first, so that what a walk
collects can be compared with what there was to collect. The width of a `uint64`
is the constant `Wrap`. The names `ToolsInit`, `ToolsNext`, `ToolsSpec` keep the
module apart from `RpcClient`, through which its calls go, where both are
extended.

## 3. What the runs check

| Run | Result | Properties |
|---|---|---|
| `issuance` | holds | `OneDecisionPerBoot` `NoOrphanKey` `ReleasedKeyLive` `DecisionFinal` |
| `issuance_lost` | violated | `AcceptedNotLost` |
| `keyfile` | holds | `FileWhole` `MemoryMatchesDisk` `RegistryUntilTool` |
| `keyfile_lost` | violated | `RegistrySpec` |
| `relay` | holds | `QuotaBound` `BanBound` `AuditTrail` `CountedOnce` |
| `rpc` | holds | `SendOnce` `OneProbe` `AnswersNeverTrip` `Recovers` `OutageTrips` |
| `gate` | holds | `OnlyAuthorised` `EveryRunCharged` `FailBound` `OnlyOffendersBlocked` `AdmitBound` |
| `pgkeys` | holds | `RowBelongsToOwner`, refinement `RegistrySpec`, `KeyMovesOn` |
| `retention` | holds | `NothingEarly` `LeavesTableClean` `ExpiredRowsGo` |
| `lifecycle` | holds | `ConfigSound` `GuardsInPlace` `EverythingReleased` `ClosedAfterUse` `Stops` `ReadyFollowsNode` |
| `lifecycle_unguarded` | violated | `GuardedWhenServing` |
| `tools` | holds | `ScanComplete` `PagedWhole` `TotalTruthful` `PreparedUsable` |

Each component also states its `TypeOK` (`ToolsTypeOK` for AnchorTools), which is
a theorem for every one of them (section 4) and not repeated in the cfgs.

What they show, and why the bounds are enough:

* **issuance** (4.5 million states): one request in the file at boot and one
  submitted later, two admin calls, three keys, two process lives. Two calls on
  one request are what every race of approve, reject and rollback needs; a third
  key allows a mint after a rollback or a deletion; one restart is enough to lose
  what memory held and to meet it again in the file. Deadlock is off: once both
  requests are decided, further calls are refused without effect.
* **issuance_lost**: the same system within one process life.
* **keyfile** (four inodes, one tool): a missing, hashed or unhashed file, then
  saves of server and tool with crashes and failures anywhere. Four inodes are the
  initial file, the migration and two more saves or abandoned temp files. The
  server restarts, so that memory and file are compared again after an edit by the
  tool, and the lock is met on an inode that was replaced.
* **keyfile_lost** (three inodes, one tool): two complete saves after the initial
  file, so that the second can overwrite the first.
* **relay** (319,000 states): two calls at once and three in all, rate one, a
  window of three ticks and four clock values, so that calls straddle a rollover,
  and a counter retention of one tick, so that the purge meets both running and
  expired counters; every mode, the quota gate failing open and the ban gate
  failing closed, bans lasting one tick.
  One signer is enough since no operation touches two. Deadlock is off: arrivals
  and clock are bounded.
* **rpc** (65,000 states): two calls, so that a result arrives in a later
  generation than its call was admitted in; one retry; a threshold of two, so
  that a streak can be interrupted. Nothing but the structure is bounded: calls
  and weather changes go on for ever, which is what the liveness properties need.
* **gate**: two requests in flight and three in all, two addresses, maps capped
  at one bucket and bursts of one, so that the second caller evicts the first and
  the second failure is over the budget; two proxies; a key that expires and is
  edited once, and a key without a client id. Five deployments (public behind
  proxies, keyless relay, keyed, JWT, and one without a validator), each with the
  traffic it decides on: forged headers, foreign origins, bad and missing
  credentials, tokens without a subject, for another application, with nested
  roles, with a bad signature. Deadlock is off: requests are bounded.
* **pgkeys** (76,000 states): two clients and three raw keys, so that a client
  can be created again under a new key; two replicas through all three stages;
  two lookups, so that one upgrades while another has matched; one failing
  statement. Deadlock is off: keys and stages run out.
* **retention**: two replicas, batches of one and at most two per table, three
  rows of three kinds over three ticks, so that a backlog exceeds a sweep's
  ceiling and the replicas meet in a table; one passing fault and one table that
  may fail for good; policies with and without the carve-out, and one that is
  refused for want of the selector.
* **lifecycle**: six working environments (stdio, keys file, static key,
  Postgres, JWT, hosted keyless) and every environment that differs from one of
  them in one variable, or in two variables of a group that is validated
  together; one request, one fault (the node changes, or the database hangs), a
  signal and a listener error anywhere. Deadlock is off: the process ends.
* **lifecycle_unguarded**: the Postgres environment alone.
* **tools** (1.5 million states): tables of up to three registries that grow by up
  to two steps, pages of two that the chain may cut to one, walks of two pages:
  tables of more than one walk, ends exactly at a page, and gaps are among them;
  one failing RPC; a limit one short of the width of a `uint64`. Deadlock is off:
  one session is followed and its client may stop.

**Fairness.**

* `RpcClient`: a running call goes on (`WF` of its next step): tokens refill and
  `limiter.Wait` ends with its context, every attempt runs under `withTimeout`, the
  backoff is a timer, and the breaker's mutex is never held across a call. The
  open state's timeout passes (`WF` of `Expire`). Nothing is assumed of callers or
  of the node; that calls keep reaching the breaker (`Traffic`) and that the node
  stays well, or down, are antecedents of the properties that need them.
* `PgKeyStore`: a lookup that began ends (`WF` of `Rehash`; statements run under
  the request's context). That the client keeps presenting its key is an
  antecedent of `KeyMovesOn`.
* `Retention`: the ticker fires (`WF` of `Wake`), a statement ends, well or badly
  (`WF` of `Batch \/ Fail`), and time passes (`WF` of `Tick`).
* `Lifecycle`: `run()` goes on and spawned goroutines get to run; probes, drains and
  the dials and pings of start-up carry deadlines. A statement comes back only
  while the database answers (`db`): those of the key store run under
  `context.Background()` (`postgres_store.go:147,188,223,255,264`), and the purge's
  DELETEs under a context that a signal or the last cleanup cancels. A database
  that hangs can therefore keep `run()` in the counts of the key table or in
  `pool.Close()`; `Stops` says that nothing else can (`Stuck`). Nothing is assumed
  of handlers: one that never answers is given up by the drain.

**Mutants.** Each property of each passing run has a mutant in `PROJECT.json`:
a definition replaced by one with a plausible defect (a guard dropped, a limit
off by one, a missing WHERE clause, the wrong end of a header, a zero taken for a
short window, cleanups in the wrong order), under which TLC finds the property
violated.

## 4. What is proved

The proofs hold for every value of the constants that satisfies the named
assumption of the module; those repeat what `Config.validate` or `main.go`
guarantee, plus disjointness of model values.

* **KeyIssuance_proofs**: `TypeCorrect`, `OneDecision`, `NoOrphans`,
  `ReleasedKeysWork` from one inductive invariant, `IssuanceInv`. None of the
  three is inductive alone: that a second approve cannot release a second key
  needs that a reporting call agrees with the admin store
  (`ReportsMatchStore`), that released outcomes of this boot do
  (`OutcomesMatchStore`), that serial numbers are fresh (`KeysAreFresh`), and
  that a carried key is the live one unless an operator deleted it while its call
  was undecided (`HeldKeyLive`).
  `DecisionsFinalWithSingleWriter` adds `SingleWriterInv`: until the public
  store has saved a submission, admin memory equals the file, so a restart
  reloads every decision.
* **KeyFile_proofs**: `TypeCorrect`; `FileAlwaysWhole` for any number of tools,
  from `FileInv` (temp files are private, distinct from the path's inode and
  complete before their rename); also for any number of tools,
  `ServesWhatIsOnDisk` and `RegistryBetweenTools`, both about the times at which no
  edit of a tool is newer than the server's copy, from `SoleWriterInv` (then the
  draft is one edit away from memory, and memory equals the file until the rename).
  Without tools (`ASSUME Tools = {}`) that is always, and the file implements the
  registry, `ImplementsRegistry`; with them it does not: run `keyfile_lost`.
* **WriteRelay_proofs**: `TypeCorrect`; `BansTakeEffect` from `BanInv` (accepted
  since the ban plus calls past the check is at most the number of calls);
  `QuotaIsSoftCeiling` and `NeverOvercounted` from `QuotaInv`, which counts admitted
  and landed calls: `AdmissionInv` bounds counter plus admitted calls, `LandingInv`
  relates what is on the chain to counter, uncounted, lost and purged. They hold
  for every retention: what a purge takes from a running window is in
  `forgotten`. `AuditTrailAccounts` follows from `AuditInv`, which counts what running calls still owe: a landed
  transaction is in the audit rows or owed by a call about to write them, and a
  call about to charge the quota has its row already.
* **NodeAccess_proofs** is about the two layers of access to the node, each for
  itself: the client every RPC goes through, and the tools that make several.
  - `RpcClient`: `TypeCorrect` (with the bound on attempts), `SendsAreNotRetried`,
    `OneProbeAtATime`, `AnswersDoNotTrip`, for any number of calls, from `RpcInv`:
    attempts made at each control point (`AttemptsInv`) and no pending failure in a
    history of answers (`CleanInv`).
  - `AnchorTools`: `ToolsTypeCorrect`, `PreparationsUsable`, `ScansComplete`,
    `TotalsTruthful` and `PagingWhole`, for tables, page sizes, page limits and
    callers of any kind, from `ToolsInv`. Its parts say at every control point what
    the call knows. `Flow`: which tool can be there and what it may still spend.
    `PrepInv`: index, nonce and gas read so far are ones the account had since the
    call began. `ScanInv`: the rows a walk holds list the table up to its cursor
    (`Walking`), and ids and windows fit a `uint64`. `ListInv`: the rows are the
    part of the table from the caller's place to the cursor (`Read`), each
    page but the last brought all that the chain grants (`Filling`), and any total
    was the table's size at some moment of the call. `SessionInv`: the pages a
    client has put together are `Read` of one table, that of its last page.
    The argument rests on one fact, `CutStable`: the table only grows
    at its end, so the part before a cursor, once listed, stays as it was.
    That is why the pages of different moments fit together, and no induction over
    pages is needed: each page extends the part that was read. The lemmas on
    `InOrder` (`InOrderLists`, `ListsUnique`, `ListsCount`) say that an ascending
    listing of a finite set exists and is unique.
* **PgKeyStore_proofs**, for any number of clients, replicas and lookups:
  `TypeCorrect`; `RowsBelongToOwners`, inductive once the state is typed; and the
  refinement
  `TableImplementsRegistry`, which maps a row to whether it is absent, enabled or
  disabled (`View`) and needs `RowsHoldKeys` (a row has a raw key, so none is
  mistaken for a missing one). File and table so implement one specification.
* **Retention_proofs**, for every policy the configuration admits, every batch
  size and number of replicas: `NothingGoesEarly` from `SweepInv` (the policy has a
  window for grantRole rows only where it can tell them by their selector, and a
  sweep is at a phase that has a window and began no later than now);
  `TypeCorrect`, with `RowInv` (there are no more rows than were inserted, so an
  insert finds a free identity); and the action property `TablesLeftClean`: a sweep
  that goes on to the next table or ends left nothing expired behind, unless it met
  its ceiling of batches, a fault, or a rival's statement.
* **Lifecycle_proofs**, for every environment of the type `WellFormed`:
  `TypeCorrect`; `NothingLeftOpen` from `StackInv` (the stack of cleanups is in the
  order of the parts' ranks, below the stage `run()` has reached, and lists exactly
  what is open, but for a pool between its opening and the end of the function that
  opened it, and for what a health server closed too early left, `HealthInv`);
  `NothingClosedUnderUse` from `OpenInv` (what is open at each stage) and `UseInv`
  (who can still be using it: a request the drain gave up, or any request after a
  listener error, may be using what is closed); `AcceptedConfigSound` and
  `ServedGuarded` from `ConfigInv`, `GuardInv` and `CountInv`. `ConfigSound` is proved of all environments, where
  the run tries those that differ from a working one in a variable or two.
* **RequestGate_proofs**, for every deployment, traffic, number of requests in
  flight, burst, cap and idle time. All rest on `Core`: the types, that a bucket
  has one owner, a limiter and a caller, whether it is in the map or only held
  (`OwnInv`), and what each control point implies of a request (`FlightInv`; the
  claims are those of its own credential, and its roles were granted since it
  arrived, `Vetted`). From it `TypeCorrect`, `AuthorisedAlways`, `ChargedAlways`.
  - `OffendersOnly` from `BlockInv`: what is missing from any bucket of an address
    was taken by that address's own failures.
  - `FailuresBounded` from `FailInv`: failures so far plus those the present tokens
    can still admit (`Room`) are within the budget. `Room` is not just the tokens:
    at the last token every request in flight may be past the look and not yet
    charged, and with no token left those that are on their way count. A second
    conjunct dates the failures by the bucket's last lookup, because the janitor
    replaces a bucket that was idle by a full one.
  - `AdmissionsBounded` from `AdmitInv`: admissions plus tokens in all buckets of a
    caller, the dropped ones a request still holds included, plus the burst that
    the janitor may give back, are within the allowance.

Four of these proofs failed at first for a good reason, and changed the model or
a property:

* `AdmitBound` did not hold beyond the run's bounds: a request that found its
  bucket, waited almost the whole idle time and then took a token leaves a bucket
  that the janitor forgets before it is full, which admits one more than burst and
  elapsed time allow. `lost` counts such draws now.
* `EveryRunCharged` named tokens without a subject only; an API key whose entry has
  an empty client id escapes both limiters in the same way, and is in the run now.
* `PreparedUsable` needs gas estimates e with 20 e below the width of a `uint64`,
  where `applyGasBuffer` would wrap, and `ScanComplete` needs ids below it; both
  are assumptions of the module (`ToolsAssumption`), and far from any real chain.
* The cases of the tools' first step overlapped in the model, so that it left open
  which one a preparation takes; they are disjoint now, in the code's order.

Only model-checked: the liveness properties `Recovers`, `OutageTrips`,
`KeyMovesOn`, `ExpiredRowsGo`, `Stops` and `ReadyFollowsNode`, since fairness is
out of the prover's reach, and what the violated runs show. `DecisionFinal` and the
refinement by the keys file are proved for a single writer, the case in which they
are true.

## 5. Findings

Runs that end in a violation state what a comment or document of the repository
says and show that the code does otherwise:

1. `issuance_lost`: a request answered 202 disappears from the pending file when
   the admin store, loaded before it, saves.
2. `keyfile_lost`: the lock covers the write, not load-edit-save, so server and
   key-mgmt overwrite each other's changes.
3. `lifecycle_unguarded`: `loadPostgresKeyStore` counts the enabled keys
   (`main.go:457`) and the validator's constructor counts them again (`:466`). If
   the second count finds none, or fails, there is no validator and HTTP is served
   without authentication, where `auth.go:17-19` says "The HTTP transport
   entrypoint refuses to start when validator is nil". `GuardsInPlace` is what does
   hold; RequestGate models what such a server lets through.

The passing runs also meet places where the code departs from a comment or a
description in the repository. There the property says exactly what the code does,
the departing case included:

* *A key that was handed out can go without anybody deleting it.* Two approvals of
  one request are past the status check; the first mints, an operator deletes that
  key, the second mints, decides and releases its own; the first one's `Decide` is
  refused and its rollback (`admin_keys_pending.go:148`) deletes by client id, which
  now names the second key. `ReleasedKeyLive` has this as its second exception
  (`undercut`), and no other. The comment there speaks only of not leaving an
  orphaned key behind.
* *`ErrClientExists` "is unreachable today"* (`admin_keys_pending.go:130`): the
  second of two concurrent approvals meets it, and so does an approval after a
  mint whose answer was lost (`MintLost`) or after a lost decision.
* *"this counter no longer applies to anyone"* (`purge.go:175-177`): the counter's
  `window_start` is the start of the window it applies to. With a retention shorter
  than the window, which the configuration accepts, the purge deletes running
  counters and the signer starts anew; `QuotaBound` counts what was `forgotten`.
* *"total is only the rows confirmed so far"* (`tools_anchor.go:57-58, 292-293,
  358-360`): when the peek fails on a page past the end, line 372 reports the
  caller's own offset as a lower bound, and it is none. `TotalTruthful` gives
  the value in all cases and claims a bound only where there are rows.
* *"Any value works"* (`tools_anchor.go:120`; `:285` has an offset client page on
  offset plus limit): a limit above 50 pages of 200 rows comes back short without
  saying so, and a client that advances its offset by that limit skips rows.
  `PagedWhole` is about limits within the pages.
* *"only reachable under keyless reads"* (`ratelimit.go:45-46`): a key whose entry
  has an empty client id, or a token without a subject, gets there with claims, and
  the anonymous limiter has let it by; nobody is charged (`EveryRunCharged`).
* *The drain.* `RunHTTP` drains after a signal. When its listener fails it returns
  at once (`server.go:311-312`), and the cleanups close the stores under running
  handlers (`ClosedAfterUse`, `undrained`).

Also met while modelling:

* After the public store has saved over a decision, a restart shows the request
  as pending and it can be decided again. `DecisionFinal` is stated for the case
  before that save.
* A `Create` that Postgres committed and whose answer was lost leaves a live key
  nobody has seen, and the request cannot be approved until an operator deletes it
  (`NoOrphanKey` names the case, `stranded`).
* The flock is taken on the inode that was opened; after a rename two processes
  can each hold "the" lock. `FileWhole` does not depend on it.
* A pre-migration backup that failed, or was cut short by a crash, does not stop
  the migration: the unhashed file is replaced by the next edit or boot.
* Broadcasts whose increment or answer is lost are not counted, so the quota's
  overshoot is not limited to the number of concurrent calls; `QuotaBound` counts
  them separately.
* A receipt lookup that times out is taken for an answer and resets the breaker's
  streak; `OutageTrips` is about the outcomes that are not.
* With `MCP_RELAY_ALLOW_ANY`, a transaction that is not hex counts as a failure of
  the node; `AnswersNeverTrip` is about requests that reach it.
* A caller who gives up counts as a failure of the node.
* The upgrade of a digest is by client id: a client deleted and created again
  between the match and the update gets the old key's digest (`stolen`).
* A token drawn late after its bucket was looked up can be given twice, once by the
  bucket and once by its replacement (`AdmitBound`, `Late`).
* A table whose purge statement always fails keeps the tables after it from ever
  being purged (`ExpiredRowsGo`).
* A rate of NaN passes the configuration's `<= 0` checks, a negative
  `KEY_DEFAULT_TTL` is accepted, and the environment fallback a comment in
  `config.go` describes is refused by `Validate`.
* The context given to the JWKS client is cancelled when its constructor returns,
  and with it the background refresh.
* A health server closed before its goroutine reached `Start` leaves its address
  bound, and then its probe loop running (`EverythingReleased`); an admin API that
  cannot bind is only logged.
* A database that hangs can keep the process from ending (`Stops`, `Stuck`).
* During a rotation a key that a replica with the new pepper has stored or upgraded
  is unknown to one that has not been restarted yet, as is a key left on a pepper
  that was dropped.
* A key without roles is denied by `requireRole`, while comments in `keys.go` and
  key-mgmt speak of unrestricted access.

## 6. What is not modelled

* Formatting, encoding and cryptography: RLP and ABI, signature recovery, JSON,
  hashing. A transaction is what the scope check reads of it, a key a serial
  number, a digest the pair it was made of, a JWT the claims that are read.
* The EVM read tools, the overview and wallet tools and the setup wizard: they
  keep no state between or within calls that another actor could disturb; each
  turns its input and a few RPC answers into text. Their RPCs are RpcClient's, their
  admission RequestGate's.
* Normalisation, mail, logging, metrics, tracing: no state that anything depends
  on. Mail may fail in KeyIssuance; a node's answer is a choice.
* Schema migrations: a library runs them before the server serves; in Lifecycle
  they are part of a step that may fail.
* Rates: a bucket gains one token per tick in RequestGate, and in RpcClient a call
  gets a token in time or does not.
* Isolation of SQL: each statement is atomic, and no handler modelled here uses a
  transaction of several. Where two DELETEs meet in a table, the rows one of them
  selected may be gone (Retention).
* Disk contents lost by the operating system after fsync, and other programs
  that edit the files.
* The developer programs `query-anchor` and `seed-test-data`, which run once and
  keep nothing.

## 7. Plan

All parts that keep or decide state are modelled; the definitions stand for about
two fifths of the server's own lines, the rest being what section 6 lists,
declarations and text. Every safety property that a run checks is also a theorem.
What is left:

1. The invariants behind the liveness properties (what keeps a fair step enabled
   until it is taken), which are safety properties and within the prover's reach.
2. Composition: `WriteRelay` starts where `RequestGate` has let a call of the relay
   through; that the two agree on who may is by reading, not a theorem.

Liveness itself stays with TLC.
