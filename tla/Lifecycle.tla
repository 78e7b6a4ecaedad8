------------------------------ MODULE Lifecycle ------------------------------
(***************************************************************************)
(* cmd/nvnm-mcp-server: one life of the process.  run loads the            *)
(* configuration, opens its parts one after the other, serves until a      *)
(* signal or an error, and unwinds its deferred cleanups, last opened      *)
(* first.  Beside it run the health server and its probe loop, the admin   *)
(* server, the retention purge and the request handlers.                   *)
(***************************************************************************)
EXTENDS ServerConfig, Sequences, SequencesExt

CONSTANTS
    Envs,         \* the environments the process may be started with
    FlagValues,   \* values of the -transport flag, "" when it is not given
    MaxRequests,  \* bound: requests handled
    MaxFaults     \* bound: changes of the node's and the database's condition

ASSUME LifecycleAssumption ==
    /\ \A e \in Envs : WellFormed(e)
    /\ MaxRequests \in Nat /\ MaxFaults \in Nat

VARIABLES
    env,        \* the environment, forgotten once the configuration is read
    pc,         \* the step run is at
    cfg,        \* Settings of the environment
    defers,     \* the cleanups owed, a stack
    live,       \* what is open
    done,       \* the signal context is cancelled
    validator,  \* loadAuth returned a validator
    health,     \* the health goroutine: none, spawned, serving, closed; missed and
                \* leaked when Close came before Start
    probe,      \* its loop: none, idle, up or down after the ping
    ready,      \* what /readyz answers
    node,       \* the chain node: up, down, or stalled (no new blocks)
    db,         \* the databases: up, or hung (they no longer answer)
    admin,      \* the admin goroutine: none, spawned, serving, closed
    purge,      \* the purge goroutine: none, idle, query
    handler,    \* handler[s]: a request of the mcp or the admin server
    forsaken,   \* servers whose drain timed out
    undrained,  \* RunHTTP returned because its listener failed
    requests, faults

vars == <<env, pc, cfg, defers, live, done, validator, health, probe, ready, node, db,
          admin, purge, handler, forsaken, undrained, requests, faults>>
world == <<node, db, requests, faults>>
goroutines == <<health, probe, ready, admin, purge, handler, forsaken, undrained, world>>

Pools == {"keyPool", "pool"}

TypeOK ==
    /\ pc \in {"load", "flag", "telemetry", "auth", "count", "recount", "evm", "health",
               "pending", "audit", "purge", "admin", "closeAudit", "limiters", "keyRequest",
               "serve", "serving", "drain", "unwind", "exited"}
    /\ {done, validator, ready, undrained} \subseteq BOOLEAN
    /\ health \in {"none", "spawned", "serving", "closed", "missed", "leaked"}
    /\ probe \in {"none", "idle", "up", "down"}
    /\ node \in {"up", "down", "stalled"} /\ db \in {"up", "hung"}
    /\ admin \in {"none", "spawned", "serving", "closed"}
    /\ purge \in {"none", "idle", "query"}
    /\ handler \in [{"mcp", "admin"} -> {"none", "busy"} \cup Pools]
    /\ \A i \in 1..Len(defers) : defers[i] \in live
    /\ \A i, j \in 1..Len(defers) : defers[i] = defers[j] => i = j

Init ==
    /\ env \in Envs
    /\ pc = "load" /\ cfg = <<>> /\ defers = <<>> /\ live = {}
    /\ done = FALSE /\ validator = FALSE
    /\ health = "none" /\ probe = "none" /\ ready = TRUE
    /\ node = "up" /\ db = "up"
    /\ admin = "none" /\ purge = "none"
    /\ handler = [s \in {"mcp", "admin"} |-> "none"]
    /\ forsaken = {} /\ undrained = FALSE /\ requests = 0 /\ faults = 0

----------------------------------------------------------------------------
(* run, up to the transport.                                                 *)

\* run returns before its first defer.
Refuse == pc' = "exited" /\ env' = <<>> /\ UNCHANGED <<cfg, defers, live>>

Load ==
    /\ pc = "load"
    /\ IF Loads(env) THEN pc' = "flag" /\ UNCHANGED <<env, cfg, defers, live>> ELSE Refuse
    /\ UNCHANGED <<done, validator, goroutines>>

\* -transport replaces the variable's value, and Validate runs again.
ApplyFlag(flag) ==
    /\ pc = "flag"
    /\ LET transport == IF flag = "" THEN envOrDefault(env, "MCP_TRANSPORT") ELSE flag
       IN  IF Validate(env, transport)
           THEN /\ pc' = "telemetry" /\ env' = <<>>
                /\ cfg' = Settings(env, transport)
                /\ defers' = <<"context">> /\ live' = {"context"}
           ELSE Refuse
    /\ UNCHANGED <<done, validator, goroutines>>

\* run opens r, owes its cleanup and goes on.
Open(r, next) == pc' = next /\ live' = live \cup {r} /\ defers' = Append(defers, r)

\* Nothing to open at this step.
Skip(next) == pc' = next /\ UNCHANGED <<live, defers>>

\* The step fails before it opened anything, or closes what it opened.
Fail == Skip("unwind")

\* What most steps leave alone.
Quiet == UNCHANGED <<env, cfg, done, validator, goroutines>>

Telemetry ==
    /\ pc = "telemetry"
    /\ Open("telemetry", "auth") \/ Fail
    /\ Quiet

\* loadFusionAuth: the key set is fetched once, or run fails.
AuthFusion ==
    /\ pc = "auth" /\ cfg.store = "fusionauth"
    /\ \/ Open("jwks", "evm") /\ validator' = TRUE
       \/ Fail /\ UNCHANGED validator
    /\ UNCHANGED <<env, cfg, done, goroutines>>

\* Mutation: a keys file is served whatever is in it.
AuthKeysUnchecked ==
    /\ pc = "auth" /\ cfg.store \in {"file", "static", "none"}
    /\ \/ cfg.store # "none" /\ Skip("evm") /\ validator' = TRUE
       \/ cfg.store = "file" /\ Skip("evm") /\ UNCHANGED validator
       \/ cfg.store = "none" /\ Fail /\ UNCHANGED validator
    /\ UNCHANGED <<env, cfg, done, goroutines>>

\* The keys file or the static key.  The file must hold a usable key for http;
\* under stdio a store without enabled keys gives no validator.
AuthKeys ==
    /\ pc = "auth" /\ cfg.store \in {"file", "static", "none"}
    /\ \/ cfg.store # "none" /\ Skip("evm") /\ validator' = TRUE
       \/ /\ cfg.store # "static" /\ cfg.transport = "stdio"
          /\ Skip("evm") /\ UNCHANGED validator
       \/ /\ cfg.store = "file" \/ (cfg.store = "none" /\ cfg.transport = "http")
          /\ Fail /\ UNCHANGED validator
    /\ UNCHANGED <<env, cfg, done, goroutines>>

\* loadPostgresKeyStore: the pool is closed again when ping or migration fails.
AuthPool ==
    /\ pc = "auth" /\ cfg.store = "postgres"
    /\ \/ db = "up" /\ pc' = "count" /\ live' = live \cup {"keyPool"} /\ UNCHANGED defers
       \/ Fail
    /\ Quiet

\* Mutation: a failing first count leaves the pool to somebody else.
CountForgets ==
    /\ pc = "count" /\ db = "up"
    /\ Skip("recount") \/ (cfg.transport = "http" /\ Fail)
    /\ Quiet

\* The store is counted here, and again by the validator's constructor: each
\* count finds enabled keys, finds none, or fails and reports none.  The statements
\* have no deadline: a database that hangs now keeps run here.
Count ==
    /\ pc = "count" /\ db = "up"
    /\ \/ Skip("recount")
       \/ /\ cfg.transport = "http"
          /\ pc' = "unwind" /\ live' = live \ {"keyPool"} /\ UNCHANGED defers
    /\ Quiet

Recount ==
    /\ pc = "recount" /\ db = "up" /\ pc' = "evm"
    /\ validator' \in BOOLEAN
    /\ defers' = Append(defers, "keyPool")
    /\ UNCHANGED <<env, cfg, done, live, goroutines>>

Evm ==
    /\ pc = "evm"
    /\ Open("evm", "health") \/ Fail
    /\ Quiet

\* The address is bound here; the goroutine serves it.
Health ==
    /\ pc = "health"
    /\ \/ Open("health", "pending") /\ health' = "spawned"
       \/ Fail /\ UNCHANGED health
    /\ UNCHANGED <<env, cfg, done, validator,
                   probe, ready, admin, purge, handler, forsaken, undrained, world>>

\* The pending file may not load; the mail settings were validated by Load, so
\* buildEmailSender cannot fail.
Pending ==
    /\ pc = "pending"
    /\ Skip("audit") \/ (cfg.keyRequest /\ Fail)
    /\ Quiet

\* loadWriteAudit.  Until startAuditAndAdmin returns, its pool is on no stack.
Audit ==
    /\ pc = "audit"
    /\ \/ cfg.audit /\ db = "up"
          /\ pc' = "purge" /\ live' = live \cup {"pool"} /\ UNCHANGED defers
       \/ cfg.audit /\ Fail
       \/ ~cfg.audit /\ Skip("purge")
    /\ Quiet

\* startRetentionPurge; the purger refuses a carve-out without a selector.
StartPurge ==
    /\ pc = "purge"
    /\ IF cfg.retention /\ cfg.audit
       THEN \/ Skip("admin") /\ purge' = "idle"
            \/ Skip("closeAudit") /\ UNCHANGED purge
       ELSE Skip("admin") /\ UNCHANGED purge
    /\ UNCHANGED <<env, cfg, done, validator,
                   health, probe, ready, admin, handler, forsaken, undrained, world>>

AuditCleanup == IF cfg.audit THEN <<"pool">> ELSE <<>>

\* startAdminServer: only over http and with API keys; the admin keys may not load.
\* The cleanup startAuditAndAdmin returns stops the admin server, then closes the pool.
StartAdmin ==
    /\ pc = "admin"
    /\ IF cfg.admin /\ cfg.transport = "http" /\ cfg.store # "fusionauth"
       THEN \/ /\ pc' = "limiters" /\ live' = live \cup {"admin"}
               /\ defers' = Append(defers \o AuditCleanup, "admin")
               /\ admin' = "spawned"
            \/ Skip("closeAudit") /\ UNCHANGED admin
       ELSE /\ pc' = "limiters" /\ defers' = defers \o AuditCleanup
            /\ UNCHANGED <<live, admin>>
    /\ UNCHANGED <<env, cfg, done, validator,
                   health, probe, ready, purge, handler, forsaken, undrained, world>>

Limiters ==
    /\ pc = "limiters"
    /\ IF cfg.transport = "http" THEN Open("limiters", "keyRequest") ELSE Skip("keyRequest")
    /\ Quiet

\* newKeyRequestHandler reads the pending file a second time.
KeyRequest ==
    /\ pc = "keyRequest"
    /\ IF cfg.keyRequest /\ cfg.transport = "http"
       THEN Open("keyRequest", "serve") \/ Fail
       ELSE Skip("serve")
    /\ Quiet

----------------------------------------------------------------------------
(* The transport.                                                            *)

\* RunHTTP's listener may not bind, ...
Serve ==
    /\ pc = "serve"
    /\ Skip("serving") \/ (cfg.transport = "http" /\ Fail)
    /\ Quiet

\* ... or fail later.  RunHTTP returns at once then: it does not drain, and the
\* connections that are open are still served.
ListenerFails ==
    /\ pc = "serving" /\ cfg.transport = "http"
    /\ Fail
    /\ undrained' = TRUE
    /\ UNCHANGED <<env, cfg, done, validator,
                   health, probe, ready, admin, purge, handler, forsaken, world>>

\* The input of stdio ends.
Eof ==
    /\ pc = "serving" /\ cfg.transport = "stdio"
    /\ Fail
    /\ Quiet

\* The cancelled context ends stdio at once, and starts the drain of http.
Shutdown ==
    /\ pc = "serving" /\ done
    /\ IF cfg.transport = "stdio" THEN Fail ELSE Skip("drain")
    /\ Quiet

\* Requests in flight get ten seconds.
Drain ==
    /\ pc = "drain"
    /\ Fail
    /\ forsaken' = IF handler["mcp"] = "none" THEN forsaken ELSE forsaken \cup {"mcp"}
    /\ UNCHANGED <<env, cfg, done, validator,
                   health, probe, ready, admin, purge, handler, undrained, world>>

Signal ==
    /\ pc \notin {"load", "flag", "exited"} /\ ~done
    /\ done' = TRUE
    /\ UNCHANGED <<env, pc, cfg, defers, live, validator, goroutines>>

----------------------------------------------------------------------------
(* The deferred cleanups.                                                    *)

\* Mutation: the cleanup also waits for the purge goroutine to end.
PoolReleasedJoins(r) == purge = "none" /\ \A s \in DOMAIN handler : handler[s] # r

\* pgxpool.Close blocks while a connection is in use.
PoolReleased(r) ==
    /\ r = "pool" => purge # "query"
    /\ \A s \in DOMAIN handler : handler[s] # r

\* startAuditAndAdmin closes the pool itself when a part after it fails.
CloseAudit ==
    /\ pc = "closeAudit" /\ PoolReleased("pool")
    /\ pc' = "unwind" /\ live' = live \ {"pool"} /\ UNCHANGED defers
    /\ Quiet

\* healthSrv.Close stops the probe loop only if the goroutine has come to start it.
\* If it has not, the bound address stays, too: Shutdown knows no listener yet.
Closed == IF health = "spawned" THEN "missed" ELSE "closed"
Unclosed == IF health = "spawned" THEN {"listener"} ELSE {}

\* One deferred call.  Closing a server refuses new requests and gives those in
\* flight five seconds.
Release(r, rest) ==
    /\ r \in Pools => PoolReleased(r)
    /\ live' = (live \ {r}) \cup IF r = "health" THEN Unclosed ELSE {}
    /\ defers' = rest
    /\ done' = (done \/ r = "context")
    /\ admin' = IF r = "admin" THEN "closed" ELSE admin
    /\ health' = IF r = "health" THEN Closed ELSE health
    /\ probe' = IF r = "health" /\ probe = "idle" THEN "none" ELSE probe
    /\ forsaken' = IF r = "admin" /\ handler["admin"] # "none"
                   THEN forsaken \cup {"admin"} ELSE forsaken
    /\ UNCHANGED <<env, pc, cfg, validator, ready, purge, handler, undrained, world>>

\* Mutation: the cleanups run in the order they were registered.
UnwindOldest == pc = "unwind" /\ defers # <<>> /\ Release(Head(defers), Tail(defers))

Unwind == pc = "unwind" /\ defers # <<>> /\ Release(Last(defers), Front(defers))

Exit ==
    /\ pc = "unwind" /\ defers = <<>>
    /\ Skip("exited")
    /\ Quiet

----------------------------------------------------------------------------
(* The goroutines, until the process exits.                                  *)

Running == pc # "exited"
MainUnchanged == UNCHANGED <<env, pc, cfg, defers, live, done, validator>>

\* healthSrv.Start.
HealthStart ==
    /\ Running /\ health = "spawned"
    /\ health' = "serving" /\ probe' = "idle"
    /\ MainUnchanged
    /\ UNCHANGED <<ready, admin, purge, handler, forsaken, undrained, world>>

\* When Close came first, Serve closes the listener and returns, but the loop has
\* been started and nobody will stop it.
HealthLate ==
    /\ Running /\ health = "missed"
    /\ health' = "leaked" /\ probe' = "idle"
    /\ live' = (live \ {"listener"}) \cup {"probe"}
    /\ UNCHANGED <<env, pc, cfg, defers, done, validator,
                   ready, admin, purge, handler, forsaken, undrained, world>>

\* runProbe: a ping, then the age of the head, then the verdict of both.
ProbePing ==
    /\ Running /\ probe = "idle"
    /\ probe' = IF node = "down" THEN "down" ELSE "up"
    /\ MainUnchanged
    /\ UNCHANGED <<health, ready, admin, purge, handler, forsaken, undrained, world>>

\* Mutation: the verdict trusts a node that answers.
VerdictPing == probe = "up"

\* Without a maximal age the head is not looked at; a stopped loop's last call fails.
Verdict == probe = "up" /\ (cfg.staleness => node = "up" /\ health # "closed")

ProbeHead ==
    /\ Running /\ probe \in {"up", "down"}
    /\ ready' = Verdict
    /\ probe' = IF health = "closed" THEN "none" ELSE "idle"
    /\ MainUnchanged
    /\ UNCHANGED <<health, admin, purge, handler, forsaken, undrained, world>>

NodeChanges ==
    /\ Running /\ faults < MaxFaults
    /\ node' \in {"up", "down", "stalled"} \ {node}
    /\ faults' = faults + 1
    /\ MainUnchanged
    /\ UNCHANGED <<health, probe, ready, db, admin, purge, handler, forsaken, undrained, requests>>

\* The databases stop answering, for good: a delay is no different from none.
Hang ==
    /\ Running /\ faults < MaxFaults /\ db = "up"
    /\ db' = "hung" /\ faults' = faults + 1
    /\ MainUnchanged
    /\ UNCHANGED <<health, probe, ready, node, admin, purge, handler, forsaken, undrained, requests>>

\* adminSrv.Start: a failure to bind is only logged.
AdminStart ==
    /\ Running /\ admin = "spawned"
    /\ admin' \in {"serving", "closed"}
    /\ MainUnchanged
    /\ UNCHANGED <<health, probe, ready, purge, handler, forsaken, undrained, world>>

Serves(s) == IF s = "mcp" THEN (pc = "serving" /\ cfg.transport = "http") \/ undrained
                          ELSE admin = "serving"

Handle(s) ==
    /\ Running /\ requests < MaxRequests
    /\ Serves(s) /\ handler[s] = "none"
    /\ handler' = [handler EXCEPT ![s] = "busy"]
    /\ requests' = requests + 1
    /\ MainUnchanged
    /\ UNCHANGED <<health, probe, ready, node, db, admin, purge, forsaken, undrained, faults>>

\* pgxpool: once Close has begun a pool hands out no more connections.
Acquires(p) ==
    /\ p \in live
    /\ ~(pc = "unwind" /\ Last(defers) = p) /\ ~(pc = "closeAudit" /\ p = "pool")

\* A statement of the handler; on a closed pool it fails at once.
Query(s, p) ==
    /\ Running /\ handler[s] = "busy" /\ Acquires(p)
    /\ handler' = [handler EXCEPT ![s] = p]
    /\ MainUnchanged
    /\ UNCHANGED <<health, probe, ready, admin, purge, forsaken, undrained, world>>

\* The statements of the key store have no deadline, and those of the other stores
\* only the request's context, which nothing cancels while its client waits.
QueryDone(s) ==
    /\ Running /\ handler[s] \in Pools /\ db = "up"
    /\ handler' = [handler EXCEPT ![s] = "busy"]
    /\ MainUnchanged
    /\ UNCHANGED <<health, probe, ready, admin, purge, forsaken, undrained, world>>

Respond(s) ==
    /\ Running /\ handler[s] = "busy"
    /\ handler' = [handler EXCEPT ![s] = "none"]
    /\ MainUnchanged
    /\ UNCHANGED <<health, probe, ready, admin, purge, forsaken, undrained, world>>

\* Purger.Run: a statement fails at once on a closed pool; the context ends a
\* statement that hangs, and the loop.
PurgeQuery ==
    /\ Running /\ purge = "idle" /\ Acquires("pool") /\ ~done
    /\ purge' = "query"
    /\ MainUnchanged
    /\ UNCHANGED <<health, probe, ready, admin, handler, forsaken, undrained, world>>

PurgeDone ==
    /\ Running
    /\ \/ purge = "query" /\ (db = "up" \/ done) /\ purge' = "idle"
       \/ purge = "idle" /\ done /\ purge' = "none"
    /\ MainUnchanged
    /\ UNCHANGED <<health, probe, ready, admin, handler, forsaken, undrained, world>>

----------------------------------------------------------------------------
Boot ==
    \/ Load \/ (\E flag \in FlagValues : ApplyFlag(flag))
    \/ Telemetry \/ AuthFusion \/ AuthKeys \/ AuthPool \/ Count \/ Recount \/ Evm
    \/ Health \/ Pending \/ Audit \/ StartPurge \/ StartAdmin \/ Limiters \/ KeyRequest
    \/ Serve

Stop == Shutdown \/ Drain \/ CloseAudit \/ Unwind \/ Exit

Goroutines ==
    \/ HealthStart \/ HealthLate \/ ProbePing \/ ProbeHead \/ AdminStart \/ PurgeDone
    \/ \E s \in {"mcp", "admin"} : QueryDone(s) \/ Respond(s)

Environment ==
    \/ Signal \/ Eof \/ ListenerFails \/ NodeChanges \/ Hang \/ PurgeQuery
    \/ \E s \in {"mcp", "admin"} : Handle(s) \/ \E p \in Pools : Query(s, p)

Next == Boot \/ Stop \/ Goroutines \/ Environment

\* The waits of run have timeouts, but for those on a database; the scheduler runs
\* each goroutine, and a statement comes back while the database answers.  Nobody
\* owes a signal or a request.
Fairness ==
    /\ WF_vars(Boot) /\ WF_vars(Stop)
    /\ WF_vars(HealthStart) /\ WF_vars(ProbePing) /\ WF_vars(ProbeHead)
    /\ WF_vars(AdminStart)
    /\ WF_vars(PurgeDone)
    /\ \A s \in {"mcp", "admin"} : WF_vars(QueryDone(s))

Spec == Init /\ [][Next]_vars
FairSpec == Init /\ [][Next]_vars /\ Fairness

----------------------------------------------------------------------------
(* Properties.                                                               *)

\* A configuration that Load accepts is one the other parts can run with: nothing
\* set was read as something else; every limiter, breaker and retry loop has usable
\* parameters (a rate of NaN passes); the administrative trail is kept at least as
\* long as the ordinary one, zero being for ever; anonymous writes are audited,
\* scoped and counted; minted keys are mailed or logged with consent; and a shared
\* key store is peppered.  (config.Load, config.go:433-531, is thirty checks in ten
\* functions; the retention and quota checks are not in Validate.)
ConfigSound ==
    pc = "flag" =>
        /\ \A k \in DOMAIN Default \cup Optional \cup Flags : env[k] # Garbage
        /\ \A k \in {"RPC_RATE_LIMIT", "MCP_RATE_LIMIT", "MCP_ANON_RATE_LIMIT"} :
               envOrDefault(env, k) = NaN \/ envOrDefault(env, k) > 0
        /\ \A k \in {"RPC_RATE_BURST", "MCP_RATE_BURST", "MCP_ANON_RATE_BURST",
                     "NVNM_TRUSTED_PROXY_HOPS", "CIRCUIT_BREAKER_THRESHOLD",
                     "CIRCUIT_BREAKER_TIMEOUT", "REQUEST_TIMEOUT"} :
               envOrDefault(env, k) > 0
        /\ envOrDefault(env, "RPC_MAX_RETRIES") >= 0
        /\ LET window(k) == IF Number(env, k) = 0 THEN 1000 ELSE Number(env, k)
           IN  Number(env, "MCP_WRITE_AUDIT_GRANT_ROLE_RETENTION") # 0 =>
                   window("MCP_WRITE_AUDIT_GRANT_ROLE_RETENTION")
                       >= window("MCP_WRITE_AUDIT_RETENTION")
        /\ LET s == Settings(env, envOrDefault(env, "MCP_TRANSPORT"))
           IN  /\ s.writes => /\ s.audit
                              /\ ~envBool(env, "MCP_RELAY_ALLOW_ANY")
                              /\ envOrDefault(env, "MCP_SIGNER_WRITE_RATE") >= 1
               /\ s.keyRequest => \/ Present(env, "NVNM_SMTP_HOST") /\ Present(env, "NVNM_SMTP_FROM")
                                  \/ envBool(env, "NVNM_ALLOW_KEY_IN_LOGS")
               /\ s.store = "postgres" => env["KEY_HMAC_PEPPER"] = "long"

\* "The HTTP transport entrypoint refuses to start when validator is nil; this nil path
\* is for stdio and tests only" (auth.go:17-19): http is never served without one.
GuardedWhenServing == pc = "serving" /\ cfg.transport = "http" => validator

\* Http is served only with its limiters in place, anonymous writes only with the audit
\* database open, and requests only behind a validator where the keys come from a file,
\* the environment or the identity provider.  A Postgres store is counted twice before
\* it is served: loadPostgresKeyStore refuses on the first count, and the validator's
\* constructor makes "no authentication" of the second (main.go:457, 466).
GuardsInPlace ==
    pc = "serving" /\ cfg.transport = "http" =>
        /\ cfg.store # "postgres" => validator
        /\ "limiters" \in live
        /\ cfg.writes => "pool" \in live

\* However run ends - refused, failed half way or stopped - nothing it opened is left
\* open: pools, listeners, clients and limiters (main.go:61-226).  The exception is a
\* health server that was closed before its goroutine came to serve: its address stays
\* bound until the goroutine runs, and its probe loop runs on from then (health.go:114-140).
EverythingReleased ==
    pc = "exited" => live = CASE health = "missed" -> {"listener"}
                              [] health = "leaked" -> {"probe"}
                              [] OTHER -> {}

\* What a request or the purge is using is not closed under it: the servers are drained
\* before their stores.  Two kinds of requests can meet a closed store: one that outlived
\* the drain, and one of an http server whose listener failed, which is not drained at
\* all (main.go:173-221, 556-570; server.go:305-312).
ClosedAfterUse ==
    /\ purge = "query" => "pool" \in live
    /\ \A s \in DOMAIN handler :
           handler[s] # "none" =>
               \/ s \in forsaken
               \/ s = "mcp" /\ undrained
               \/ /\ cfg.audit => "pool" \in live
                  /\ cfg.store = "postgres" => "keyPool" \in live
                  /\ {"evm", "telemetry"} \subseteq live

\* run waits for a database that hangs: for a count of the key store, or for the
\* statement of a request, or of the purge, to give its connection back.
Stuck ==
    /\ db = "hung"
    /\ \/ pc \in {"count", "recount"}
       \/ pc = "closeAudit" /\ ~PoolReleased("pool")
       \/ /\ pc = "unwind" /\ defers # <<>> /\ Last(defers) \in Pools
          /\ ~PoolReleased(Last(defers))

\* A signal, or an error anywhere in run, ends the process, whatever the purge, the
\* handlers and the health goroutine are doing, and whether or not the listener was
\* drained.  Only a database that hangs can keep it: the key store's statements have
\* no deadline, and pgxpool's Close waits for them (postgres_store.go:147-264).
Stops == (done \/ pc \in {"closeAudit", "unwind"}) ~> (pc = "exited" \/ Stuck)

\* Once the node's condition no longer changes, /readyz of a serving process comes to
\* say what it is and keeps saying it (health.go:185-252).
Healthy == node = "up" \/ (node = "stalled" /\ ~cfg.staleness)
ReadyFollowsNode == <>[](pc = "serving" => (ready <=> Healthy))

=============================================================================
