---------------------------- MODULE RequestGate ----------------------------
(***************************************************************************)
(* The path of an HTTP request from the socket to a tool handler:          *)
(* server.go assembles the chain CORS -> origin guard -> forwarded-proto   *)
(* guard -> pre-auth failure limiter -> path mux -> authentication ->      *)
(* anonymous limiter -> per-client limiter, and inside the MCP server the  *)
(* auth enforcement middleware and each tool's role check.  Requests run   *)
(* concurrently with each other, with the limiters' janitors and with the  *)
(* operator who edits keys.                                                *)
(***************************************************************************)
EXTENDS RateLimiter, Sequences

CONSTANTS
    Requests,     \* requests that may be in flight together
    Deployments,  \* configurations: [keylessReads, keylessWrites, writeTools,
                  \*                  trustProxy, provider]; "none" is a server
                  \* that serves without a validator (Lifecycle)
    Traffic,      \* Traffic[d]: the HTTP requests sent to deployment d
    Edits,        \* Edits[d]: what its operator may make of a key
    Hops,         \* trusted proxies in front of a deployment that trusts them
    Addresses,    \* addresses of clients
    Keys,         \* API keys
    ClientOf,     \* ClientOf[k]: the client id of a key's entry
    Expires,      \* Expires[k]: when the key expires, 0 for never
    Jwts,         \* tokens of the identity provider
    Token,        \* Token[j]: [valid, issuer, audience, sub, roles, nested]
    MaxRequests, MaxClock, MaxEdits    \* bounds

ReadRoles == {"reader", "writer", "admin", "automation"}
WriteRoles == {"writer", "admin", "automation"}

\* Tools stand for their groups: "read" for the queries and the onboarding
\* tools, "prepare" and "grant" for the anchor tools of the two role groups,
\* "send" for evm_send_raw_transaction.  "list" is a method that calls no tool.
Tools == {"read", "prepare", "grant", "send", "unknown", "list"}

\* What the chain reads of an HTTP request: the peer and the forwarded-for
\* entries it made up, its origin, scheme and path, its credential, and the
\* tool it calls.
HttpRequests ==
    [real : Addresses, forged : Seq(Addresses), origin : {"none", "listed", "foreign"},
     preflight : BOOLEAN, proto : Seq({"http", "https"}), path : {"mcp", "wellknown", "keys"},
     cred : {"none", "basic", "junk"} \cup Keys \cup Jwts, tool : Tools]

KeyStates == [enabled : BOOLEAN, roles : SUBSET ReadRoles]

ClientIds == {ClientOf[k] : k \in Keys} \cup {Token[j].sub : j \in Jwts}

ASSUME RequestGateAssumption ==
    /\ Deployments \subseteq [keylessReads : BOOLEAN, keylessWrites : BOOLEAN,
                              writeTools : BOOLEAN, trustProxy : BOOLEAN,
                              provider : {"apikey", "fusionauth", "none"}]
    /\ Hops \in Nat \ {0}
    /\ Expires \in [Keys -> Nat]
    /\ Traffic \in [Deployments -> SUBSET HttpRequests]
    /\ Edits \in [Deployments -> SUBSET KeyStates]
    /\ {"none", "basic"} \cap (Keys \cup Jwts) = {}
    \* The markers for no claims and for refused ones are not client ids.
    /\ {"anonymous", "rejected"} \cap ClientIds = {}
    \* There is always a free address for a bucket.
    /\ IsFiniteSet(Requests) /\ Requests # {}
    /\ IsFiniteSet(Ids) /\ Cardinality(Ids) > 3 * MaxKeys + Cardinality(Requests)
    /\ {MaxRequests, MaxClock, MaxEdits} \subseteq Nat

VARIABLES
    deployment,  \* the configuration the server was started with
    keys,        \* keys[k]: [enabled, roles], the key store
    clock,
    map,         \* map[l]: the buckets of limiter l
    heap,        \* heap[id]: tokens in a bucket
    slot,        \* slot[r]: the request in flight
    sent,        \* requests so far
    edits,       \* edits of the key store so far
    fails,       \* fails[a]: failed authentications from address a
    blocked,     \* addresses refused before authentication
    admitted,    \* admitted[l][key]: what limiter l let through
    lost         \* lost[l][key]: buckets dropped that were still in use, or
                 \* drawn from too late to be full when the janitor comes

vars == <<deployment, keys, clock, map, heap, slot, sent, edits,
          fails, blocked, admitted, lost>>
observers == <<fails, blocked, admitted, lost>>

Idle == [pc |-> "idle"]
Proxy == "proxy"
Principals == Addresses \cup {Proxy} \cup ClientIds

Init ==
    /\ deployment \in Deployments
    /\ keys = [k \in Keys |-> [enabled |-> TRUE, roles |-> {"writer"}]]
    /\ clock = 0
    /\ map = [l \in Limiters |-> EmptyMap]
    /\ heap = [i \in Ids |-> 0]
    /\ slot = [r \in Requests |-> Idle]
    /\ sent = 0 /\ edits = 0
    /\ fails = [a \in Addresses |-> 0]
    /\ blocked = {}
    /\ admitted = [l \in Limiters |-> [p \in Principals |-> 0]]
    /\ lost = [l \in Limiters |-> [p \in Principals |-> 0]]
-----------------------------------------------------------------------------
(* The source address. *)

\* What the last hop saw and the X-Forwarded-For lines of the request
\* (external): a client may send a header of its own, and every proxy appends
\* the peer it got the request from to the header it got, as one line.
Remote(q) == IF deployment.trustProxy THEN Proxy ELSE q.real
ForwardedFor(q) ==
    <<q.forged \o (IF deployment.trustProxy
                   THEN <<q.real>> \o [i \in 1..(Hops - 1) |-> Proxy]
                   ELSE <<>>)>>

\* The entries of the first line: clientIP looks at no other, so that a proxy
\* that adds a line of its own would leave the client's to be read.
parseXFF(q) == Head(ForwardedFor(q))

\* Mutation: the client-most entry is taken, as many proxies' docs suggest.
clientIPLeftmost(q) ==
    IF ~deployment.trustProxy THEN Remote(q) ELSE (parseXFF(q) \o <<Remote(q)>>)[1]

\* Mutation: the walk from the right is one entry short.
clientIPShort(q) ==
    LET seq == Append(parseXFF(q), Remote(q))
    IN  IF deployment.trustProxy /\ Len(seq) - Hops + 1 \in DOMAIN seq
        THEN seq[Len(seq) - Hops + 1] ELSE Remote(q)

clientIP(q) ==
    LET seq == Append(parseXFF(q), Remote(q))
        idx == Len(seq) - Hops
    IN  IF deployment.trustProxy /\ idx \in DOMAIN seq THEN seq[idx] ELSE Remote(q)
-----------------------------------------------------------------------------
(* The guards that look at the request alone. *)

\* An origin that is absent always passes; one that is listed too.
Allowed(origin) == origin \in {"none", "listed"}

\* A preflight is answered by the CORS layer, whatever the answer.
originGuard(q) == Allowed(q.origin)

\* forwardedProtoScheme: the first entry of the list is the client's.  Only an
\* explicit downgrade is refused, and only behind a trusted proxy.
requireForwardedHTTPS(q) ==
    deployment.trustProxy /\ q.proto # <<>> => Head(q.proto) = "https"

PassesGuards(q) == ~q.preflight /\ originGuard(q) /\ requireForwardedHTTPS(q)
-----------------------------------------------------------------------------
(* Credentials. *)

NoClaims == [client |-> "anonymous", roles |-> {}]
Rejected == [client |-> "rejected", roles |-> {}]

\* classifyEntry, as of now.
Usable(k) == keys[k].enabled /\ (Expires[k] = 0 \/ clock < Expires[k])

\* APIKeyValidator.Validate; a token that is no stored key is refused.
ValidateKey(cred) ==
    IF cred \in Keys /\ Usable(cred)
    THEN [client |-> ClientOf[cred], roles |-> keys[cred].roles]
    ELSE Rejected

\* The roles claim wins when it holds any role; the roles nested under the
\* application come second.
extractRoles(t) == IF t.roles # {} THEN t.roles ELSE t.nested

\* FusionAuthValidator.Validate: the signature and the times, then the
\* issuer (with or without its scheme), then the audience.  The subject is
\* optional; without one the client id is empty.
ValidateJwt(cred) ==
    IF /\ cred \in Jwts
       /\ Token[cred].valid
       /\ Token[cred].issuer \in {"expected", "expectedNoScheme"}
       /\ "app" \in Token[cred].audience
    THEN [client |-> Token[cred].sub, roles |-> extractRoles(Token[cred])]
    ELSE Rejected

\* The Authorization header, with a validator.
AuthHeader(q) ==
    CASE q.cred = "none"  -> IF deployment.keylessReads THEN NoClaims ELSE Rejected
      [] q.cred = "basic" -> Rejected
      [] OTHER            -> IF deployment.provider = "apikey"
                             THEN ValidateKey(q.cred) ELSE ValidateJwt(q.cred)

\* AuthMiddleware: what a request's credential amounts to.  Without a
\* validator the chain has no authentication at all and nobody has claims.
Authenticate(q) == IF deployment.provider = "none" THEN NoClaims ELSE AuthHeader(q)

\* ClientIDFromContext.
ClientID(claims) == IF claims = NoClaims THEN "" ELSE claims.client
-----------------------------------------------------------------------------
(* What a caller may run. *)

\* Mutation: the relay tool is exempt like the prepare tools.
RequiresAuthReadsOnly(tool) == tool \notin {"read", "prepare", "grant", "send"}

\* Tools that are not listed need authentication, and evm_send_raw_transaction
\* does unless writes are keyless.
RequiresAuth(tool) ==
    IF tool = "send" THEN ~deployment.keylessWrites
                     ELSE tool \notin {"read", "prepare", "grant"}

\* NewAuthEnforcementMiddleware: only tools/call, only with keyless reads.
Enforced(s) ==
    deployment.keylessReads /\ s.q.tool # "list"
        => ~RequiresAuth(s.q.tool) \/ s.claims # NoClaims

\* NewServer registers the write tools only when they are enabled.
Registered(tool) ==
    tool \in {"read", "list"} \cup
             (IF deployment.writeTools THEN {"prepare", "grant", "send"} ELSE {})

RolesFor(tool) ==
    CASE tool = "read" -> ReadRoles
      [] tool = "grant" -> {"admin"}
      [] OTHER -> WriteRoles

\* Without claims the decision was made upstream; with claims one role of
\* the tool's list is needed.
requireRole(claims, tool) ==
    tool = "list" \/ claims = NoClaims \/ claims.roles \cap RolesFor(tool) # {}
-----------------------------------------------------------------------------
(* Buckets. *)

Held == {slot[r].bucket : r \in {x \in Requests : slot[x].pc \in {"peek", "penalize", "take"}}}
FreeId == CHOOSE i \in Ids : i \notin Held \cup UNION {Mapped(map[l]) : l \in Limiters}

\* Request r asks limiter l for the bucket of a key (limiterFor, getLimiter)
\* and leaves the critical section holding it.
GetLimiter(r, l, key, s) ==
    \E m \in limiterFor(map[l], key, clock, FreeId) :
        LET fresh == key \notin DOMAIN map[l]
        IN  /\ map' = [map EXCEPT ![l] = m]
            /\ heap' = IF fresh THEN [heap EXCEPT ![FreeId] = Burst[l]] ELSE heap
            /\ slot' = [slot EXCEPT ![r] = [s EXCEPT !.bucket = m[key].id]]
            /\ lost' = [lost EXCEPT ![l] = [p \in Principals |->
                            IF p \in Dropped(map[l], m) THEN @[p] + 1 ELSE @[p]]]

\* The janitor of limiter l runs.
Sweep(l) ==
    /\ sweep(map[l], clock) # {}
    /\ map' = [map EXCEPT ![l] = Restrict(@, DOMAIN @ \ sweep(@, clock))]
    /\ lost' = [lost EXCEPT ![l] = [p \in Principals |->
                    IF p \in sweep(map[l], clock) /\ map[l][p].id \in Held
                    THEN @[p] + 1 ELSE @[p]]]
    /\ UNCHANGED <<deployment, keys, clock, heap, slot, sent, edits, fails, blocked, admitted>>

\* Time passes: every bucket gains a token, up to its burst.
Tick ==
    /\ clock < MaxClock
    /\ clock' = clock + 1
    /\ heap' = [i \in Ids |->
                  LET owners == {l \in Limiters : i \in Mapped(map[l])}
                                \cup {slot[r].limiter : r \in
                                        {x \in Requests : slot[x].pc \in {"peek", "penalize", "take"}
                                                          /\ slot[x].bucket = i}}
                  IN  IF owners = {} THEN 0
                      ELSE Refilled(CHOOSE l \in owners : TRUE, heap[i])]
    /\ UNCHANGED <<deployment, keys, map, slot, sent, edits, observers>>
-----------------------------------------------------------------------------
(* The request. *)

Refuse(r) == slot' = [slot EXCEPT ![r] = Idle]

\* The key a request presents.
Grants(q) == IF q.cred \in Keys /\ Usable(q.cred) THEN keys[q.cred].roles ELSE {}

\* A request passes the guards and asks for its failure budget.
Arrive(r) ==
    /\ slot[r].pc = "idle" /\ sent < MaxRequests
    /\ \E q \in Traffic[deployment] :
          /\ PassesGuards(q)
          /\ GetLimiter(r, "fail", clientIP(q),
                [pc |-> "peek", q |-> q, claims |-> NoClaims, limiter |-> "fail",
                 bucket |-> 0, charged |-> {}, grants |-> Grants(q)])
    /\ sent' = sent + 1
    /\ UNCHANGED <<deployment, keys, clock, edits, fails, blocked, admitted>>

\* A request a guard turns away leaves nothing behind.
TurnAway(r) ==
    /\ slot[r].pc = "idle" /\ sent < MaxRequests
    /\ \E q \in Traffic[deployment] : ~PassesGuards(q)
    /\ sent' = sent + 1
    /\ UNCHANGED <<deployment, keys, clock, map, heap, slot, edits, observers>>

\* IPFailRateLimiter.Wrap: the budget is looked at, not used.
PeekPasses(r) ==
    /\ slot[r].pc = "peek" /\ heap[slot[r].bucket] >= 1
    /\ slot' = [slot EXCEPT ![r].pc = "route", ![r].bucket = 0]
    /\ UNCHANGED <<deployment, keys, clock, map, heap, sent, edits, observers>>

PeekRefuses(r) ==
    /\ slot[r].pc = "peek" /\ heap[slot[r].bucket] < 1
    /\ Refuse(r)
    /\ blocked' = blocked \cup {slot[r].q.real}
    /\ UNCHANGED <<deployment, keys, clock, map, heap, sent, edits, fails, admitted, lost>>

\* The discovery paths answer 404 and the key-request path has a handler of
\* its own: neither reaches authentication.
PublicPath(r) ==
    /\ slot[r].pc = "route" /\ slot[r].q.path \in {"wellknown", "keys"}
    /\ Refuse(r)
    /\ UNCHANGED <<deployment, keys, clock, map, heap, sent, edits, observers>>

\* AuthMiddleware lets the request on.  Claims are fixed from here on.
AuthAdmits(r) ==
    LET claims == Authenticate(slot[r].q)
    IN  /\ slot[r].pc = "route" /\ slot[r].q.path = "mcp"
        /\ claims # Rejected
        /\ slot' = [slot EXCEPT ![r].claims = claims, ![r].limiter = "anon", ![r].pc = "limit"]
        /\ UNCHANGED <<deployment, keys, clock, map, heap, sent, edits, observers>>

\* AuthMiddleware answers 401; the penalty asks for the bucket again.
AuthRefuses(r) ==
    LET q == slot[r].q
    IN  /\ slot[r].pc = "route" /\ q.path = "mcp"
        /\ Authenticate(q) = Rejected
        /\ GetLimiter(r, "fail", clientIP(q), [slot[r] EXCEPT !.pc = "penalize"])
        /\ fails' = [fails EXCEPT ![q.real] = @ + 1]
        /\ UNCHANGED <<deployment, keys, clock, sent, edits, blocked, admitted>>

\* Penalize: the token is taken if there is one.
Penalize(r) ==
    /\ slot[r].pc = "penalize"
    /\ heap' = [heap EXCEPT ![slot[r].bucket] = AfterAllow(@)]
    /\ Refuse(r)
    /\ UNCHANGED <<deployment, keys, clock, map, sent, edits, observers>>

LimitKey(s) == IF s.limiter = "anon" THEN clientIP(s.q) ELSE ClientID(s.claims)

\* Mutation: the anonymous limiter does not look for claims.
PaysTwice(s) == s.limiter = "client" => ClientID(s.claims) # ""

\* Whom each of the two limiters is for: the anonymous one whoever has no
\* claims, the per-client one whoever has a client id.
Pays(s) == IF s.limiter = "anon" THEN s.claims = NoClaims ELSE ClientID(s.claims) # ""

\* The handler a limiter calls next: the anonymous one the per-client one,
\* that one the MCP server.
Onward(s) ==
    IF s.limiter = "anon" THEN [s EXCEPT !.pc = "limit", !.limiter = "client", !.bucket = 0]
                          ELSE [s EXCEPT !.pc = "call", !.bucket = 0]

\* A limiter is not for this request.
PassBy(r) ==
    /\ slot[r].pc = "limit" /\ ~Pays(slot[r])
    /\ slot' = [slot EXCEPT ![r] = Onward(slot[r])]
    /\ UNCHANGED <<deployment, keys, clock, map, heap, sent, edits, observers>>

\* It is: find the bucket, ...
Limit(r) ==
    /\ slot[r].pc = "limit" /\ Pays(slot[r])
    /\ GetLimiter(r, slot[r].limiter, LimitKey(slot[r]), [slot[r] EXCEPT !.pc = "take"])
    /\ UNCHANGED <<deployment, keys, clock, sent, edits, fails, blocked, admitted>>

\* The bucket is in the map but nobody looked it up for so long that the
\* janitor may come before a token taken now has been replaced.
Late(s) ==
    LET m == map[s.limiter]
    IN  /\ LimitKey(s) \in DOMAIN m /\ m[LimitKey(s)].id = s.bucket
        /\ clock + Burst[s.limiter] > m[LimitKey(s)].last + IdleTTL

\* ... then take a token from it.
TakeAdmits(r) ==
    LET s == slot[r]
    IN  /\ s.pc = "take" /\ Allows(heap[s.bucket])
        /\ heap' = [heap EXCEPT ![s.bucket] = AfterAllow(@)]
        /\ slot' = [slot EXCEPT ![r] =
                       Onward([s EXCEPT !.charged = @ \cup {<<s.limiter, LimitKey(s)>>}])]
        /\ admitted' = [admitted EXCEPT ![s.limiter][LimitKey(s)] = @ + 1]
        /\ lost' = IF Late(s) THEN [lost EXCEPT ![s.limiter][LimitKey(s)] = @ + 1] ELSE lost
        /\ UNCHANGED <<deployment, keys, clock, map, sent, edits, fails, blocked>>

TakeRefuses(r) ==
    /\ slot[r].pc = "take" /\ ~Allows(heap[slot[r].bucket])
    /\ Refuse(r)
    /\ UNCHANGED <<deployment, keys, clock, map, heap, sent, edits, observers>>

MayRun(s) == Enforced(s) /\ Registered(s.q.tool) /\ requireRole(s.claims, s.q.tool)

\* The MCP server dispatches the method.
Run(r) ==
    /\ slot[r].pc = "call" /\ MayRun(slot[r])
    /\ slot' = [slot EXCEPT ![r].pc = "ran"]
    /\ UNCHANGED <<deployment, keys, clock, map, heap, sent, edits, observers>>

Deny(r) ==
    /\ slot[r].pc = "call" /\ ~MayRun(slot[r])
    /\ Refuse(r)
    /\ UNCHANGED <<deployment, keys, clock, map, heap, sent, edits, observers>>

Respond(r) ==
    /\ slot[r].pc = "ran"
    /\ Refuse(r)
    /\ UNCHANGED <<deployment, keys, clock, map, heap, sent, edits, observers>>

\* The operator disables a key, enables it or changes its roles.  Requests in
\* flight may have been granted what it offers from now on, too.
EditKey(k) ==
    /\ edits < MaxEdits
    /\ \E e \in Edits[deployment] : keys' = [keys EXCEPT ![k] = e]
    /\ keys' # keys
    /\ edits' = edits + 1
    /\ slot' = [r \in Requests |->
                  IF slot[r].pc # "idle" /\ slot[r].q.cred = k /\ keys'[k].enabled
                     /\ (Expires[k] = 0 \/ clock < Expires[k])
                  THEN [slot[r] EXCEPT !.grants = @ \cup keys'[k].roles] ELSE slot[r]]
    /\ UNCHANGED <<deployment, clock, map, heap, sent, observers>>

Next ==
    \/ \E r \in Requests :
          \/ Arrive(r) \/ TurnAway(r) \/ PeekPasses(r) \/ PeekRefuses(r) \/ PublicPath(r)
          \/ AuthAdmits(r) \/ AuthRefuses(r) \/ Penalize(r) \/ PassBy(r) \/ Limit(r)
          \/ TakeAdmits(r) \/ TakeRefuses(r) \/ Run(r) \/ Deny(r) \/ Respond(r)
    \/ \E l \in Limiters : Sweep(l)
    \/ \E k \in Keys : EditKey(k)
    \/ Tick

Spec == Init /\ [][Next]_vars
-----------------------------------------------------------------------------
(* Properties. *)

InFlight(pcs) == {r \in Requests : slot[r].pc \in pcs}

Claims == [client : ClientIds, roles : SUBSET (ReadRoles \cup UNION
              {Token[j].roles \cup Token[j].nested : j \in Jwts})] \cup {NoClaims}

\* A request in flight, and the buckets it paid from.
InFlightRequests ==
    [pc : {"peek", "route", "penalize", "limit", "take", "call", "ran"}, q : HttpRequests,
     claims : Claims, limiter : Limiters, bucket : Ids \cup {0},
     charged : SUBSET (Limiters \X Principals), grants : SUBSET ReadRoles]

\* The state is well typed, and no bucket holds more than its burst or goes
\* into debt, and no map holds more than its cap.
TypeOK ==
    /\ deployment \in Deployments
    /\ keys \in [Keys -> KeyStates]
    /\ clock \in 0..MaxClock /\ sent \in 0..MaxRequests /\ edits \in 0..MaxEdits
    /\ heap \in [Ids -> Nat]
    /\ DOMAIN map = Limiters
    /\ \A l \in Limiters :
          /\ DOMAIN map[l] \subseteq Principals
          /\ map[l] \in [DOMAIN map[l] -> [id : Ids, last : 0..clock]]
          /\ \A p \in DOMAIN map[l] : heap[map[l][p].id] <= Burst[l]
          /\ IsFiniteSet(DOMAIN map[l]) /\ Cardinality(DOMAIN map[l]) <= MaxKeys
    /\ slot \in [Requests -> {Idle} \cup InFlightRequests]
    /\ \A r \in InFlight({"peek", "penalize", "take"}) :
          /\ slot[r].bucket \in Ids
          /\ heap[slot[r].bucket] <= Burst[slot[r].limiter]
    /\ fails \in [Addresses -> Nat] /\ blocked \subseteq Addresses
    /\ admitted \in [Limiters -> [Principals -> Nat]]
    /\ lost \in [Limiters -> [Principals -> Nat]]

\* Nobody runs what the configuration and the key store did not allow them.
\* A caller without credentials runs a tool only where reads are keyless, and
\* the relay only where writes are; sending a bad credential is not the same
\* as sending none.  A caller with a key runs a tool only if, at some moment
\* since the request arrived, the key was usable with a role of the tool
\* (auth.go, authpolicy.go, rbac.go).  A server without a validator runs what
\* it has for everybody, and stops at the relay only where reads are keyless.
OnlyAuthorised ==
    \A r \in InFlight({"ran"}) :
        LET q == slot[r].q IN
        /\ q.origin # "foreign" /\ q.path = "mcp"
        /\ q.tool \in {"prepare", "grant", "send"} => deployment.writeTools
        /\ IF q.cred = "none" \/ deployment.provider = "none"
           THEN /\ deployment.keylessReads \/ deployment.provider = "none"
                /\ q.tool = "send" /\ deployment.keylessReads => deployment.keylessWrites
           ELSE q.tool # "list" =>
                \/ /\ deployment.provider = "apikey"
                   /\ slot[r].grants \cap RolesFor(q.tool) # {}
                \/ /\ deployment.provider = "fusionauth"
                   /\ Token[q.cred].valid /\ "app" \in Token[q.cred].audience
                   /\ (Token[q.cred].roles \cup Token[q.cred].nested) \cap RolesFor(q.tool) # {}

\* Every call that runs was paid for once, by the right caller: one without
\* claims from the bucket of the address it really came from, whatever its
\* headers say, and one with a client id from that client's bucket and no
\* other, though two limiters look at every request (ratelimit.go, anonrate.go).
\* The calls of a client whose id is empty - a token without a subject, a key
\* that key-mgmt or an editor gave none - nobody is charged for.
EveryRunCharged ==
    \A r \in InFlight({"ran"}) :
        slot[r].charged =
            CASE slot[r].claims = NoClaims -> {<<"anon", slot[r].q.real>>}
              [] slot[r].claims.client = "" -> {}
              [] OTHER -> {<<"client", slot[r].claims.client>>}

\* However a client dresses up its X-Forwarded-For header, and however its
\* requests overlap, the failed authentications one address gets through are
\* limited: its burst, plus, for the start and for each refill, one for every
\* request in flight (failrate.go:238-255 reads the budget before
\* authentication and charges it after).  A bucket dropped at the cap starts
\* the count anew.
FailBound ==
    LET N == Cardinality(Requests) IN
    \A a \in Addresses :
        fails[a] <= (1 + lost["fail"][a]) * (Burst["fail"] - 1 + N + N * clock)

\* An address is refused before authentication only if it used up its own
\* budget: nobody else's failures, behind the same proxy or not, block it.
OnlyOffendersBlocked == \A a \in blocked : fails[a] >= Burst["fail"]

\* What a limiter lets through for one caller is the burst and one for each
\* tick, no matter when the janitor runs: only a bucket dropped while it was
\* in use, or one a caller sat on for most of the idle time between its lookup
\* and its Allow, gives away more (keyedrate.go:86-134).
AdmitBound ==
    \A l \in {"anon", "client"}, p \in Principals :
        admitted[l][p] <= (1 + lost[l][p]) * (Burst[l] + clock)
=============================================================================
