------------------------- MODULE RequestGate_proofs -------------------------
(***************************************************************************)
(* Proofs about RequestGate, for any number of requests in flight, any     *)
(* deployments, traffic, keys and tokens, any bursts and any number of     *)
(* trusted proxies.                                                        *)
(***************************************************************************)
EXTENDS RequestGate, FiniteSetTheorems, TLAPS

(* Where the parts of two sequences end up when one is put after the       *)
(* other.                                                                  *)
LEMMA Concatenation ==
  ASSUME NEW T, NEW s \in Seq(T), NEW t \in Seq(T), Len(t) >= 1
  PROVE  /\ s \o t \in Seq(T) /\ Len(s \o t) = Len(s) + Len(t)
         /\ (s \o t)[Len(s) + 1] = t[1]
OBVIOUS

(* The client address is the one the outermost trusted proxy saw, whatever *)
(* entries the client put into the header itself.                          *)
LEMMA ClientIPIsReal ==
  ASSUME deployment \in Deployments, NEW q \in HttpRequests
  PROVE  clientIP(q) = q.real
<1>1. CASE ~deployment.trustProxy
  BY <1>1 DEF clientIP, Remote
<1>2. CASE deployment.trustProxy
  <2> DEFINE T == Addresses \cup {Proxy}
             F == q.forged
             P == [i \in 1..(Hops - 1) |-> Proxy]
             R == <<q.real>> \o P
             S == F \o R
  <2>1. /\ F \in Seq(T) /\ q.real \in T /\ Proxy \in T /\ Hops \in Nat /\ Hops >= 1
        /\ Len(F) \in Nat
    BY RequestGateAssumption DEF HttpRequests
  <2>2. P \in Seq(T) /\ Len(P) = Hops - 1
    BY <2>1
  <2>3. R \in Seq(T) /\ Len(R) = Hops /\ R[1] = q.real
    <3> HIDE DEF P
    <3>1. <<q.real>> \in Seq(T) /\ Len(<<q.real>>) = 1 /\ <<q.real>>[1] = q.real
      BY <2>1
    <3>2. QED BY <2>1, <2>2, <3>1
  <2>4. S \in Seq(T) /\ Len(S) = Len(F) + Hops /\ S[Len(F) + 1] = q.real
    <3> HIDE DEF R, F, T
    <3> QED BY <2>1, <2>3, Concatenation
  <2>5. parseXFF(q) = S /\ Remote(q) = Proxy
    <3>1. ForwardedFor(q) = <<S>> /\ Remote(q) = Proxy
      BY <1>2 DEF ForwardedFor, Remote
    <3> HIDE DEF S
    <3>2. Head(<<S>>) = S
      OBVIOUS
    <3>3. QED BY <3>1, <3>2 DEF parseXFF
  <2>6. LET seq == Append(S, Proxy) IN
        /\ Len(seq) - Hops = Len(F) + 1
        /\ Len(F) + 1 \in DOMAIN seq
        /\ seq[Len(F) + 1] = q.real
    <3> HIDE DEF S, F
    <3> QED BY <2>1, <2>4
  <2>7. QED
    <3> HIDE DEF S, F
    <3> QED BY <1>2, <2>5, <2>6 DEF clientIP
<1>3. QED BY <1>1, <1>2

(* What a lookup leaves of a map: the key is there, used now, with its old *)
(* bucket or the fresh one; the other keys keep theirs or are dropped.     *)
LEMMA Lookup ==
  ASSUME NEW mp, NEW key \in Principals, NEW f \in Ids, NEW now \in Nat,
         DOMAIN mp \subseteq Principals,
         mp \in [DOMAIN mp -> [id : Ids, last : 0..now]],
         IsFiniteSet(DOMAIN mp), Cardinality(DOMAIN mp) <= MaxKeys,
         NEW m \in limiterFor(mp, key, now, f)
  PROVE  /\ key \in DOMAIN m /\ DOMAIN m \subseteq DOMAIN mp \cup {key}
         /\ m \in [DOMAIN m -> [id : Ids, last : 0..now]]
         /\ m[key].last = now
         /\ m[key].id = IF key \in DOMAIN mp THEN mp[key].id ELSE f
         /\ \A p \in DOMAIN m \ {key} : p \in DOMAIN mp /\ m[p] = mp[p]
         /\ key \in DOMAIN mp => DOMAIN m = DOMAIN mp
         /\ IsFiniteSet(DOMAIN m) /\ Cardinality(DOMAIN m) <= MaxKeys
<1> USE RateLimiterAssumption
<1> DEFINE D == DOMAIN mp
           Put(g) == [k \in DOMAIN g \cup {key} |->
                        IF k = key THEN [id |-> f, last |-> now] ELSE g[k]]
<1>1. CASE key \in D
  <2>1. m = [mp EXCEPT ![key].last = now]
    BY <1>1 DEF limiterFor
  <2>2. DOMAIN m = D /\ m[key] = [mp[key] EXCEPT !.last = now]
        /\ \A p \in D \ {key} : m[p] = mp[p]
    BY <1>1, <2>1
  <2>3. m[key] \in [id : Ids, last : 0..now] /\ m[key].id = mp[key].id /\ m[key].last = now
    <3>1. mp[key] \in [id : Ids, last : 0..now] /\ now \in 0..now
      BY <1>1
    <3>2. QED BY <2>2, <3>1
  <2>4. m \in [DOMAIN m -> [id : Ids, last : 0..now]]
    BY <2>1, <2>2, <2>3
  <2>5. QED BY <1>1, <2>2, <2>3, <2>4
<1>2. ASSUME key \notin D, NEW E \in SUBSET D, m = Put(Restrict(mp, E)),
             Cardinality(E) < MaxKeys
      PROVE  /\ key \in DOMAIN m /\ DOMAIN m \subseteq DOMAIN mp \cup {key}
             /\ m \in [DOMAIN m -> [id : Ids, last : 0..now]]
             /\ m[key].last = now
             /\ m[key].id = f
             /\ \A p \in DOMAIN m \ {key} : p \in DOMAIN mp /\ m[p] = mp[p]
             /\ IsFiniteSet(DOMAIN m) /\ Cardinality(DOMAIN m) <= MaxKeys
  <2>1. DOMAIN m = E \cup {key} /\ m[key] = [id |-> f, last |-> now]
        /\ \A p \in E : m[p] = mp[p]
    BY <1>2 DEF Restrict
  <2>2. IsFiniteSet(E) /\ Cardinality(E) \in Nat
    BY FS_Subset, FS_CardinalityType
  <2>3. IsFiniteSet(DOMAIN m) /\ Cardinality(DOMAIN m) <= MaxKeys
    <3>1. IsFiniteSet(E \cup {key}) /\ Cardinality(E \cup {key}) = Cardinality(E) + 1
      BY <1>2, <2>2, FS_AddElement
    <3>2. Cardinality(E) + 1 <= MaxKeys
      BY <1>2, <2>2
    <3>3. DOMAIN m = E \cup {key}
      BY <2>1
    <3>4. QED BY <3>1, <3>2, <3>3
  <2>4. m \in [DOMAIN m -> [id : Ids, last : 0..now]]
    <3>1. \A p \in DOMAIN m : m[p] \in [id : Ids, last : 0..now]
      BY <2>1
    <3>2. m = [p \in DOMAIN m |-> m[p]]
      BY <1>2
    <3>3. QED BY <3>1, <3>2
  <2>5. QED BY <2>1, <2>3, <2>4
<1>3. CASE key \notin D
  <2>1. CASE Cardinality(D) >= MaxKeys
    <3>1. PICK k \in evictLRULocked(mp) : m = Put(Restrict(mp, D \ {k}))
      BY <1>3, <2>1 DEF limiterFor
    <3>2. k \in D
      BY <3>1 DEF evictLRULocked
    <3>3. Cardinality(D \ {k}) < MaxKeys
      <4>1. Cardinality(D \ {k}) = Cardinality(D) - 1 /\ Cardinality(D) \in Nat
        BY <3>2, FS_RemoveElement, FS_CardinalityType
      <4>2. QED BY <4>1
    <3>4. QED BY <1>2, <1>3, <3>1, <3>3
  <2>2. CASE ~(Cardinality(D) >= MaxKeys)
    <3>1. m = Put(mp)
      BY <1>3, <2>2 DEF limiterFor
    <3>2. mp = Restrict(mp, D)
      BY DEF Restrict
    <3>3. Cardinality(D) < MaxKeys
      BY <2>2, FS_CardinalityType
    <3>4. QED
      <4> HIDE DEF Put
      <4> QED BY <1>2, <1>3, <3>1, <3>2, <3>3
  <2>3. QED BY <2>1, <2>2
<1>4. QED BY <1>1, <1>3

-----------------------------------------------------------------------------
(* The invariant. *)

Holding == {"peek", "penalize", "take"}
Holders == InFlight(Holding)

(* Whose bucket a request is after.                                        *)
Payer(s) == IF s.limiter = "client" /\ s.claims # NoClaims THEN s.claims.client ELSE s.q.real

(* What each of the two limiters takes from a request.                     *)
AnonDue(s) == IF s.claims = NoClaims THEN {<<"anon", s.q.real>>} ELSE {}
ClientDue(s) == IF ClientID(s.claims) # "" THEN {<<"client", ClientID(s.claims)>>} ELSE {}

(* Bucket i is that of key p at limiter l: the map says so, or a request   *)
(* still holds it.                                                         *)
Owns(l, p, i) ==
    \/ p \in DOMAIN map[l] /\ map[l][p].id = i
    \/ \E r \in Holders : slot[r].bucket = i /\ slot[r].limiter = l /\ Payer(slot[r]) = p

BaseType ==
    /\ deployment \in Deployments
    /\ keys \in [Keys -> KeyStates]
    /\ clock \in 0..MaxClock /\ sent \in 0..MaxRequests /\ edits \in 0..MaxEdits
    /\ fails \in [Addresses -> Nat] /\ blocked \subseteq Addresses
    /\ admitted \in [Limiters -> [Principals -> Nat]]
    /\ lost \in [Limiters -> [Principals -> Nat]]

MapType(mp) ==
    /\ DOMAIN mp \subseteq Principals
    /\ mp \in [DOMAIN mp -> [id : Ids, last : 0..clock]]
    /\ IsFiniteSet(DOMAIN mp) /\ Cardinality(DOMAIN mp) <= MaxKeys

SlotType ==
    /\ slot \in [Requests -> {Idle} \cup InFlightRequests]
    /\ \A r \in Holders : slot[r].bucket \in Ids /\ slot[r].limiter \in Limiters

(* A bucket has one owner, and never more tokens than the owner's burst.   *)
OwnInv ==
    /\ \A l, k \in Limiters, p, o \in Principals, i \in Ids :
          Owns(l, p, i) /\ Owns(k, o, i) => l = k /\ p = o
    /\ heap \in [Ids -> Nat]
    /\ \A l \in Limiters, p \in Principals, i \in Ids : Owns(l, p, i) => heap[i] <= Burst[l]

(* The claims of a request that got past authentication.                   *)
Vetted(s) ==
    \/ deployment.provider = "none" /\ s.claims = NoClaims
    \/ /\ s.q.cred = "none" /\ deployment.keylessReads /\ s.claims = NoClaims
    \/ /\ s.q.cred \in Keys /\ deployment.provider = "apikey"
       /\ s.claims.client = ClientOf[s.q.cred] /\ s.claims.roles \subseteq s.grants
    \/ /\ s.q.cred \in Jwts /\ deployment.provider = "fusionauth"
       /\ Token[s.q.cred].valid /\ "app" \in Token[s.q.cred].audience
       /\ s.claims.client = Token[s.q.cred].sub
       /\ s.claims.roles \subseteq Token[s.q.cred].roles \cup Token[s.q.cred].nested

(* How far a request has come, and what it showed and paid on the way.     *)
FlightOK(s) ==
    /\ s.q \in Traffic[deployment] /\ PassesGuards(s.q)
    /\ s.pc \in {"peek", "route", "penalize"} => s.limiter = "fail" /\ s.charged = {}
    /\ s.pc \in {"limit", "take", "call", "ran"} =>
          s.q.path = "mcp" /\ Vetted(s) /\ s.limiter \in {"anon", "client"}
    /\ s.pc \in {"limit", "take"} => s.charged = IF s.limiter = "anon" THEN {} ELSE AnonDue(s)
    /\ s.pc = "take" => Pays(s)
    /\ s.pc \in {"call", "ran"} => s.limiter = "client" /\ s.charged = AnonDue(s) \cup ClientDue(s)
    /\ s.pc = "ran" => MayRun(s)
    /\ s.q.cred \in Keys /\ Usable(s.q.cred) => keys[s.q.cred].roles \subseteq s.grants

FlightInv == \A r \in Requests : slot[r].pc # "idle" => FlightOK(slot[r])

Core ==
    /\ BaseType
    /\ DOMAIN map = Limiters /\ \A l \in Limiters : MapType(map[l])
    /\ SlotType
    /\ OwnInv
    /\ FlightInv

(* Nothing of the invariant is more than the type invariant says.          *)
LEMMA CoreTyped == Core => TypeOK
<1> SUFFICES ASSUME Core PROVE TypeOK
  OBVIOUS
<1>1. \A r \in Holders : Payer(slot[r]) \in Principals
  <2> SUFFICES ASSUME NEW r \in Holders PROVE Payer(slot[r]) \in Principals
    OBVIOUS
  <2>1. r \in Requests /\ slot[r] \in InFlightRequests /\ slot[r].pc \in Holding
    BY DEF Holders, Holding, InFlight, Core, SlotType, Idle
  <2>2. slot[r].q.real \in Addresses /\ slot[r].claims \in Claims
    BY <2>1 DEF InFlightRequests, HttpRequests
  <2>3. QED BY <2>2 DEF Payer, Principals, Claims
<1>2. \A r \in Holders : heap[slot[r].bucket] <= Burst[slot[r].limiter]
  <2> SUFFICES ASSUME NEW r \in Holders PROVE heap[slot[r].bucket] <= Burst[slot[r].limiter]
    OBVIOUS
  <2>1. Owns(slot[r].limiter, Payer(slot[r]), slot[r].bucket)
    BY DEF Owns
  <2>2. QED BY <1>1, <2>1 DEF Core, SlotType, OwnInv
<1>3. \A l \in Limiters : \A p \in DOMAIN map[l] : heap[map[l][p].id] <= Burst[l]
  <2> SUFFICES ASSUME NEW l \in Limiters, NEW p \in DOMAIN map[l]
               PROVE  heap[map[l][p].id] <= Burst[l]
    OBVIOUS
  <2>1. Owns(l, p, map[l][p].id) /\ p \in Principals /\ map[l][p].id \in Ids
    BY DEF Owns, Core, MapType
  <2>2. QED BY <2>1 DEF Core, OwnInv
<1>4. QED BY <1>2, <1>3 DEF Core, BaseType, MapType, SlotType, OwnInv, TypeOK, Holders, Holding

(* There is an address for a new bucket: the maps and the requests in      *)
(* flight cannot use them all.                                             *)
LEMMA FreeIdFresh ==
  ASSUME Core
  PROVE  FreeId \in Ids /\ FreeId \notin Held /\ \A l \in Limiters : FreeId \notin Mapped(map[l])
<1> DEFINE M(l) == Mapped(map[l])
           U == UNION {M(l) : l \in Limiters}
<1>1. \A l \in Limiters : IsFiniteSet(M(l)) /\ Cardinality(M(l)) <= MaxKeys
                          /\ Cardinality(M(l)) \in Nat
  <2> SUFFICES ASSUME NEW l \in Limiters
               PROVE  IsFiniteSet(M(l)) /\ Cardinality(M(l)) <= MaxKeys
                      /\ Cardinality(M(l)) \in Nat
    OBVIOUS
  <2> DEFINE D == DOMAIN map[l]
             f == [p \in D |-> map[l][p].id]
  <2>1. f \in Surjection(D, M(l))
    BY DEF Surjection, Mapped
  <2>2. IsFiniteSet(D) /\ Cardinality(D) <= MaxKeys /\ Cardinality(D) \in Nat
    BY FS_CardinalityType DEF Core, MapType
  <2>3. IsFiniteSet(M(l)) /\ Cardinality(M(l)) <= Cardinality(D)
    <3> HIDE DEF f, M
    <3> QED BY <2>1, <2>2, FS_Surjection
  <2>4. Cardinality(M(l)) \in Nat
    BY <2>3, FS_CardinalityType
  <2>5. QED BY <2>2, <2>3, <2>4, RateLimiterAssumption
<1>2. IsFiniteSet(Held) /\ Cardinality(Held) <= Cardinality(Requests)
      /\ Cardinality(Held) \in Nat /\ Cardinality(Requests) \in Nat
  <2> DEFINE D == {x \in Requests : slot[x].pc \in {"peek", "penalize", "take"}}
             f == [r \in D |-> slot[r].bucket]
  <2>1. f \in Surjection(D, Held)
    BY DEF Surjection, Held
  <2>2. IsFiniteSet(D) /\ Cardinality(D) <= Cardinality(Requests) /\ IsFiniteSet(Requests)
    <3> D \in SUBSET Requests OBVIOUS
    <3> QED BY FS_Subset, RequestGateAssumption
  <2>3. IsFiniteSet(Held) /\ Cardinality(Held) <= Cardinality(D)
    <3> HIDE DEF f, D
    <3> QED BY <2>1, <2>2, FS_Surjection
  <2>4. Cardinality(Held) \in Nat /\ Cardinality(Requests) \in Nat /\ Cardinality(D) \in Nat
    BY <2>2, <2>3, FS_CardinalityType
  <2>5. QED BY <2>2, <2>3, <2>4
<1>3. ASSUME NEW A, NEW B, IsFiniteSet(A), IsFiniteSet(B),
             NEW a \in Nat, NEW b \in Nat, Cardinality(A) <= a, Cardinality(B) <= b
      PROVE  IsFiniteSet(A \cup B) /\ Cardinality(A \cup B) <= a + b
  <2>1. IsFiniteSet(A \cup B) /\ IsFiniteSet(A \cap B)
        /\ Cardinality(A \cup B) = Cardinality(A) + Cardinality(B) - Cardinality(A \cap B)
    BY <1>3, FS_Union, FS_Intersection
  <2>2. Cardinality(A) \in Nat /\ Cardinality(B) \in Nat /\ Cardinality(A \cap B) \in Nat
    BY <1>3, <2>1, FS_CardinalityType
  <2>3. QED BY <1>3, <2>1, <2>2
<1>4. U = (M("fail") \cup M("anon")) \cup M("client")
  BY DEF Limiters
<1>5. IsFiniteSet(Held \cup U) /\ Cardinality(Held \cup U) <= Cardinality(Requests) + 3 * MaxKeys
  <2> HIDE DEF M, U
  <2>0. MaxKeys \in Nat /\ {"fail", "anon", "client"} = Limiters
    BY RateLimiterAssumption DEF Limiters
  <2> DEFINE two == MaxKeys + MaxKeys
             three == two + MaxKeys
  <2>1. IsFiniteSet(M("fail") \cup M("anon")) /\ Cardinality(M("fail") \cup M("anon")) <= two
    BY <1>1, <1>3, <2>0
  <2>2. IsFiniteSet(U) /\ Cardinality(U) <= three
    <3>1. two \in Nat
      BY <2>0
    <3> HIDE DEF two
    <3>2. QED BY <1>1, <1>3, <1>4, <2>0, <2>1, <3>1
  <2>3. IsFiniteSet(Held \cup U) /\ Cardinality(Held \cup U) <= Cardinality(Requests) + three
    <3>1. three \in Nat
      BY <2>0
    <3> HIDE DEF three
    <3>2. QED BY <1>2, <1>3, <2>2, <3>1
  <2>4. QED BY <1>2, <2>0, <2>3
<1>6. PICK i \in Ids : i \notin Held \cup U
  <2>1. ASSUME Ids \subseteq Held \cup U PROVE FALSE
    <3> HIDE DEF U
    <3>1. Cardinality(Ids) <= Cardinality(Held \cup U)
      BY <1>5, <2>1, FS_Subset
    <3>2. Cardinality(Ids) \in Nat /\ Cardinality(Held \cup U) \in Nat
      BY <1>5, RequestGateAssumption, FS_CardinalityType
    <3>3. QED
      BY <1>2, <1>5, <3>1, <3>2, RequestGateAssumption, RateLimiterAssumption
  <2>2. QED BY <2>1
<1>7. FreeId \in Ids /\ FreeId \notin Held \cup U
  BY <1>6 DEF FreeId
<1>8. QED BY <1>7

(* What is known of a request in flight.                                   *)
LEMMA Flying ==
  ASSUME Core, NEW r \in Requests, slot[r].pc # "idle"
  PROVE  /\ slot[r] \in InFlightRequests /\ FlightOK(slot[r])
         /\ slot[r].q \in HttpRequests /\ slot[r].q.real \in Addresses
         /\ clientIP(slot[r].q) = slot[r].q.real
         /\ slot[r].claims \in Claims
         /\ Payer(slot[r]) \in Principals
         /\ slot[r].limiter \in {"anon", "client"} /\ Pays(slot[r]) =>
               LimitKey(slot[r]) = Payer(slot[r])
<1>1. slot[r] \in InFlightRequests
  BY DEF Core, SlotType, Idle
<1>2. FlightOK(slot[r])
  BY DEF Core, FlightInv
<1>3. slot[r].q \in HttpRequests /\ slot[r].q.real \in Addresses /\ slot[r].claims \in Claims
  BY <1>1 DEF InFlightRequests, HttpRequests
<1>4. clientIP(slot[r].q) = slot[r].q.real
  BY <1>3, ClientIPIsReal DEF Core, BaseType
<1>5. slot[r].claims # NoClaims => slot[r].claims.client \in ClientIds
  BY <1>3 DEF Claims
<1>6. Payer(slot[r]) \in Principals
  BY <1>3, <1>5 DEF Payer, Principals
<1>7. slot[r].limiter \in {"anon", "client"} /\ Pays(slot[r]) => LimitKey(slot[r]) = Payer(slot[r])
  BY <1>4 DEF Payer, LimitKey, Pays, ClientID
<1>8. QED BY <1>1, <1>2, <1>3, <1>4, <1>6, <1>7

(* A lookup of limiter l for request r.                                    *)
LEMMA Got ==
  ASSUME Core, NEW r \in Requests, NEW l \in Limiters, NEW key \in Principals, NEW s,
         GetLimiter(r, l, key, s)
  PROVE  /\ DOMAIN map' = Limiters /\ \A k \in Limiters \ {l} : map'[k] = map[k]
         /\ MapType(map'[l])
         /\ key \in DOMAIN map'[l] /\ map'[l][key].last = clock
         /\ \A p \in DOMAIN map'[l] \ {key} : p \in DOMAIN map[l] /\ map'[l][p] = map[l][p]
         /\ key \in DOMAIN map[l] => /\ DOMAIN map'[l] = DOMAIN map[l]
                                     /\ map'[l][key].id = map[l][key].id
                                     /\ heap' = heap
         /\ key \notin DOMAIN map[l] =>
               /\ map'[l][key].id \notin Held
               /\ \A k \in Limiters : map'[l][key].id \notin Mapped(map[k])
               /\ heap' = [heap EXCEPT ![map'[l][key].id] = Burst[l]]
         /\ slot' = [slot EXCEPT ![r] = [s EXCEPT !.bucket = map'[l][key].id]]
         /\ lost' = [lost EXCEPT ![l] = [p \in Principals |->
                        IF p \in DOMAIN map[l] \ DOMAIN map'[l] THEN lost[l][p] + 1
                                                               ELSE lost[l][p]]]
         /\ lost' \in [Limiters -> [Principals -> Nat]]
<1>1. FreeId \in Ids /\ FreeId \notin Held /\ \A k \in Limiters : FreeId \notin Mapped(map[k])
  BY FreeIdFresh
<1>2. PICK m \in limiterFor(map[l], key, clock, FreeId) :
        /\ map' = [map EXCEPT ![l] = m]
        /\ heap' = IF key \notin DOMAIN map[l] THEN [heap EXCEPT ![FreeId] = Burst[l]] ELSE heap
        /\ slot' = [slot EXCEPT ![r] = [s EXCEPT !.bucket = m[key].id]]
        /\ lost' = [lost EXCEPT ![l] = [p \in Principals |->
                            IF p \in Dropped(map[l], m) THEN @[p] + 1 ELSE @[p]]]
  BY DEF GetLimiter
<1>3. MapType(map[l]) /\ clock \in Nat
  BY DEF Core, BaseType
<1>4. /\ key \in DOMAIN m /\ DOMAIN m \subseteq DOMAIN map[l] \cup {key}
      /\ m \in [DOMAIN m -> [id : Ids, last : 0..clock]]
      /\ m[key].last = clock
      /\ m[key].id = IF key \in DOMAIN map[l] THEN map[l][key].id ELSE FreeId
      /\ \A p \in DOMAIN m \ {key} : p \in DOMAIN map[l] /\ m[p] = map[l][p]
      /\ key \in DOMAIN map[l] => DOMAIN m = DOMAIN map[l]
      /\ IsFiniteSet(DOMAIN m) /\ Cardinality(DOMAIN m) <= MaxKeys
  <2> DEFINE mp == map[l]
             now == clock
             f == FreeId
  <2>1. /\ DOMAIN mp \subseteq Principals /\ mp \in [DOMAIN mp -> [id : Ids, last : 0..now]]
        /\ IsFiniteSet(DOMAIN mp) /\ Cardinality(DOMAIN mp) <= MaxKeys
        /\ now \in Nat /\ f \in Ids /\ m \in limiterFor(mp, key, now, f)
    BY <1>1, <1>3 DEF MapType
  <2> HIDE DEF mp, now, f
  <2>2. /\ key \in DOMAIN m /\ DOMAIN m \subseteq DOMAIN mp \cup {key}
        /\ m \in [DOMAIN m -> [id : Ids, last : 0..now]]
        /\ m[key].last = now
        /\ m[key].id = IF key \in DOMAIN mp THEN mp[key].id ELSE f
        /\ \A p \in DOMAIN m \ {key} : p \in DOMAIN mp /\ m[p] = mp[p]
        /\ key \in DOMAIN mp => DOMAIN m = DOMAIN mp
        /\ IsFiniteSet(DOMAIN m) /\ Cardinality(DOMAIN m) <= MaxKeys
    BY <2>1, Lookup
  <2>3. QED BY <2>2 DEF mp, now, f
<1>5. map'[l] = m /\ DOMAIN map' = Limiters /\ \A k \in Limiters \ {l} : map'[k] = map[k]
  BY <1>2 DEF Core
<1>6. MapType(m)
  BY <1>3, <1>4 DEF MapType
<1>7. /\ lost' = [lost EXCEPT ![l] = [p \in Principals |->
                    IF p \in DOMAIN map[l] \ DOMAIN m THEN lost[l][p] + 1 ELSE lost[l][p]]]
      /\ lost' \in [Limiters -> [Principals -> Nat]]
  <2>1. lost \in [Limiters -> [Principals -> Nat]]
    BY DEF Core, BaseType
  <2>2. lost' = [lost EXCEPT ![l] = [p \in Principals |->
                    IF p \in DOMAIN map[l] \ DOMAIN m THEN lost[l][p] + 1 ELSE lost[l][p]]]
    BY <1>2, <2>1 DEF Dropped
  <2>3. [p \in Principals |-> IF p \in DOMAIN map[l] \ DOMAIN m THEN lost[l][p] + 1 ELSE lost[l][p]]
          \in [Principals -> Nat]
    BY <2>1
  <2>4. QED BY <2>1, <2>2, <2>3
<1>8. key \in DOMAIN map[l] => /\ DOMAIN m = DOMAIN map[l]
                               /\ m[key].id = map[l][key].id
                               /\ heap' = heap
  BY <1>2, <1>4
<1>9. key \notin DOMAIN map[l] =>
               /\ m[key].id \notin Held
               /\ \A k \in Limiters : m[key].id \notin Mapped(map[k])
               /\ heap' = [heap EXCEPT ![m[key].id] = Burst[l]]
  BY <1>1, <1>2, <1>4
<1>10. slot' = [slot EXCEPT ![r] = [s EXCEPT !.bucket = m[key].id]]
  BY <1>2
<1>11. QED BY <1>4, <1>5, <1>6, <1>7, <1>8, <1>9, <1>10

(* A request that is as far as before stays in order while the deployment, *)
(* the keys and the clock do.                                              *)
LEMMA FlightKept ==
  ASSUME NEW r \in Requests, UNCHANGED <<deployment, keys, clock>>, FlightOK(slot'[r])
  PROVE  FlightOK(slot[r])'
BY DEF FlightOK, PassesGuards, originGuard, requireForwardedHTTPS, Vetted, MayRun, Enforced,
       RequiresAuth, Registered, Usable

(* Buckets change no hands when nobody gets hold of another one.           *)
LEMMA OwnersKept ==
  ASSUME Core, DOMAIN map' = Limiters,
         \A l \in Limiters : /\ DOMAIN map'[l] \subseteq DOMAIN map[l]
                             /\ \A p \in DOMAIN map'[l] : map'[l][p] = map[l][p],
         \A x \in Requests : slot'[x].pc \in Holding =>
            /\ slot[x].pc = slot'[x].pc /\ slot[x].bucket = slot'[x].bucket
            /\ slot[x].limiter = slot'[x].limiter
            /\ slot[x].claims = slot'[x].claims /\ slot[x].q = slot'[x].q
  PROVE  \A l \in Limiters : \A p, i : Owns(l, p, i)' => Owns(l, p, i)
<1> SUFFICES ASSUME NEW l \in Limiters, NEW p, NEW i, Owns(l, p, i)'
             PROVE  Owns(l, p, i)
  OBVIOUS
<1>1. CASE p \in DOMAIN map'[l] /\ map'[l][p].id = i
  BY <1>1 DEF Owns
<1>2. CASE \E r \in Holders' : slot'[r].bucket = i /\ slot'[r].limiter = l /\ Payer(slot'[r]) = p
  <2>1. PICK r \in Holders' : slot'[r].bucket = i /\ slot'[r].limiter = l /\ Payer(slot'[r]) = p
    BY <1>2
  <2>2. r \in Requests /\ slot'[r].pc \in Holding
    BY DEF Holders, InFlight
  <2>3. r \in Holders /\ slot[r].bucket = i /\ slot[r].limiter = l /\ Payer(slot[r]) = p
    BY <2>1, <2>2 DEF Holders, InFlight, Payer
  <2>4. QED BY <2>3 DEF Owns
<1>3. QED BY <1>1, <1>2 DEF Owns, Payer

(* A request lets go of its bucket, or had none, and perhaps took a token. *)
LEMMA Settle ==
  ASSUME Core, BaseType', NEW r \in Requests, NEW X \in {Idle} \cup InFlightRequests,
         X.pc \notin Holding, X.pc # "idle" => FlightOK(X),
         slot' = [slot EXCEPT ![r] = X],
         UNCHANGED <<deployment, keys, clock, map>>,
         heap' \in [Ids -> Nat], \A i \in Ids : heap'[i] <= heap[i]
  PROVE  Core'
<1>1. slot'[r] = X /\ \A x \in Requests \ {r} : slot'[x] = slot[x]
  BY DEF Core, SlotType
<1>2. SlotType'
  <2>1. slot' \in [Requests -> {Idle} \cup InFlightRequests]
    BY DEF Core, SlotType
  <2>2. \A x \in Holders' : x \in Holders /\ slot'[x] = slot[x]
    BY <1>1 DEF Holders, InFlight
  <2>3. QED BY <2>1, <2>2 DEF Core, SlotType
<1>3. \A l \in Limiters : \A p, i : Owns(l, p, i)' => Owns(l, p, i)
  BY <1>1, OwnersKept DEF Core
<1>4. OwnInv'
  <2>1. \A l, k \in Limiters, p, o \in Principals, i \in Ids :
          Owns(l, p, i)' /\ Owns(k, o, i)' => l = k /\ p = o
    BY <1>3 DEF Core, OwnInv
  <2>2. \A l \in Limiters, p \in Principals, i \in Ids : Owns(l, p, i)' => heap'[i] <= Burst[l]
    <3> SUFFICES ASSUME NEW l \in Limiters, NEW p \in Principals, NEW i \in Ids, Owns(l, p, i)'
                 PROVE  heap'[i] <= Burst[l]
      OBVIOUS
    <3>1. heap[i] <= Burst[l] /\ heap'[i] <= heap[i] /\ heap[i] \in Nat /\ heap'[i] \in Nat
      BY <1>3 DEF Core, OwnInv
    <3>2. QED BY <3>1, RateLimiterAssumption
  <2>3. QED BY <2>1, <2>2 DEF OwnInv
<1>5. FlightInv'
  <2> SUFFICES ASSUME NEW x \in Requests, slot'[x].pc # "idle" PROVE FlightOK(slot[x])'
    BY DEF FlightInv
  <2>1. FlightOK(slot'[x])
    BY <1>1 DEF Core, FlightInv
  <2>2. QED BY <2>1, FlightKept
<1>6. \A l \in Limiters : MapType(map[l])'
  BY DEF Core, MapType
<1>7. QED BY <1>2, <1>4, <1>5, <1>6 DEF Core

(* Request r comes away from limiter l with the bucket of key: the one the *)
(* map had, or a new one, in which case another key may have been dropped. *)
Opens(r, l, key) ==
    LET b == map'[l][key].id IN
    /\ b \in Ids
    /\ DOMAIN map' = Limiters /\ \A k \in Limiters \ {l} : map'[k] = map[k]
    /\ key \in DOMAIN map'[l] /\ map'[l][key].last = clock
    /\ \A p \in DOMAIN map'[l] \ {key} : p \in DOMAIN map[l] /\ map'[l][p] = map[l][p]
    /\ key \in DOMAIN map[l] =>
          DOMAIN map'[l] = DOMAIN map[l] /\ b = map[l][key].id /\ heap' = heap
    /\ key \notin DOMAIN map[l] =>
          /\ heap' = [heap EXCEPT ![b] = Burst[l]]
          /\ \A k \in Limiters : \A p : ~Owns(k, p, b)
    /\ \A k \in Limiters : \A p, i : Owns(k, p, i)' =>
          Owns(k, p, i) \/ (k = l /\ p = key /\ i = b)
    /\ slot[r].pc \notin Holding /\ slot'[r].pc \in Holding
    /\ slot'[r].bucket = b /\ slot'[r].limiter = l /\ Payer(slot'[r]) = key
    /\ \A x \in Requests \ {r} : slot'[x] = slot[x]
    /\ lost' = [lost EXCEPT ![l] = [p \in Principals |->
                   IF p \in DOMAIN map[l] \ DOMAIN map'[l] THEN lost[l][p] + 1 ELSE lost[l][p]]]
    /\ clock' = clock

(* A request asks a limiter for its bucket.                                *)
LEMMA Acquire ==
  ASSUME Core, BaseType', NEW r \in Requests, NEW l \in Limiters, NEW key \in Principals,
         NEW s \in InFlightRequests, s.pc \in Holding, s.limiter = l, Payer(s) = key,
         FlightOK(s), GetLimiter(r, l, key, s), slot[r].pc \notin Holding,
         UNCHANGED <<deployment, keys, clock>>
  PROVE  /\ Core' /\ Opens(r, l, key)
         /\ slot'[r].pc = s.pc /\ slot'[r].q = s.q
<1> DEFINE b == map'[l][key].id
           X == [s EXCEPT !.bucket = b]
<1>1. /\ DOMAIN map' = Limiters /\ \A k \in Limiters \ {l} : map'[k] = map[k]
      /\ MapType(map'[l])
      /\ key \in DOMAIN map'[l] /\ map'[l][key].last = clock
      /\ \A p \in DOMAIN map'[l] \ {key} : p \in DOMAIN map[l] /\ map'[l][p] = map[l][p]
      /\ key \in DOMAIN map[l] => /\ DOMAIN map'[l] = DOMAIN map[l]
                                  /\ b = map[l][key].id
                                  /\ heap' = heap
      /\ key \notin DOMAIN map[l] =>
            /\ b \notin Held
            /\ \A k \in Limiters : b \notin Mapped(map[k])
            /\ heap' = [heap EXCEPT ![b] = Burst[l]]
      /\ slot' = [slot EXCEPT ![r] = X]
      /\ lost' = [lost EXCEPT ![l] = [p \in Principals |->
                    IF p \in DOMAIN map[l] \ DOMAIN map'[l] THEN lost[l][p] + 1 ELSE lost[l][p]]]
  BY Got
<1>2. b \in Ids
  BY <1>1 DEF MapType
<1> HIDE DEF b
<1>3. /\ X \in InFlightRequests /\ X.pc = s.pc /\ X.bucket = b /\ X.limiter = l /\ X.q = s.q
      /\ X.claims = s.claims /\ X.charged = s.charged /\ X.grants = s.grants
  BY <1>2 DEF InFlightRequests
<1>4. FlightOK(X) /\ Payer(X) = key
  <2> HIDE DEF X
  <2>1. Payer(X) = key
    BY <1>3 DEF Payer
  <2>2. Vetted(s) => Vetted(X)
    BY <1>3 DEF Vetted
  <2>3. MayRun(s) => MayRun(X)
    BY <1>3 DEF MayRun, Enforced
  <2>4. /\ Pays(s) => Pays(X)
        /\ AnonDue(X) = AnonDue(s) /\ ClientDue(X) = ClientDue(s)
    BY <1>3 DEF Pays, AnonDue, ClientDue
  <2>5. FlightOK(X)
    BY <1>3, <2>2, <2>3, <2>4 DEF FlightOK
  <2>6. QED BY <2>1, <2>5
<1> HIDE DEF X
<1>5. slot'[r] = X /\ \A x \in Requests \ {r} : slot'[x] = slot[x]
  BY <1>1 DEF Core, SlotType
<1>6. SlotType'
  <2>1. slot' \in [Requests -> {Idle} \cup InFlightRequests]
    BY <1>1, <1>3 DEF Core, SlotType
  <2>2. ASSUME NEW x \in Holders', x # r
        PROVE  x \in Holders /\ slot'[x] = slot[x]
    BY <1>5, <2>2 DEF Holders, InFlight
  <2>3. QED BY <1>2, <1>3, <1>5, <2>1, <2>2 DEF Core, SlotType
<1>7. \A k \in Limiters : MapType(map[k])'
  <2>1. \A k \in Limiters : MapType(map'[k])
    BY <1>1 DEF Core
  <2>2. QED BY <2>1 DEF MapType
<1>8. \A k \in Limiters : \A p, i : Owns(k, p, i)' =>
         Owns(k, p, i) \/ (k = l /\ p = key /\ i = b)
  <2> SUFFICES ASSUME NEW k \in Limiters, NEW p, NEW i, Owns(k, p, i)'
               PROVE  Owns(k, p, i) \/ (k = l /\ p = key /\ i = b)
    OBVIOUS
  <2>1. CASE p \in DOMAIN map'[k] /\ map'[k][p].id = i
    <3>1. k # l \/ p # key => p \in DOMAIN map[k] /\ map'[k][p] = map[k][p]
      BY <1>1, <2>1
    <3>2. QED BY <2>1, <3>1 DEF Owns, b
  <2>2. CASE \E x \in Holders' : slot'[x].bucket = i /\ slot'[x].limiter = k /\ Payer(slot'[x]) = p
    <3>1. PICK x \in Holders' : slot'[x].bucket = i /\ slot'[x].limiter = k /\ Payer(slot'[x]) = p
      BY <2>2
    <3>2. CASE x = r
      BY <1>3, <1>4, <1>5, <3>1, <3>2
    <3>3. CASE x # r
      <4>1. x \in Requests /\ slot'[x] = slot[x] /\ slot'[x].pc \in Holding
        BY <1>5, <3>3 DEF Holders, InFlight
      <4>2. x \in Holders
        BY <4>1 DEF Holders, InFlight
      <4>3. QED BY <3>1, <4>1, <4>2 DEF Owns
    <3>4. QED BY <3>2, <3>3
  <2>3. QED BY <2>1, <2>2 DEF Owns, Payer
<1>9. key \in DOMAIN map[l] => Owns(l, key, b)
  BY <1>1 DEF Owns
<1>10. key \notin DOMAIN map[l] => \A k \in Limiters : \A p : ~Owns(k, p, b)
  BY <1>1 DEF Owns, Held, Holders, InFlight, Holding, Mapped
<1>11. OwnInv'
  <2>1. \A k, j \in Limiters, p, o \in Principals, i \in Ids :
          Owns(k, p, i)' /\ Owns(j, o, i)' => k = j /\ p = o
    <3> SUFFICES ASSUME NEW k \in Limiters, NEW j \in Limiters, NEW p \in Principals,
                        NEW o \in Principals, NEW i \in Ids, Owns(k, p, i)', Owns(j, o, i)'
                 PROVE  k = j /\ p = o
      OBVIOUS
    <3>1. Owns(k, p, i) \/ (k = l /\ p = key /\ i = b)
      BY <1>8
    <3>2. Owns(j, o, i) \/ (j = l /\ o = key /\ i = b)
      BY <1>8
    <3>3. QED BY <1>9, <1>10, <3>1, <3>2 DEF Core, OwnInv
  <2>2. heap' \in [Ids -> Nat]
    BY <1>1, RateLimiterAssumption DEF Core, OwnInv
  <2>3. \A k \in Limiters, p \in Principals, i \in Ids : Owns(k, p, i)' => heap'[i] <= Burst[k]
    <3> SUFFICES ASSUME NEW k \in Limiters, NEW p \in Principals, NEW i \in Ids, Owns(k, p, i)'
                 PROVE  heap'[i] <= Burst[k]
      OBVIOUS
    <3>1. Owns(k, p, i) \/ (k = l /\ p = key /\ i = b)
      BY <1>8
    <3>2. heap \in [Ids -> Nat] /\ Burst \in [Limiters -> Nat]
      BY RateLimiterAssumption DEF Core, OwnInv
    <3>3. CASE key \in DOMAIN map[l]
      BY <1>1, <1>9, <3>1, <3>3 DEF Core, OwnInv
    <3>4. CASE key \notin DOMAIN map[l]
      <4>1. CASE i = b
        BY <1>1, <1>2, <1>10, <3>1, <3>2, <3>4, <4>1
      <4>2. CASE i # b
        BY <1>1, <3>1, <3>2, <3>4, <4>2 DEF Core, OwnInv
      <4>3. QED BY <4>1, <4>2
    <3>5. QED BY <3>3, <3>4
  <2>4. QED BY <2>1, <2>2, <2>3 DEF OwnInv
<1>12. FlightInv'
  <2> SUFFICES ASSUME NEW x \in Requests, slot'[x].pc # "idle" PROVE FlightOK(slot[x])'
    BY DEF FlightInv
  <2>1. FlightOK(slot'[x])
    BY <1>4, <1>5 DEF Core, FlightInv
  <2>2. QED BY <2>1, FlightKept
<1>13. Core'
  BY <1>1, <1>6, <1>7, <1>11, <1>12 DEF Core
<1>14. Opens(r, l, key)
  BY <1>1, <1>2, <1>3, <1>4, <1>5, <1>8, <1>10 DEF Opens, b
<1>15. QED BY <1>3, <1>5, <1>13, <1>14

(* What authentication lets through has claims it can account for.         *)
LEMMA AuthenticateVets ==
  ASSUME Core, NEW r \in Requests, slot[r].pc # "idle",
         NEW s \in InFlightRequests, s.q = slot[r].q, s.grants = slot[r].grants,
         s.claims = Authenticate(s.q), s.claims # Rejected
  PROVE  Vetted(s)
<1>1. s.q.cred \in Keys /\ Usable(s.q.cred) => keys[s.q.cred].roles \subseteq s.grants
  BY Flying DEF FlightOK
<1>0. CASE deployment.provider = "none"
  BY <1>0 DEF Authenticate, Vetted
<1>2. CASE s.q.cred = "none" /\ deployment.provider # "none"
  BY <1>2 DEF Authenticate, AuthHeader, Vetted
<1>3. CASE s.q.cred # "none" /\ deployment.provider = "apikey"
  <2>1. s.q.cred # "basic" /\ s.claims = ValidateKey(s.q.cred)
    BY <1>3 DEF Authenticate, AuthHeader
  <2>2. /\ s.q.cred \in Keys /\ Usable(s.q.cred)
        /\ s.claims = [client |-> ClientOf[s.q.cred], roles |-> keys[s.q.cred].roles]
    BY <2>1 DEF ValidateKey
  <2>3. QED BY <1>1, <1>3, <2>2 DEF Vetted
<1>4. CASE s.q.cred # "none" /\ deployment.provider \notin {"apikey", "none"}
  <2>1. s.q.cred # "basic" /\ s.claims = ValidateJwt(s.q.cred)
    BY <1>4 DEF Authenticate, AuthHeader
  <2>2. /\ s.q.cred \in Jwts /\ Token[s.q.cred].valid /\ "app" \in Token[s.q.cred].audience
        /\ s.claims = [client |-> Token[s.q.cred].sub, roles |-> extractRoles(Token[s.q.cred])]
    BY <2>1 DEF ValidateJwt
  <2>3. deployment.provider = "fusionauth"
    BY <1>4, RequestGateAssumption DEF Core, BaseType
  <2>4. extractRoles(Token[s.q.cred]) \subseteq Token[s.q.cred].roles \cup Token[s.q.cred].nested
    BY DEF extractRoles
  <2>5. QED BY <2>2, <2>3, <2>4 DEF Vetted
<1>5. QED BY <1>0, <1>2, <1>3, <1>4

(* ... and they are claims.                                                *)
LEMMA AuthenticateTyped ==
  ASSUME Core, NEW q \in HttpRequests, Authenticate(q) # Rejected
  PROVE  Authenticate(q) \in Claims
<1> DEFINE R == ReadRoles \cup UNION {Token[j].roles \cup Token[j].nested : j \in Jwts}
<1>1. NoClaims \in Claims
  BY DEF Claims
<1>2. ASSUME q.cred \in Keys, Usable(q.cred)
      PROVE  [client |-> ClientOf[q.cred], roles |-> keys[q.cred].roles] \in Claims
  <2>1. keys[q.cred].roles \in SUBSET R
    BY <1>2 DEF Core, BaseType, KeyStates
  <2>2. ClientOf[q.cred] \in ClientIds
    BY <1>2 DEF ClientIds
  <2>3. QED
    <3> HIDE DEF R
    <3>1. [client |-> ClientOf[q.cred], roles |-> keys[q.cred].roles] \in [client : ClientIds, roles : SUBSET R]
      BY <2>1, <2>2
    <3>2. QED BY <3>1 DEF Claims, R
<1>3. ASSUME q.cred \in Jwts
      PROVE  [client |-> Token[q.cred].sub, roles |-> extractRoles(Token[q.cred])] \in Claims
  <2>1. extractRoles(Token[q.cred]) \in SUBSET R
    BY <1>3 DEF extractRoles
  <2>2. Token[q.cred].sub \in ClientIds
    BY <1>3 DEF ClientIds
  <2>3. QED
    <3> HIDE DEF R
    <3>1. [client |-> Token[q.cred].sub, roles |-> extractRoles(Token[q.cred])]
            \in [client : ClientIds, roles : SUBSET R]
      BY <2>1, <2>2
    <3>2. QED BY <3>1 DEF Claims, R
<1>4. QED BY <1>1, <1>2, <1>3 DEF Authenticate, AuthHeader, ValidateKey, ValidateJwt

(* The core invariant holds when the gate opens.                           *)
LEMMA CoreInit == Init => Core
<1> SUFFICES ASSUME Init PROVE Core
  OBVIOUS
<1>1. BaseType
  BY RequestGateAssumption DEF Init, BaseType, KeyStates, ReadRoles
<1>2. DOMAIN map = Limiters /\ \A l \in Limiters : MapType(map[l])
  BY FS_EmptySet, RateLimiterAssumption DEF Init, MapType, EmptyMap
<1>3. Holders = {} /\ \A r \in Requests : slot[r].pc = "idle"
  BY DEF Init, Idle, Holders, InFlight, Holding
<1>4. SlotType
  BY <1>3 DEF SlotType, Init
<1>5. \A l \in Limiters : \A p, i : ~Owns(l, p, i)
  BY <1>3 DEF Owns, Init, EmptyMap
<1>6. OwnInv
  BY <1>5 DEF OwnInv, Init
<1>7. QED BY <1>1, <1>2, <1>3, <1>4, <1>6 DEF Core, FlightInv

(* Arrival, refusal and the limiters look a bucket up.                     *)
LEMMA CoreArrive ==
  ASSUME Core, NEW r \in Requests, Arrive(r)
  PROVE  /\ Core' /\ Opens(r, "fail", slot'[r].q.real)
         /\ slot'[r].pc = "peek" /\ slot'[r].q.real \in Addresses
         /\ UNCHANGED <<fails, blocked, admitted>>
<1>1. PICK q \in Traffic[deployment] :
        /\ PassesGuards(q)
        /\ GetLimiter(r, "fail", clientIP(q),
              [pc |-> "peek", q |-> q, claims |-> NoClaims, limiter |-> "fail",
               bucket |-> 0, charged |-> {}, grants |-> Grants(q)])
  BY DEF Arrive
<1> DEFINE s == [pc |-> "peek", q |-> q, claims |-> NoClaims, limiter |-> "fail",
                 bucket |-> 0, charged |-> {}, grants |-> Grants(q)]
<1>2. q \in HttpRequests /\ q.real \in Principals /\ clientIP(q) = q.real
  BY RequestGateAssumption, ClientIPIsReal DEF Core, BaseType, HttpRequests, Principals
<1>3. Grants(q) \in SUBSET ReadRoles
  BY DEF Grants, Core, BaseType, KeyStates
<1>4. s \in InFlightRequests /\ s.pc \in Holding /\ s.limiter = "fail" /\ Payer(s) = q.real
  BY <1>2, <1>3 DEF InFlightRequests, Claims, Holding, Payer, Limiters
<1>5. FlightOK(s)
  BY <1>1 DEF FlightOK, Grants
<1>6. GetLimiter(r, "fail", q.real, s)
  BY <1>1, <1>2
<1> HIDE DEF s
<1>7. "fail" \in Limiters /\ slot[r].pc \notin Holding /\ UNCHANGED <<deployment, keys, clock>>
  BY DEF Arrive, Holding, Limiters
<1>8. BaseType'
  <2>1. lost' \in [Limiters -> [Principals -> Nat]]
    BY <1>2, <1>6, <1>7, Got
  <2>2. QED BY <2>1, RequestGateAssumption DEF Arrive, Core, BaseType
<1>9. Core' /\ Opens(r, "fail", q.real) /\ slot'[r].pc = s.pc /\ slot'[r].q = s.q
  BY <1>2, <1>4, <1>5, <1>6, <1>7, <1>8, Acquire
<1>10. s.pc = "peek" /\ s.q = q /\ q.real \in Addresses
  BY <1>2 DEF s, HttpRequests
<1>11. QED BY <1>9, <1>10 DEF Arrive

(* A refused authentication opens the address's failure bucket and is      *)
(* counted.                                                                *)
LEMMA CoreAuthRefuses ==
  ASSUME Core, NEW r \in Requests, AuthRefuses(r)
  PROVE  /\ Core' /\ Opens(r, "fail", slot[r].q.real)
         /\ slot[r].pc = "route" /\ slot'[r].pc = "penalize" /\ slot'[r].q = slot[r].q
         /\ slot[r].q.real \in Addresses
         /\ fails' = [fails EXCEPT ![slot[r].q.real] = @ + 1] /\ UNCHANGED <<blocked, admitted>>
<1> DEFINE s == [slot[r] EXCEPT !.pc = "penalize"]
<1>1. slot[r].pc = "route"
  BY DEF AuthRefuses
<1>2. /\ slot[r] \in InFlightRequests /\ FlightOK(slot[r]) /\ slot[r].q.real \in Addresses
      /\ clientIP(slot[r].q) = slot[r].q.real /\ slot[r].limiter = "fail"
  BY <1>1, Flying DEF FlightOK
<1>3. /\ s \in InFlightRequests /\ s.pc = "penalize" /\ s.q = slot[r].q
      /\ s.claims = slot[r].claims /\ s.limiter = "fail" /\ s.charged = slot[r].charged
      /\ s.grants = slot[r].grants
  BY <1>2 DEF InFlightRequests
<1>4. GetLimiter(r, "fail", slot[r].q.real, s)
  BY <1>2 DEF AuthRefuses
<1> HIDE DEF s
<1>5. FlightOK(s) /\ Payer(s) = slot[r].q.real
  BY <1>1, <1>2, <1>3 DEF FlightOK, Payer
<1>6. /\ "fail" \in Limiters /\ slot[r].q.real \in Principals /\ s.pc \in Holding
      /\ slot[r].pc \notin Holding /\ UNCHANGED <<deployment, keys, clock>>
  BY <1>1, <1>2, <1>3 DEF AuthRefuses, Limiters, Principals, Holding
<1>7. BaseType'
  <2>1. lost' \in [Limiters -> [Principals -> Nat]]
    BY <1>4, <1>6, Got
  <2>2. fails' \in [Addresses -> Nat]
    BY <1>2 DEF AuthRefuses, Core, BaseType
  <2>3. QED BY <2>1, <2>2 DEF AuthRefuses, Core, BaseType
<1>8. Core' /\ Opens(r, "fail", slot[r].q.real) /\ slot'[r].pc = s.pc /\ slot'[r].q = s.q
  BY <1>3, <1>4, <1>5, <1>6, <1>7, Acquire
<1>9. QED BY <1>1, <1>2, <1>3, <1>8 DEF AuthRefuses

(* The limiter opens the bucket of the caller that pays.                   *)
LEMMA CoreLimit ==
  ASSUME Core, NEW r \in Requests, Limit(r)
  PROVE  /\ Core' /\ Opens(r, slot[r].limiter, Payer(slot[r]))
         /\ slot[r].pc = "limit" /\ slot[r].limiter \in {"anon", "client"}
         /\ Payer(slot[r]) \in Principals
         /\ slot'[r].pc = "take" /\ UNCHANGED <<fails, blocked, admitted>>
<1> DEFINE s == [slot[r] EXCEPT !.pc = "take"]
           l == slot[r].limiter
           key == Payer(slot[r])
<1>1. slot[r].pc = "limit" /\ Pays(slot[r])
  BY DEF Limit
<1>2. /\ slot[r] \in InFlightRequests /\ FlightOK(slot[r]) /\ key \in Principals
      /\ slot[r].limiter \in {"anon", "client"} /\ LimitKey(slot[r]) = key
  BY <1>1, Flying DEF FlightOK
<1>3. /\ s \in InFlightRequests /\ s.pc = "take" /\ s.q = slot[r].q
      /\ s.claims = slot[r].claims /\ s.limiter = l /\ s.charged = slot[r].charged
      /\ s.grants = slot[r].grants
  BY <1>2 DEF InFlightRequests
<1>4. GetLimiter(r, l, key, s)
  BY <1>2 DEF Limit
<1> HIDE DEF s
<1>5. FlightOK(s) /\ Payer(s) = key
  BY <1>1, <1>2, <1>3 DEF FlightOK, Payer, Vetted, Pays, AnonDue
<1>6. /\ l \in Limiters /\ s.pc \in Holding
      /\ slot[r].pc \notin Holding /\ UNCHANGED <<deployment, keys, clock>>
  BY <1>1, <1>2, <1>3 DEF Limit, Limiters, Holding
<1> HIDE DEF l, key
<1>7. BaseType'
  <2>1. lost' \in [Limiters -> [Principals -> Nat]]
    BY <1>2, <1>4, <1>6, Got
  <2>2. QED BY <2>1 DEF Limit, Core, BaseType
<1>8. Core' /\ Opens(r, l, key) /\ slot'[r].pc = s.pc
  BY <1>2, <1>3, <1>4, <1>5, <1>6, <1>7, Acquire
<1>9. QED BY <1>1, <1>2, <1>3, <1>8 DEF Limit, l, key

(* Where a limiter sends a request on to.                                  *)
LEMMA OnwardIs ==
  ASSUME NEW s \in InFlightRequests, s.limiter \in {"anon", "client"}
  PROVE  LET X == Onward(s) IN
         /\ X \in InFlightRequests /\ X.limiter = "client"
         /\ X.pc = IF s.limiter = "anon" THEN "limit" ELSE "call"
         /\ X.q = s.q /\ X.claims = s.claims /\ X.charged = s.charged /\ X.grants = s.grants
<1>1. CASE s.limiter = "anon"
  <2> DEFINE X == [s EXCEPT !.pc = "limit", !.limiter = "client", !.bucket = 0]
  <2>1. Onward(s) = X
    BY <1>1 DEF Onward
  <2>2. X \in InFlightRequests
    BY DEF InFlightRequests, Limiters
  <2>3. /\ X.limiter = "client" /\ X.pc = "limit" /\ X.q = s.q /\ X.claims = s.claims
        /\ X.charged = s.charged /\ X.grants = s.grants
    BY DEF InFlightRequests
  <2>4. QED BY <1>1, <2>1, <2>2, <2>3
<1>2. CASE s.limiter = "client"
  <2> DEFINE X == [s EXCEPT !.pc = "call", !.bucket = 0]
  <2>1. Onward(s) = X
    BY <1>2 DEF Onward
  <2>2. X \in InFlightRequests
    BY DEF InFlightRequests
  <2>3. /\ X.limiter = "client" /\ X.pc = "call" /\ X.q = s.q /\ X.claims = s.claims
        /\ X.charged = s.charged /\ X.grants = s.grants
    BY <1>2 DEF InFlightRequests
  <2>4. QED BY <1>2, <2>1, <2>2, <2>3
<1>3. QED BY <1>1, <1>2

(* The steps after which a request holds no bucket.                        *)
LEMMA CoreSettle ==
  ASSUME Core, NEW r \in Requests,
         \/ PeekPasses(r) \/ PeekRefuses(r) \/ PublicPath(r) \/ AuthAdmits(r) \/ Penalize(r)
         \/ PassBy(r) \/ TakeAdmits(r) \/ TakeRefuses(r) \/ Run(r) \/ Deny(r) \/ Respond(r)
  PROVE  Core'
<1>1. heap \in [Ids -> Nat] /\ \A i \in Ids : heap[i] <= heap[i]
  BY DEF Core, OwnInv
<1>2. Idle \in {Idle} \cup InFlightRequests /\ Idle.pc \notin Holding /\ Idle.pc = "idle"
  BY DEF Idle, Holding
<1>3. slot[r].pc # "idle"
  BY DEF PeekPasses, PeekRefuses, PublicPath, AuthAdmits, Penalize, PassBy, TakeAdmits,
         TakeRefuses, Run, Deny, Respond
<1>4. slot[r] \in InFlightRequests /\ FlightOK(slot[r]) /\ slot[r].q \in HttpRequests
  BY <1>3, Flying
<1>0. ASSUME NEW b, heap' = [heap EXCEPT ![b] = AfterAllow(@)]
      PROVE  heap' \in [Ids -> Nat] /\ \A i \in Ids : heap'[i] <= heap[i]
  <2>1. \A i \in Ids : heap'[i] = IF i = b THEN AfterAllow(heap[i]) ELSE heap[i]
    BY <1>0, <1>1
  <2>2. \A i \in Ids : AfterAllow(heap[i]) \in Nat /\ AfterAllow(heap[i]) <= heap[i]
    BY <1>1 DEF AfterAllow
  <2>3. QED BY <1>0, <1>1, <2>1, <2>2
<1>5. CASE PeekPasses(r)
  <2> DEFINE X == [slot[r] EXCEPT !.pc = "route", !.bucket = 0]
  <2>1. /\ X \in InFlightRequests /\ X.pc = "route" /\ X.q = slot[r].q
        /\ X.limiter = slot[r].limiter /\ X.charged = slot[r].charged
        /\ X.grants = slot[r].grants
    BY <1>4 DEF InFlightRequests
  <2>2. slot' = [slot EXCEPT ![r] = X]
    BY <1>5 DEF PeekPasses, Core, SlotType
  <2> HIDE DEF X
  <2>3. FlightOK(X)
    BY <1>4, <1>5, <2>1 DEF FlightOK, PeekPasses
  <2>4. BaseType' /\ UNCHANGED <<deployment, keys, clock, map, heap>>
    BY <1>5 DEF PeekPasses, observers, Core, BaseType
  <2>5. X.pc \notin Holding
    BY <2>1 DEF Holding
  <2>6. QED BY <1>1, <2>1, <2>2, <2>3, <2>4, <2>5, Settle
<1>6. CASE PeekRefuses(r)
  <2>1. BaseType'
    BY <1>4, <1>6 DEF PeekRefuses, Core, BaseType, HttpRequests
  <2>2. slot' = [slot EXCEPT ![r] = Idle] /\ UNCHANGED <<deployment, keys, clock, map, heap>>
    BY <1>6 DEF PeekRefuses, Refuse
  <2>3. QED BY <1>1, <1>2, <2>1, <2>2, Settle
<1>7. CASE PublicPath(r) \/ TakeRefuses(r) \/ Deny(r) \/ Respond(r)
  <2>1. BaseType'
    BY <1>7 DEF PublicPath, TakeRefuses, Deny, Respond, observers, Core, BaseType
  <2>2. slot' = [slot EXCEPT ![r] = Idle] /\ UNCHANGED <<deployment, keys, clock, map, heap>>
    BY <1>7 DEF PublicPath, TakeRefuses, Deny, Respond, Refuse
  <2>3. QED BY <1>1, <1>2, <2>1, <2>2, Settle
<1>8. CASE AuthAdmits(r)
  <2> DEFINE claims == Authenticate(slot[r].q)
             X == [slot[r] EXCEPT !.claims = claims, !.limiter = "anon", !.pc = "limit"]
  <2>1. claims \in Claims /\ claims # Rejected
    BY <1>4, <1>8, AuthenticateTyped DEF AuthAdmits
  <2>2. slot' = [slot EXCEPT ![r] = X]
    BY <1>8 DEF AuthAdmits, Core, SlotType
  <2>4. /\ X \in InFlightRequests /\ X.q = slot[r].q /\ X.claims = claims
        /\ X.limiter = "anon" /\ X.charged = slot[r].charged
        /\ X.grants = slot[r].grants /\ X.pc = "limit"
    <3> HIDE DEF claims
    <3> QED BY <1>4, <2>1 DEF InFlightRequests, Limiters
  <2> HIDE DEF X
  <2>5. Vetted(X)
    BY <1>3, <2>1, <2>4, AuthenticateVets
  <2>6. FlightOK(X)
    <3> HIDE DEF claims
    <3> QED BY <1>4, <1>8, <2>4, <2>5 DEF FlightOK, AuthAdmits
  <2>7. BaseType' /\ UNCHANGED <<deployment, keys, clock, map, heap>>
    BY <1>8 DEF AuthAdmits, observers, Core, BaseType
  <2>8. X.pc \notin Holding
    BY <2>4 DEF Holding
  <2>9. QED BY <1>1, <2>2, <2>4, <2>6, <2>7, <2>8, Settle
<1>9. CASE Penalize(r)
  <2>1. BaseType'
    BY <1>9 DEF Penalize, observers, Core, BaseType
  <2>2. heap' \in [Ids -> Nat] /\ \A i \in Ids : heap'[i] <= heap[i]
    BY <1>0, <1>9 DEF Penalize
  <2>3. QED BY <1>2, <1>9, <2>1, <2>2, Settle DEF Penalize, Refuse
<1>10. CASE TakeAdmits(r)
  <2> DEFINE l == slot[r].limiter
             key == LimitKey(slot[r])
             Y == [slot[r] EXCEPT !.charged = @ \cup {<<l, key>>}]
             X == Onward(Y)
  <2>0. slot[r].pc = "take" /\ Pays(slot[r]) /\ l \in {"anon", "client"}
    BY <1>4, <1>10 DEF TakeAdmits, FlightOK
  <2>1. /\ slot[r].pc = "take" /\ l \in {"anon", "client"} /\ key = Payer(slot[r])
        /\ LimitKey(slot[r]) \in Principals
    BY <1>3, <2>0, Flying
  <2>2. slot' = [slot EXCEPT ![r] = X]
    BY <1>10 DEF TakeAdmits
  <2>a. /\ Y \in InFlightRequests /\ Y.q = slot[r].q /\ Y.claims = slot[r].claims /\ Y.limiter = l
        /\ Y.charged = slot[r].charged \cup {<<l, key>>} /\ Y.grants = slot[r].grants
    <3> HIDE DEF key
    <3>1. <<l, key>> \in Limiters \X Principals
      BY <2>1 DEF Limiters, key
    <3>2. slot[r].charged \cup {<<l, key>>} \in SUBSET (Limiters \X Principals)
      BY <1>4, <3>1 DEF InFlightRequests
    <3>3. QED BY <1>4, <3>2 DEF InFlightRequests
  <2> HIDE DEF Y
  <2>3. /\ X \in InFlightRequests /\ X.q = slot[r].q /\ X.claims = slot[r].claims
        /\ X.limiter = "client" /\ X.charged = slot[r].charged \cup {<<l, key>>}
        /\ X.pc = IF l = "anon" THEN "limit" ELSE "call"
        /\ X.grants = slot[r].grants
    BY <2>1, <2>a, OnwardIs
  <2> HIDE DEF X
  <2>4. FlightOK(X)
    <3>1. Vetted(X)
      BY <1>4, <2>1, <2>3 DEF FlightOK, Vetted
    <3>2. CASE l = "anon"
      <4>1. slot[r].claims = NoClaims /\ key = slot[r].q.real /\ slot[r].charged = {}
        BY <1>4, <2>0, <2>1, <3>2 DEF Pays, Payer, FlightOK
      <4>2. X.charged = AnonDue(X)
        BY <2>3, <3>2, <4>1 DEF AnonDue
      <4> HIDE DEF key
      <4>3. QED BY <1>4, <2>1, <2>3, <3>1, <3>2, <4>2 DEF FlightOK
    <3>3. CASE l = "client"
      <4>1. ClientID(slot[r].claims) # "" /\ key = ClientID(slot[r].claims)
            /\ slot[r].charged = AnonDue(slot[r])
        BY <1>4, <2>0, <2>1, <3>3 DEF Pays, LimitKey, FlightOK
      <4>2. X.charged = AnonDue(X) \cup ClientDue(X)
        BY <2>3, <3>3, <4>1 DEF AnonDue, ClientDue
      <4> HIDE DEF key
      <4>3. QED BY <1>4, <2>1, <2>3, <3>1, <3>3, <4>2 DEF FlightOK
    <3>4. QED BY <2>1, <3>2, <3>3
  <2>5. heap' \in [Ids -> Nat] /\ \A i \in Ids : heap'[i] <= heap[i]
    BY <1>0, <1>10 DEF TakeAdmits
  <2>6. BaseType'
    <3>1. \A k \in Limiters : \A p \in Principals : lost[k][p] + 1 \in Nat /\ admitted[k][p] + 1 \in Nat
      BY DEF Core, BaseType
    <3>2. l \in Limiters
      BY <2>1 DEF Limiters
    <3>3. lost' \in [Limiters -> [Principals -> Nat]] /\ admitted' \in [Limiters -> [Principals -> Nat]]
      BY <1>10, <2>1, <3>1, <3>2 DEF TakeAdmits, Core, BaseType
    <3>4. QED BY <1>10, <3>3 DEF TakeAdmits, Core, BaseType
  <2>7. QED BY <1>10, <2>2, <2>3, <2>4, <2>5, <2>6, Settle DEF TakeAdmits, Holding
<1>13. CASE PassBy(r)
  <2> DEFINE X == Onward(slot[r])
  <2>1. slot[r].pc = "limit" /\ ~Pays(slot[r]) /\ slot[r].limiter \in {"anon", "client"}
    BY <1>4, <1>13 DEF PassBy, FlightOK
  <2>2. slot' = [slot EXCEPT ![r] = X]
    BY <1>13 DEF PassBy
  <2>3. /\ X \in InFlightRequests /\ X.q = slot[r].q /\ X.claims = slot[r].claims
        /\ X.limiter = "client" /\ X.charged = slot[r].charged
        /\ X.pc = IF slot[r].limiter = "anon" THEN "limit" ELSE "call"
        /\ X.grants = slot[r].grants
    BY <1>4, <2>1, OnwardIs
  <2> HIDE DEF X
  <2>4. FlightOK(X)
    <3>1. Vetted(X)
      BY <1>4, <2>1, <2>3 DEF FlightOK, Vetted
    <3>2. CASE slot[r].limiter = "anon"
      <4>1. slot[r].claims # NoClaims /\ slot[r].charged = {}
        BY <1>4, <2>1, <3>2 DEF Pays, FlightOK
      <4>2. X.charged = AnonDue(X)
        BY <2>3, <4>1 DEF AnonDue
      <4>3. QED BY <1>4, <2>1, <2>3, <3>1, <3>2, <4>2 DEF FlightOK
    <3>3. CASE slot[r].limiter = "client"
      <4>1. ClientID(slot[r].claims) = "" /\ slot[r].charged = AnonDue(slot[r])
        BY <1>4, <2>1, <3>3 DEF Pays, FlightOK
      <4>2. X.charged = AnonDue(X) \cup ClientDue(X)
        BY <2>3, <4>1 DEF AnonDue, ClientDue
      <4>3. QED BY <1>4, <2>1, <2>3, <3>1, <3>3, <4>2 DEF FlightOK
    <3>4. QED BY <2>1, <3>2, <3>3
  <2>5. BaseType' /\ UNCHANGED <<deployment, keys, clock, map, heap>>
    BY <1>13 DEF PassBy, observers, Core, BaseType
  <2>6. X.pc \notin Holding
    BY <2>3 DEF Holding
  <2>7. QED BY <1>1, <2>2, <2>3, <2>4, <2>5, <2>6, Settle
<1>11. CASE Run(r)
  <2> DEFINE X == [slot[r] EXCEPT !.pc = "ran"]
  <2>1. /\ X \in InFlightRequests /\ X.pc = "ran" /\ X.q = slot[r].q /\ X.claims = slot[r].claims
        /\ X.limiter = slot[r].limiter /\ X.charged = slot[r].charged
        /\ X.grants = slot[r].grants
    BY <1>4 DEF InFlightRequests
  <2>2. slot' = [slot EXCEPT ![r] = X]
    BY <1>11 DEF Run, Core, SlotType
  <2> HIDE DEF X
  <2>3. FlightOK(X)
    BY <1>4, <1>11, <2>1 DEF FlightOK, Run, Vetted, MayRun, Enforced, AnonDue, ClientDue
  <2>4. BaseType' /\ UNCHANGED <<deployment, keys, clock, map, heap>>
    BY <1>11 DEF Run, observers, Core, BaseType
  <2>5. X.pc \notin Holding
    BY <2>1 DEF Holding
  <2>6. QED BY <1>1, <2>1, <2>2, <2>3, <2>4, <2>5, Settle
<1>12. QED BY <1>5, <1>6, <1>7, <1>8, <1>9, <1>10, <1>11, <1>13

(* A tick refills the buckets somebody owns.                               *)
LEMMA Ticked ==
  ASSUME Core, Tick
  PROVE  /\ heap' \in [Ids -> Nat]
         /\ \A l \in Limiters, p \in Principals, i \in Ids :
               Owns(l, p, i) => heap'[i] = Refilled(l, heap[i])
<1> DEFINE Sharers(i) == {x \in Requests : slot[x].pc \in {"peek", "penalize", "take"}
                                           /\ slot[x].bucket = i}
           Owners(i) == {l \in Limiters : i \in Mapped(map[l])}
                        \cup {slot[r].limiter : r \in Sharers(i)}
           Next1(i) == IF Owners(i) = {} THEN 0 ELSE Refilled(CHOOSE l \in Owners(i) : TRUE, heap[i])
<1>1. heap' = [i \in Ids |-> Next1(i)]
  BY DEF Tick
<1>2. heap \in [Ids -> Nat]
  BY DEF Core, OwnInv
<1>3. \A i \in Ids : Next1(i) \in Nat
  BY <1>2 DEF Refilled
<1>4. ASSUME NEW l \in Limiters, NEW p \in Principals, NEW i \in Ids, Owns(l, p, i)
      PROVE  Owners(i) = {l}
  <2>1. l \in Owners(i)
    BY <1>4 DEF Owns, Mapped, Holders, InFlight, Holding
  <2>2. ASSUME NEW k \in Owners(i) PROVE k = l
    <3>1. CASE k \in Limiters /\ i \in Mapped(map[k])
      <4>1. PICK o \in DOMAIN map[k] : map[k][o].id = i
        BY <3>1 DEF Mapped
      <4>2. Owns(k, o, i) /\ o \in Principals
        BY <3>1, <4>1 DEF Owns, Core, MapType
      <4>3. QED BY <1>4, <3>1, <4>2 DEF Core, OwnInv
    <3>2. CASE \E r \in Sharers(i) : k = slot[r].limiter
      <4>1. PICK r \in Sharers(i) : k = slot[r].limiter
        BY <3>2
      <4>2. r \in Holders /\ slot[r].bucket = i
        BY <4>1 DEF Holders, InFlight, Holding
      <4>3. Payer(slot[r]) \in Principals /\ k \in Limiters
        BY <4>1, <4>2, Flying DEF Holders, InFlight, Holding, Core, SlotType
      <4>4. Owns(k, Payer(slot[r]), i)
        BY <4>1, <4>2 DEF Owns
      <4>5. QED BY <1>4, <4>3, <4>4 DEF Core, OwnInv
    <3>3. QED BY <3>1, <3>2
  <2> HIDE DEF Owners
  <2>3. QED BY <2>1, <2>2
<1> HIDE DEF Owners
<1>5. ASSUME NEW l \in Limiters, NEW p \in Principals, NEW i \in Ids, Owns(l, p, i)
      PROVE  Next1(i) = Refilled(l, heap[i])
  <2>1. Owners(i) = {l}
    BY <1>4, <1>5
  <2>2. (CHOOSE k \in Owners(i) : TRUE) = l
    BY <2>1
  <2>3. QED BY <2>1, <2>2
<1> HIDE DEF Next1
<1>6. QED BY <1>1, <1>3, <1>5

(* Refilling keeps every bucket within its burst.                          *)
LEMMA CoreTick ==
  ASSUME Core, Tick PROVE Core'
<1>1. clock \in Nat /\ clock' = clock + 1 /\ UNCHANGED <<deployment, keys, map, slot>>
  BY DEF Tick, Core, BaseType
<1>2. BaseType'
  BY RequestGateAssumption DEF Tick, observers, Core, BaseType
<1>3. \A l \in Limiters : MapType(map[l])'
  <2> SUFFICES ASSUME NEW l \in Limiters PROVE MapType(map[l])'
    OBVIOUS
  <2>1. 0..clock \subseteq 0..clock'
    BY <1>1
  <2>2. map[l] \in [DOMAIN map[l] -> [id : Ids, last : 0..clock']]
    BY <2>1 DEF Core, MapType
  <2>3. QED BY <1>1, <2>2 DEF Core, MapType
<1>4. SlotType'
  BY <1>1 DEF Core, SlotType, Holders, InFlight
<1>5. \A l \in Limiters : \A p, i : Owns(l, p, i)' <=> Owns(l, p, i)
  BY <1>1 DEF Owns, Holders, InFlight, Payer
<1>6. OwnInv'
  <2>1. /\ heap' \in [Ids -> Nat]
        /\ \A l \in Limiters, p \in Principals, i \in Ids :
               Owns(l, p, i) => heap'[i] = Refilled(l, heap[i])
    BY Ticked
  <2>2. \A l \in Limiters, p \in Principals, i \in Ids : Owns(l, p, i)' => heap'[i] <= Burst[l]
    <3> SUFFICES ASSUME NEW l \in Limiters, NEW p \in Principals, NEW i \in Ids, Owns(l, p, i)'
                 PROVE  heap'[i] <= Burst[l]
      OBVIOUS
    <3>1. Owns(l, p, i) /\ heap'[i] = Refilled(l, heap[i]) /\ heap[i] <= Burst[l]
      BY <1>5, <2>1 DEF Core, OwnInv
    <3>2. heap[i] \in Nat /\ Burst[l] \in Nat
      BY RateLimiterAssumption DEF Core, OwnInv
    <3>3. QED BY <3>1, <3>2 DEF Refilled
  <2>3. \A l, k \in Limiters, p, o \in Principals, i \in Ids :
          Owns(l, p, i)' /\ Owns(k, o, i)' => l = k /\ p = o
    BY <1>5 DEF Core, OwnInv
  <2>4. QED BY <2>1, <2>2, <2>3 DEF OwnInv
<1>7. FlightInv'
  <2> SUFFICES ASSUME NEW x \in Requests, slot'[x].pc # "idle" PROVE FlightOK(slot[x])'
    BY DEF FlightInv
  <2>1. FlightOK(slot[x]) /\ slot' = slot
    BY <1>1 DEF Core, FlightInv
  <2>2. \A k \in Keys : Usable(k)' => Usable(k)
    BY <1>1, RequestGateAssumption DEF Usable
  <2>3. QED BY <1>1, <2>1, <2>2
        DEF FlightOK, PassesGuards, originGuard, requireForwardedHTTPS, Vetted, MayRun, Enforced,
            RequiresAuth, Registered
<1>8. QED BY <1>1, <1>2, <1>3, <1>4, <1>6, <1>7 DEF Core

(* What the janitor leaves of a map.                                       *)
LEMMA Swept ==
  ASSUME Core, NEW l \in Limiters, Sweep(l)
  PROVE  /\ DOMAIN map' = Limiters /\ \A k \in Limiters \ {l} : map'[k] = map[k]
         /\ map'[l] = Restrict(map[l], DOMAIN map[l] \ sweep(map[l], clock))
         /\ DOMAIN map'[l] = {p \in DOMAIN map[l] : ~(map[l][p].last + IdleTTL < clock)}
         /\ \A p \in DOMAIN map'[l] : map'[l][p] = map[l][p]
BY DEF Core, Sweep, sweep, Restrict

(* A sweep drops map entries and changes none.                             *)
LEMMA CoreSweep ==
  ASSUME Core, NEW l \in Limiters, Sweep(l) PROVE Core'
<1>1. /\ DOMAIN map' = Limiters /\ \A k \in Limiters \ {l} : map'[k] = map[k]
      /\ DOMAIN map'[l] \subseteq DOMAIN map[l]
      /\ \A p \in DOMAIN map'[l] : map'[l][p] = map[l][p]
      /\ map'[l] = [p \in DOMAIN map'[l] |-> map'[l][p]]
  BY Swept DEF Restrict
<1>2. UNCHANGED <<deployment, keys, clock, heap, slot>>
  BY DEF Sweep
<1>3. BaseType'
  <2>1. lost' \in [Limiters -> [Principals -> Nat]]
    <3>1. [p \in Principals |-> IF p \in sweep(map[l], clock) /\ map[l][p].id \in Held
                                THEN lost[l][p] + 1 ELSE lost[l][p]] \in [Principals -> Nat]
      BY DEF Core, BaseType
    <3>2. QED BY <3>1 DEF Core, BaseType, Sweep
  <2>2. QED BY <2>1 DEF Sweep, Core, BaseType
<1>4. \A k \in Limiters : MapType(map[k])'
  <2>1. MapType(map'[l])
    <3>1. MapType(map[l])
      BY DEF Core
    <3>2. DOMAIN map'[l] \in SUBSET DOMAIN map[l]
      BY <1>1
    <3>3. IsFiniteSet(DOMAIN map'[l]) /\ Cardinality(DOMAIN map'[l]) <= Cardinality(DOMAIN map[l])
      BY <3>1, <3>2, FS_Subset DEF MapType
    <3>4. Cardinality(DOMAIN map'[l]) \in Nat /\ Cardinality(DOMAIN map[l]) \in Nat
      BY <3>1, <3>3, FS_CardinalityType DEF MapType
    <3>5. Cardinality(DOMAIN map'[l]) <= MaxKeys
      BY <3>1, <3>3, <3>4, RateLimiterAssumption DEF MapType
    <3>6. \A p \in DOMAIN map'[l] : map'[l][p] \in [id : Ids, last : 0..clock]
      BY <1>1, <3>1 DEF MapType
    <3>7. map'[l] \in [DOMAIN map'[l] -> [id : Ids, last : 0..clock]]
      BY <1>1, <3>6
    <3>8. QED BY <3>1, <3>2, <3>3, <3>5, <3>7 DEF MapType
  <2>2. \A k \in Limiters : MapType(map'[k])
    BY <1>1, <2>1 DEF Core
  <2>3. QED BY <1>2, <2>2 DEF MapType
<1>5. \A k \in Limiters : \A p, i : Owns(k, p, i)' => Owns(k, p, i)
  <2>1. \A k \in Limiters : /\ DOMAIN map'[k] \subseteq DOMAIN map[k]
                            /\ \A p \in DOMAIN map'[k] : map'[k][p] = map[k][p]
    BY <1>1
  <2>2. QED BY <1>1, <1>2, <2>1, OwnersKept
<1>6. OwnInv'
  BY <1>2, <1>5 DEF Core, OwnInv
<1>7. SlotType'
  BY <1>2 DEF Core, SlotType, Holders, InFlight
<1>8. FlightInv'
  <2> SUFFICES ASSUME NEW x \in Requests, slot'[x].pc # "idle" PROVE FlightOK(slot[x])'
    BY DEF FlightInv
  <2>1. FlightOK(slot'[x])
    BY <1>2 DEF Core, FlightInv
  <2>2. QED BY <1>2, <2>1, FlightKept
<1>9. QED BY <1>1, <1>3, <1>4, <1>6, <1>7, <1>8 DEF Core

(* An edit of a key only widens what running requests were granted.        *)
LEMMA CoreEditKey ==
  ASSUME Core, NEW k \in Keys, EditKey(k) PROVE Core'
<1> DEFINE X(r) == IF slot[r].pc # "idle" /\ slot[r].q.cred = k /\ keys'[k].enabled
                      /\ (Expires[k] = 0 \/ clock < Expires[k])
                   THEN [slot[r] EXCEPT !.grants = @ \cup keys'[k].roles] ELSE slot[r]
<1>1. slot' = [r \in Requests |-> X(r)] /\ UNCHANGED <<deployment, clock, map, heap>>
  BY DEF EditKey
<1>2. PICK e \in KeyStates : keys' = [keys EXCEPT ![k] = e]
  BY RequestGateAssumption DEF EditKey, Core, BaseType
<1>3. keys' \in [Keys -> KeyStates] /\ \A j \in Keys \ {k} : keys'[j] = keys[j]
  BY <1>2 DEF Core, BaseType
<1>4. BaseType'
  BY <1>3, RequestGateAssumption DEF EditKey, observers, Core, BaseType
<1>5. ASSUME NEW r \in Requests, slot[r].pc # "idle"
      PROVE  /\ slot'[r] \in InFlightRequests
             /\ slot'[r].pc = slot[r].pc /\ slot'[r].q = slot[r].q
             /\ slot'[r].claims = slot[r].claims /\ slot'[r].limiter = slot[r].limiter
             /\ slot'[r].bucket = slot[r].bucket /\ slot'[r].charged = slot[r].charged
             /\ slot[r].grants \subseteq slot'[r].grants
             /\ slot[r].q.cred = k /\ Usable(k)' => keys'[k].roles \subseteq slot'[r].grants
  <2>1. slot[r] \in InFlightRequests /\ keys'[k].roles \in SUBSET ReadRoles
    BY <1>3, <1>5, Flying DEF KeyStates
  <2>2. slot'[r] = X(r)
    BY <1>1
  <2>3. CASE X(r) = slot[r]
    BY <1>1, <1>5, <2>1, <2>2, <2>3 DEF InFlightRequests, Usable
  <2>4. CASE X(r) = [slot[r] EXCEPT !.grants = @ \cup keys'[k].roles]
    BY <2>1, <2>2, <2>4 DEF InFlightRequests
  <2>5. QED BY <2>3, <2>4
<1>6. \A r \in Requests : slot[r].pc = "idle" => slot'[r] = slot[r]
  BY <1>1
<1>7. SlotType'
  <2>1. \A r \in Requests : slot'[r] \in {Idle} \cup InFlightRequests
    BY <1>5, <1>6 DEF Core, SlotType
  <2>2. slot' \in [Requests -> {Idle} \cup InFlightRequests]
    BY <1>1, <2>1
  <2>3. \A r \in Holders' : r \in Holders /\ slot'[r].bucket = slot[r].bucket
                            /\ slot'[r].limiter = slot[r].limiter
    BY <1>5, <1>6 DEF Holders, InFlight, Holding
  <2>4. QED BY <2>2, <2>3 DEF Core, SlotType
<1>8. OwnInv'
  <2>1. \A l \in Limiters : \A p, i : Owns(l, p, i)' => Owns(l, p, i)
    <3>1. \A x \in Requests : slot'[x].pc \in Holding =>
            /\ slot[x].pc = slot'[x].pc /\ slot[x].bucket = slot'[x].bucket
            /\ slot[x].limiter = slot'[x].limiter
            /\ slot[x].claims = slot'[x].claims /\ slot[x].q = slot'[x].q
      BY <1>5, <1>6 DEF Holding
    <3>2. QED BY <1>1, <3>1, OwnersKept DEF Core
  <2>2. QED BY <1>1, <2>1 DEF Core, OwnInv
<1>9. FlightInv'
  <2> SUFFICES ASSUME NEW x \in Requests, slot'[x].pc # "idle" PROVE FlightOK(slot[x])'
    BY DEF FlightInv
  <2>1. slot[x].pc # "idle"
    BY <1>6
  <2>2. FlightOK(slot[x])
    BY <2>1 DEF Core, FlightInv
  <2>3. \A j \in Keys \ {k} : Usable(j)' => Usable(j) /\ keys'[j] = keys[j]
    BY <1>1, <1>3 DEF Usable
  <2>4. Vetted(slot[x]) => Vetted(slot[x])'
    BY <1>1, <1>5, <2>1 DEF Vetted
  <2>5. MayRun(slot[x]) => MayRun(slot[x])'
    BY <1>1, <1>5, <2>1 DEF MayRun, Enforced, RequiresAuth, Registered
  <2>6. PassesGuards(slot[x].q) => PassesGuards(slot[x].q)'
    BY <1>1, <1>5, <2>1 DEF PassesGuards, originGuard, requireForwardedHTTPS
  <2>7. slot[x].q.cred \in Keys /\ Usable(slot[x].q.cred)' => keys'[slot[x].q.cred].roles \subseteq slot'[x].grants
    BY <1>5, <2>1, <2>2, <2>3 DEF FlightOK
  <2>8. /\ Pays(slot[x]) => Pays(slot[x])'
        /\ AnonDue(slot[x])' = AnonDue(slot[x]) /\ ClientDue(slot[x])' = ClientDue(slot[x])
    <3>1. /\ slot'[x].claims = slot[x].claims /\ slot'[x].limiter = slot[x].limiter
          /\ slot'[x].q = slot[x].q
      BY <1>5, <2>1
    <3>2. (Pays(slot[x])' <=> Pays(slot'[x])) /\ (AnonDue(slot[x]))' = AnonDue(slot'[x])
          /\ (ClientDue(slot[x]))' = ClientDue(slot'[x])
      BY DEF Pays, AnonDue, ClientDue
    <3>3. Pays(slot[x]) => Pays(slot'[x])
      BY <3>1 DEF Pays
    <3>4. AnonDue(slot'[x]) = AnonDue(slot[x]) /\ ClientDue(slot'[x]) = ClientDue(slot[x])
      BY <3>1 DEF AnonDue, ClientDue
    <3>5. QED BY <3>2, <3>3, <3>4
  <2>9. /\ slot'[x].pc = slot[x].pc /\ slot'[x].q = slot[x].q /\ deployment' = deployment
        /\ slot'[x].limiter = slot[x].limiter /\ slot'[x].charged = slot[x].charged
    BY <1>1, <1>5, <2>1
  <2>10. QED BY <2>2, <2>4, <2>5, <2>6, <2>7, <2>8, <2>9 DEF FlightOK
<1>10. \A l \in Limiters : MapType(map[l])'
  BY <1>1 DEF Core, MapType
<1>11. QED BY <1>1, <1>4, <1>7, <1>8, <1>9, <1>10 DEF Core

(* Every step preserves the core invariant.                                *)
LEMMA CoreStep == Core /\ [Next]_vars => Core'
<1> SUFFICES ASSUME Core, [Next]_vars PROVE Core'
  OBVIOUS
<1>1. ASSUME NEW r \in Requests,
             \/ Arrive(r) \/ TurnAway(r) \/ PeekPasses(r) \/ PeekRefuses(r) \/ PublicPath(r)
             \/ AuthAdmits(r) \/ AuthRefuses(r) \/ Penalize(r) \/ PassBy(r) \/ Limit(r)
             \/ TakeAdmits(r) \/ TakeRefuses(r) \/ Run(r) \/ Deny(r) \/ Respond(r)
      PROVE  Core'
  <2>1. CASE TurnAway(r)
    <3>1. BaseType'
      BY <2>1, RequestGateAssumption DEF TurnAway, observers, Core, BaseType
    <3>2. slot[r] = Idle /\ slot' = [slot EXCEPT ![r] = Idle]
      BY <2>1 DEF TurnAway, Core, SlotType, InFlightRequests, Idle
    <3>3. UNCHANGED <<deployment, keys, clock, map, heap>> /\ heap \in [Ids -> Nat]
          /\ \A i \in Ids : heap[i] <= heap[i]
      BY <2>1 DEF TurnAway, Core, OwnInv
    <3>4. Idle \in {Idle} \cup InFlightRequests /\ Idle.pc \notin Holding /\ Idle.pc = "idle"
      BY DEF Idle, Holding
    <3>5. QED BY <3>1, <3>2, <3>3, <3>4, Settle
  <2>2. QED BY <1>1, <2>1, CoreArrive, CoreAuthRefuses, CoreLimit, CoreSettle
<1>2. ASSUME vars' = vars PROVE Core'
  BY <1>2 DEF vars, Core, BaseType, MapType, SlotType, OwnInv, FlightInv, Holders, InFlight,
     Owns, Payer, FlightOK, PassesGuards, originGuard, requireForwardedHTTPS, Vetted, MayRun,
     Enforced, RequiresAuth, Registered, Usable
<1>3. QED BY <1>1, <1>2, CoreSweep, CoreEditKey, CoreTick DEF Next

-----------------------------------------------------------------------------
(* Who runs what, and who pays. *)

(* It always holds.                                                        *)
LEMMA AlwaysCore == Spec => []Core
<1>1. Init => Core
  BY CoreInit
<1>2. Core /\ [Next]_vars => Core'
  BY CoreStep
<1>3. QED BY <1>1, <1>2, PTL DEF Spec

(* The state is well typed, no map outgrows its cap, and no bucket holds   *)
(* more than its burst, whoever else draws from it or drops it.            *)
THEOREM TypeCorrect == Spec => []TypeOK
BY AlwaysCore, CoreTyped, PTL

(* What runs was vetted on its way.                                        *)
LEMMA CoreAuthorised == Core => OnlyAuthorised
<1> SUFFICES ASSUME Core, NEW r \in Requests, slot[r].pc = "ran"
             PROVE  LET q == slot[r].q IN
                    /\ q.origin # "foreign" /\ q.path = "mcp"
                    /\ q.tool \in {"prepare", "grant", "send"} => deployment.writeTools
                    /\ IF q.cred = "none" \/ deployment.provider = "none"
                       THEN /\ deployment.keylessReads \/ deployment.provider = "none"
                            /\ q.tool = "send" /\ deployment.keylessReads => deployment.keylessWrites
                       ELSE q.tool # "list" =>
                            \/ /\ deployment.provider = "apikey"
                               /\ slot[r].grants \cap RolesFor(q.tool) # {}
                            \/ /\ deployment.provider = "fusionauth"
                               /\ Token[q.cred].valid /\ "app" \in Token[q.cred].audience
                               /\ (Token[q.cred].roles \cup Token[q.cred].nested)
                                    \cap RolesFor(q.tool) # {}
  BY DEF OnlyAuthorised, InFlight
<1> DEFINE q == slot[r].q
<1>1. FlightOK(slot[r]) /\ q \in HttpRequests /\ slot[r].claims \in Claims
  BY Flying
<1>2. q.origin # "foreign" /\ q.path = "mcp"
  BY <1>1 DEF FlightOK, PassesGuards, originGuard, Allowed
<1>3. Enforced(slot[r]) /\ Registered(q.tool) /\ requireRole(slot[r].claims, q.tool)
  BY <1>1 DEF FlightOK, MayRun
<1>4. q.tool \in {"prepare", "grant", "send"} => deployment.writeTools
  BY <1>3 DEF Registered
<1>5. Vetted(slot[r])
  BY <1>1 DEF FlightOK
<1>6. "none" \notin Keys \cup Jwts /\ "anonymous" \notin ClientIds
  BY RequestGateAssumption
<1>7. CASE q.cred = "none" \/ deployment.provider = "none"
  <2>1. /\ deployment.keylessReads \/ deployment.provider = "none"
        /\ slot[r].claims = NoClaims
    BY <1>5, <1>6, <1>7 DEF Vetted
  <2>2. q.tool = "send" /\ deployment.keylessReads => deployment.keylessWrites
    BY <1>3, <2>1 DEF Enforced, RequiresAuth
  <2>3. QED BY <1>2, <1>4, <1>7, <2>1, <2>2
<1>8. CASE q.cred \in Keys /\ deployment.provider = "apikey"
           /\ slot[r].claims.client = ClientOf[q.cred] /\ slot[r].claims.roles \subseteq slot[r].grants
  <2>1. slot[r].claims # NoClaims
    BY <1>6, <1>8 DEF ClientIds, NoClaims
  <2>2. q.tool # "list" => slot[r].grants \cap RolesFor(q.tool) # {}
    BY <1>3, <1>8, <2>1 DEF requireRole
  <2>3. QED BY <1>2, <1>4, <1>6, <1>8, <2>2
<1>9. CASE /\ q.cred \in Jwts /\ deployment.provider = "fusionauth"
           /\ Token[q.cred].valid /\ "app" \in Token[q.cred].audience
           /\ slot[r].claims.client = Token[q.cred].sub
           /\ slot[r].claims.roles \subseteq Token[q.cred].roles \cup Token[q.cred].nested
  <2>1. slot[r].claims # NoClaims
    BY <1>6, <1>9 DEF ClientIds, NoClaims
  <2>2. q.tool # "list" =>
          (Token[q.cred].roles \cup Token[q.cred].nested) \cap RolesFor(q.tool) # {}
    BY <1>3, <1>9, <2>1 DEF requireRole
  <2>3. QED BY <1>2, <1>4, <1>6, <1>9, <2>2
<1>10. QED BY <1>5, <1>7, <1>8, <1>9 DEF Vetted

(* Nobody runs what the configuration and the key store did not allow      *)
(* them, however requests, edits of keys and time interleave: between      *)
(* authentication and the tool the claims are never looked up again, and   *)
(* yet they are no more than the key granted while the request was in      *)
(* flight.                                                                 *)
THEOREM AuthorisedAlways == Spec => []OnlyAuthorised
BY AlwaysCore, CoreAuthorised, PTL

(* What runs passed both limiters, and paid the one that is for it.        *)
LEMMA CoreCharged == Core => EveryRunCharged
<1> SUFFICES ASSUME Core, NEW r \in Requests, slot[r].pc = "ran"
             PROVE  slot[r].charged =
                      CASE slot[r].claims = NoClaims -> {<<"anon", slot[r].q.real>>}
                        [] slot[r].claims.client = "" -> {}
                        [] OTHER -> {<<"client", slot[r].claims.client>>}
  BY DEF EveryRunCharged, InFlight
<1>1. slot[r].charged = AnonDue(slot[r]) \cup ClientDue(slot[r])
  BY Flying DEF FlightOK
<1>2. CASE slot[r].claims = NoClaims
  <2>1. slot[r].charged = {<<"anon", slot[r].q.real>>}
    BY <1>1, <1>2 DEF AnonDue, ClientDue, ClientID
  <2>2. slot[r].claims.client # ""
    BY <1>2 DEF NoClaims
  <2>3. QED BY <1>2, <2>1, <2>2
<1>3. CASE slot[r].claims # NoClaims /\ slot[r].claims.client = ""
  BY <1>1, <1>3 DEF AnonDue, ClientDue, ClientID
<1>4. CASE slot[r].claims # NoClaims /\ slot[r].claims.client # ""
  BY <1>1, <1>4 DEF AnonDue, ClientDue, ClientID
<1>5. QED BY <1>2, <1>3, <1>4

(* Every call that runs was paid for once and by the right caller, though  *)
(* both limiters look at each request: from the bucket of the address it   *)
(* came from or of its client, and from none if its client id is empty.    *)
THEOREM ChargedAlways == Spec => []EveryRunCharged
BY AlwaysCore, CoreCharged, PTL

-----------------------------------------------------------------------------
(* The steps, as the limiters see them. *)

(* Requests from address a at one of the given steps.                      *)
At(pcs, a) == {r \in Requests : slot[r].pc \in pcs /\ slot[r].q.real = a}

(* No more requests of an address are anywhere than there are requests.    *)
LEMMA AtFinite ==
  ASSUME NEW pcs, NEW a
  PROVE  /\ IsFiniteSet(At(pcs, a)) /\ Cardinality(At(pcs, a)) \in Nat
         /\ Cardinality(Requests) \in Nat /\ Cardinality(At(pcs, a)) <= Cardinality(Requests)
<1>1. At(pcs, a) \in SUBSET Requests
  BY DEF At
<1>2. QED BY <1>1, FS_Subset, FS_CardinalityType, RequestGateAssumption

(* Steps that leave the buckets alone and acquire none.                    *)
Quiet(r) ==
    /\ UNCHANGED <<map, heap, clock, fails, admitted, lost>>
    /\ \A x \in Requests \ {r} : slot'[x] = slot[x]
    /\ \A l \in Limiters : \A p, i : Owns(l, p, i)' => Owns(l, p, i)
    /\ \/ /\ slot[r].pc = "peek" /\ slot'[r].pc = "route" /\ slot'[r].q = slot[r].q
          /\ heap[slot[r].bucket] >= 1 /\ blocked' = blocked
       \/ /\ slot[r].pc = "peek" /\ slot'[r].pc = "idle"
          /\ heap[slot[r].bucket] < 1 /\ blocked' = blocked \cup {slot[r].q.real}
       \/ /\ slot[r].pc \in {"idle", "route", "limit", "take", "call", "ran"}
          /\ slot'[r].pc \in {"idle", "limit", "call", "ran"} /\ blocked' = blocked

(* Which steps of a request leave buckets and counters alone.              *)
LEMMA QuietSteps ==
  ASSUME Core, NEW r \in Requests,
         \/ TurnAway(r) \/ PeekPasses(r) \/ PeekRefuses(r) \/ PublicPath(r) \/ AuthAdmits(r)
         \/ PassBy(r) \/ TakeRefuses(r) \/ Run(r) \/ Deny(r) \/ Respond(r)
  PROVE  Quiet(r)
<1>0. slot \in [Requests -> {Idle} \cup InFlightRequests]
  BY DEF Core, SlotType
<1>1. UNCHANGED <<map, heap, clock, fails, admitted, lost>>
  BY DEF TurnAway, PeekPasses, PeekRefuses, PublicPath, AuthAdmits, PassBy, TakeRefuses, Run, Deny,
         Respond, observers
<1>2. \A x \in Requests \ {r} : slot'[x] = slot[x]
  BY <1>0 DEF TurnAway, PeekPasses, PeekRefuses, PublicPath, AuthAdmits, PassBy, TakeRefuses, Run, Deny,
         Respond, Refuse
<1>3. CASE PeekPasses(r)
  <2>1. slot[r] \in InFlightRequests /\ slot[r].pc = "peek"
    BY <1>3, Flying DEF PeekPasses
  <2>2. slot'[r] = [slot[r] EXCEPT !.pc = "route", !.bucket = 0]
    BY <1>0, <1>3 DEF PeekPasses
  <2>3. slot'[r].pc = "route" /\ slot'[r].q = slot[r].q
    BY <2>1, <2>2 DEF InFlightRequests
  <2>4. heap[slot[r].bucket] >= 1 /\ blocked' = blocked
    BY <1>3 DEF PeekPasses, observers
  <2>5. \A l \in Limiters : \A p, i : Owns(l, p, i)' => Owns(l, p, i)
    BY <1>1, <1>2, <2>3, OwnersKept DEF Core, Holding
  <2>6. QED BY <1>1, <1>2, <2>1, <2>3, <2>4, <2>5 DEF Quiet
<1>4. CASE PeekRefuses(r)
  <2>1. slot[r].pc = "peek" /\ slot'[r].pc = "idle"
    BY <1>0, <1>4 DEF PeekRefuses, Refuse, Idle
  <2>2. heap[slot[r].bucket] < 1 /\ blocked' = blocked \cup {slot[r].q.real}
    BY <1>4 DEF PeekRefuses
  <2>3. \A l \in Limiters : \A p, i : Owns(l, p, i)' => Owns(l, p, i)
    BY <1>1, <1>2, <2>1, OwnersKept DEF Core, Holding
  <2>4. QED BY <1>1, <1>2, <2>1, <2>2, <2>3 DEF Quiet
<1>5. CASE \/ PublicPath(r) \/ AuthAdmits(r) \/ PassBy(r) \/ TakeRefuses(r) \/ Run(r) \/ Deny(r)
           \/ Respond(r) \/ TurnAway(r)
  <2>1. slot[r].pc \in {"idle", "route", "limit", "take", "call", "ran"} /\ blocked' = blocked
    BY <1>5 DEF PublicPath, AuthAdmits, PassBy, TakeRefuses, Run, Deny, Respond, TurnAway, observers
  <2>3. slot'[r].pc \in {"idle", "limit", "call", "ran"}
    <3>1. CASE PublicPath(r) \/ TakeRefuses(r) \/ Deny(r) \/ Respond(r)
      BY <1>0, <3>1 DEF PublicPath, TakeRefuses, Deny, Respond, Refuse, Idle
    <3>2. CASE TurnAway(r)
      BY <3>2 DEF TurnAway
    <3>3. CASE Run(r)
      <4>1. slot[r] \in InFlightRequests
        BY <3>3, Flying DEF Run
      <4>2. slot'[r] = [slot[r] EXCEPT !.pc = "ran"]
        BY <1>0, <3>3 DEF Run
      <4>3. QED BY <4>1, <4>2 DEF InFlightRequests
    <3>4. CASE AuthAdmits(r)
      <4> DEFINE claims == Authenticate(slot[r].q)
      <4>1. slot[r] \in InFlightRequests
        BY <3>4, Flying DEF AuthAdmits
      <4>2. slot'[r] = [slot[r] EXCEPT !.claims = claims, !.limiter = "anon", !.pc = "limit"]
        BY <1>0, <3>4 DEF AuthAdmits
      <4> HIDE DEF claims
      <4>3. QED BY <4>1, <4>2 DEF InFlightRequests
    <3>5. CASE PassBy(r)
      <4>1. slot[r] \in InFlightRequests /\ slot[r].limiter \in {"anon", "client"}
        BY <3>5, Flying DEF PassBy, FlightOK
      <4>2. slot'[r] = Onward(slot[r])
        BY <1>0, <3>5 DEF PassBy
      <4>3. QED BY <4>1, <4>2, OnwardIs
    <3>6. QED BY <1>5, <3>1, <3>2, <3>3, <3>4, <3>5
  <2>4. \A l \in Limiters : \A p, i : Owns(l, p, i)' => Owns(l, p, i)
    BY <1>1, <1>2, <2>3, OwnersKept DEF Core, Holding
  <2>5. QED BY <1>1, <1>2, <2>1, <2>3, <2>4 DEF Quiet
<1>6. QED BY <1>3, <1>4, <1>5

(* Steps that change nothing the limiters see.                             *)
Still ==
    /\ UNCHANGED <<map, heap, clock, fails, blocked, admitted, lost>>
    /\ \A x \in Requests : /\ slot'[x].pc = slot[x].pc
                           /\ slot[x].pc # "idle" => slot'[x].q = slot[x].q
                           /\ slot[x].pc \in Holding => slot'[x].bucket = slot[x].bucket
    /\ \A l \in Limiters : \A p, i : Owns(l, p, i)' => Owns(l, p, i)

(* Editing a key moves no request, bucket or counter.                      *)
LEMMA StillSteps ==
  ASSUME Core, vars' = vars \/ \E k \in Keys : EditKey(k)
  PROVE  Still
<1>1. CASE vars' = vars
  BY <1>1 DEF vars, Still, Owns, Holders, InFlight, Payer
<1>2. ASSUME NEW k \in Keys, EditKey(k) PROVE Still
  <2>1. UNCHANGED <<map, heap, clock, fails, blocked, admitted, lost>>
    BY <1>2 DEF EditKey, observers
  <2>2. ASSUME NEW x \in Requests
        PROVE  /\ slot'[x].pc = slot[x].pc
               /\ slot[x].pc # "idle" =>
                     /\ slot'[x].q = slot[x].q /\ slot'[x].bucket = slot[x].bucket
                     /\ slot'[x].limiter = slot[x].limiter /\ slot'[x].claims = slot[x].claims
    <3>1. slot[x].pc # "idle" => slot[x] \in InFlightRequests
      BY Flying
    <3>2. slot'[x] = slot[x] \/ (slot[x].pc # "idle" /\ slot'[x] = [slot[x] EXCEPT !.grants = @ \cup keys'[k].roles])
      BY <1>2 DEF EditKey
    <3>3. QED BY <3>1, <3>2 DEF InFlightRequests
  <2>3. \A l \in Limiters : \A p, i : Owns(l, p, i)' => Owns(l, p, i)
    BY <2>1, <2>2, OwnersKept DEF Core, Holding
  <2>4. QED BY <2>1, <2>2, <2>3 DEF Still, Holding
<1>3. QED BY <1>1, <1>2

(* Request r takes a token, if there is one, and lets go of the bucket.    *)
Draws(r) ==
    LET b == slot[r].bucket IN
    /\ b \in Ids /\ UNCHANGED <<map, clock>>
    /\ heap' = [heap EXCEPT ![b] = AfterAllow(@)]
    /\ slot[r].pc \in Holding /\ slot[r].limiter \in Limiters /\ Payer(slot[r]) \in Principals
    /\ Owns(slot[r].limiter, Payer(slot[r]), b)
    /\ \A l \in Limiters, p \in Principals :
          Owns(l, p, b) => l = slot[r].limiter /\ p = Payer(slot[r])
    /\ slot'[r].pc \in {"idle", "limit", "call"}
    /\ \A x \in Requests \ {r} : slot'[x] = slot[x]
    /\ \A l \in Limiters : \A p, i : Owns(l, p, i)' => Owns(l, p, i)

(* Which steps draw a token.                                               *)
LEMMA DrawSteps ==
  ASSUME Core, NEW r \in Requests, Penalize(r) \/ TakeAdmits(r)
  PROVE  Draws(r)
<1>0. slot \in [Requests -> {Idle} \cup InFlightRequests]
  BY DEF Core, SlotType
<1>1. slot[r].pc \in {"penalize", "take"} /\ slot[r].pc \in Holding /\ slot[r].pc # "idle"
  BY DEF Penalize, TakeAdmits, Holding
<1>2. r \in Holders
  BY <1>1 DEF Holders, InFlight
<1>3. slot[r].bucket \in Ids /\ slot[r].limiter \in Limiters
  BY <1>2 DEF Core, SlotType
<1>4. slot[r] \in InFlightRequests /\ Payer(slot[r]) \in Principals
  BY <1>1, Flying
<1>5. Owns(slot[r].limiter, Payer(slot[r]), slot[r].bucket)
  BY <1>2 DEF Owns
<1>6. \A x \in Requests \ {r} : slot'[x] = slot[x]
  BY <1>0 DEF Penalize, TakeAdmits, Refuse
<1>7. slot'[r].pc \in {"idle", "limit", "call"}
  <2>1. CASE Penalize(r)
    BY <1>0, <2>1 DEF Penalize, Refuse, Idle
  <2>2. CASE TakeAdmits(r)
    <3> DEFINE Y == [slot[r] EXCEPT !.charged = @ \cup {<<slot[r].limiter, LimitKey(slot[r])>>}]
    <3>1. slot'[r] = Onward(Y)
      BY <1>0, <2>2 DEF TakeAdmits
    <3>2. DOMAIN Y = DOMAIN slot[r] /\ {"pc", "limiter", "bucket"} \subseteq DOMAIN Y
      BY <1>4 DEF InFlightRequests
    <3> HIDE DEF Y
    <3>3. QED BY <3>1, <3>2 DEF Onward
  <2>3. QED BY <2>1, <2>2
<1>8. UNCHANGED <<map, clock>> /\ heap' = [heap EXCEPT ![slot[r].bucket] = AfterAllow(@)]
  BY DEF Penalize, TakeAdmits
<1>9. \A l \in Limiters : \A p, i : Owns(l, p, i)' => Owns(l, p, i)
  BY <1>6, <1>7, <1>8, OwnersKept DEF Core, Holding
<1>10. \A l \in Limiters, p \in Principals :
          Owns(l, p, slot[r].bucket) => l = slot[r].limiter /\ p = Payer(slot[r])
  BY <1>3, <1>4, <1>5 DEF Core, OwnInv
<1>11. QED BY <1>1, <1>3, <1>4, <1>5, <1>6, <1>7, <1>8, <1>9, <1>10 DEF Draws

(* The janitor of limiter l: nobody gets hold of a bucket.                 *)
LEMMA SweepOwners ==
  ASSUME Core, NEW l \in Limiters, Sweep(l)
  PROVE  \A k \in Limiters : \A p, i : Owns(k, p, i)' => Owns(k, p, i)
<1>1. \A k \in Limiters : /\ DOMAIN map'[k] \subseteq DOMAIN map[k]
                          /\ \A p \in DOMAIN map'[k] : map'[k][p] = map[k][p]
  BY Swept
<1>2. slot' = slot
  BY DEF Sweep
<1>3. QED BY <1>1, <1>2, Swept, OwnersKept

-----------------------------------------------------------------------------
(* Only offenders are blocked. *)

Penalties(a) == At({"penalize"}, a)

(* What is missing from any bucket of an address was taken by its own      *)
(* failures; those still on the way to the bucket have taken nothing yet.  *)
BlockInv ==
    \A a \in Addresses :
        /\ Cardinality(Penalties(a)) <= fails[a]
        /\ \A i \in Ids : Owns("fail", a, i) =>
              Burst["fail"] + Cardinality(Penalties(a)) <= heap[i] + fails[a]
        /\ a \in blocked => Burst["fail"] <= fails[a]

(* Nobody has failed when the gate opens.                                  *)
LEMMA BlockInit == Init => BlockInv
<1> SUFFICES ASSUME Init, NEW a \in Addresses
             PROVE  /\ Cardinality(Penalties(a)) <= fails[a]
                    /\ \A i \in Ids : Owns("fail", a, i) =>
                          Burst["fail"] + Cardinality(Penalties(a)) <= heap[i] + fails[a]
                    /\ a \in blocked => Burst["fail"] <= fails[a]
  BY DEF BlockInv
<1>1. Penalties(a) = {} /\ \A i : ~Owns("fail", a, i)
  BY DEF Init, Penalties, At, Idle, Owns, EmptyMap, Holders, InFlight, Holding, Limiters
<1>2. QED BY <1>1, FS_EmptySet DEF Init

(* Every step preserves the balance of failures and drawn tokens.          *)
LEMMA BlockStep == Core /\ BlockInv /\ [Next]_vars => BlockInv'
<1> SUFFICES ASSUME Core, BlockInv, [Next]_vars PROVE BlockInv'
  OBVIOUS
<1> DEFINE B == Burst["fail"]
           C(a) == Cardinality(Penalties(a))
           Good(a) == /\ C(a) <= fails[a]
                      /\ \A i \in Ids : Owns("fail", a, i) => B + C(a) <= heap[i] + fails[a]
                      /\ a \in blocked => B <= fails[a]
<1>1. /\ B \in Nat /\ "fail" \in Limiters /\ heap \in [Ids -> Nat] /\ fails \in [Addresses -> Nat]
      /\ \A a \in Addresses : a \in Principals /\ C(a) \in Nat
      /\ \A a \in Addresses : IsFiniteSet(Penalties(a))
  BY RateLimiterAssumption, AtFinite DEF Limiters, Core, OwnInv, BaseType, Penalties, Principals
<1>2. \A a \in Addresses : Good(a)
  BY DEF BlockInv
<1> SUFFICES ASSUME NEW a \in Addresses PROVE Good(a)'
  BY DEF BlockInv
<1>3. \A r \in Requests : slot[r].pc # "idle" => slot[r].q.real \in Addresses
  BY Flying
<1>4. ASSUME NEW r \in Requests, Quiet(r) PROVE Good(a)'
  <2>1. Penalties(a)' = Penalties(a)
    BY <1>4 DEF Quiet, Penalties, At
  <2>2. blocked' # blocked => B <= fails[slot[r].q.real] /\ blocked' = blocked \cup {slot[r].q.real}
    <3> SUFFICES ASSUME blocked' # blocked
                 PROVE  B <= fails[slot[r].q.real] /\ blocked' = blocked \cup {slot[r].q.real}
      OBVIOUS
    <3>1. /\ slot[r].pc = "peek" /\ heap[slot[r].bucket] < 1
          /\ blocked' = blocked \cup {slot[r].q.real}
      BY <1>4 DEF Quiet
    <3>2. r \in Holders /\ slot[r].limiter = "fail" /\ slot[r].q.real \in Addresses
      BY <3>1, Flying DEF Holders, InFlight, Holding, FlightOK
    <3>3. slot[r].bucket \in Ids
      BY <3>2 DEF Core, SlotType
    <3>4. Owns("fail", slot[r].q.real, slot[r].bucket)
      BY <3>2 DEF Owns, Payer
    <3>5. B + C(slot[r].q.real) <= heap[slot[r].bucket] + fails[slot[r].q.real]
          /\ C(slot[r].q.real) \in Nat /\ fails[slot[r].q.real] \in Nat
          /\ heap[slot[r].bucket] = 0
      BY <1>1, <1>2, <3>1, <3>2, <3>3, <3>4
    <3> HIDE DEF B, C
    <3>6. QED BY <1>1, <3>1, <3>5
  <2>3. QED BY <1>1, <1>2, <1>4, <2>1, <2>2 DEF Quiet
<1>5. ASSUME Still PROVE Good(a)'
  <2>1. Penalties(a)' = Penalties(a)
    BY <1>5 DEF Still, Penalties, At
  <2>2. QED BY <1>1, <1>2, <1>5, <2>1 DEF Still
<1>6. ASSUME NEW r \in Requests, Arrive(r) PROVE Good(a)'
  <2> DEFINE o == slot'[r].q.real
  <2>1. Opens(r, "fail", o) /\ slot'[r].pc = "peek" /\ o \in Addresses /\ UNCHANGED <<fails, blocked>>
    BY <1>6, CoreArrive
  <2>2. slot[r].pc = "idle"
    BY <1>6 DEF Arrive
  <2>3. Penalties(a)' = Penalties(a)
    BY <2>1, <2>2 DEF Opens, Penalties, At
  <2>4. ASSUME NEW i \in Ids, Owns("fail", a, i)' PROVE B + C(a) <= heap'[i] + fails[a]
    <3>1. CASE o \in DOMAIN map["fail"]
      <4>0. Owns("fail", o, map["fail"][o].id)
        BY <3>1 DEF Owns
      <4>1. Owns("fail", a, i) /\ heap' = heap
        BY <1>1, <2>1, <2>4, <3>1, <4>0 DEF Opens
      <4>2. QED BY <1>2, <4>1
    <3>2. CASE o \notin DOMAIN map["fail"] /\ i = map'["fail"][o].id
      <4>1. heap'[i] = B
        BY <1>1, <2>1, <3>2 DEF Opens
      <4>2. C(a) <= fails[a] /\ C(a) \in Nat /\ fails[a] \in Nat
        BY <1>1, <1>2
      <4> HIDE DEF B, C
      <4>3. QED BY <1>1, <4>1, <4>2
    <3>3. CASE o \notin DOMAIN map["fail"] /\ i # map'["fail"][o].id
      <4>1. Owns("fail", a, i) /\ heap'[i] = heap[i]
        BY <1>1, <2>1, <2>4, <3>3 DEF Opens
      <4>2. QED BY <1>2, <4>1
    <3>4. QED BY <3>1, <3>2, <3>3
  <2>5. QED BY <1>2, <2>1, <2>3, <2>4
<1>7. ASSUME NEW r \in Requests, AuthRefuses(r) PROVE Good(a)'
  <2> DEFINE o == slot[r].q.real
             one == IF o = a THEN 1 ELSE 0
  <2>1. /\ Opens(r, "fail", o) /\ slot[r].pc = "route" /\ slot'[r].pc = "penalize"
        /\ slot'[r].q = slot[r].q /\ o \in Addresses
        /\ fails' = [fails EXCEPT ![o] = @ + 1] /\ UNCHANGED <<blocked>>
    BY <1>7, CoreAuthRefuses
  <2>2. r \notin Penalties(a) /\ Penalties(a)' = IF o = a THEN Penalties(a) \cup {r} ELSE Penalties(a)
    BY <2>1 DEF Opens, Penalties, At
  <2>3. C(a)' = C(a) + one /\ fails'[a] = fails[a] + one
    <3>1. CASE o = a
      <4>1. Cardinality(Penalties(a) \cup {r}) = Cardinality(Penalties(a)) + 1
        BY <1>1, <2>2, FS_AddElement
      <4>2. QED BY <1>1, <2>1, <2>2, <3>1, <4>1
    <3>2. CASE o # a
      BY <1>1, <2>1, <2>2, <3>2
    <3>3. QED BY <3>1, <3>2
  <2>4. /\ C(a) <= fails[a] /\ C(a) \in Nat /\ fails[a] \in Nat /\ one \in Nat
        /\ a \in blocked => B <= fails[a]
    BY <1>1, <1>2
  <2>5. ASSUME NEW i \in Ids, Owns("fail", a, i)' PROVE B + C(a) <= heap'[i] + fails[a] /\ heap'[i] \in Nat
    <3>1. CASE o \in DOMAIN map["fail"]
      <4>0. Owns("fail", o, map["fail"][o].id)
        BY <3>1 DEF Owns
      <4>1. /\ map'["fail"][o].id = map["fail"][o].id /\ heap' = heap
            /\ Owns("fail", a, i) \/ (a = o /\ i = map'["fail"][o].id)
        <5> HIDE DEF o
        <5> QED BY <1>1, <2>1, <2>5, <3>1 DEF Opens
      <4>2. Owns("fail", a, i)
        BY <4>0, <4>1
      <4>3. QED BY <1>1, <1>2, <4>1, <4>2
    <3>2. CASE o \notin DOMAIN map["fail"] /\ i = map'["fail"][o].id
      <4>1. heap'[i] = B
        BY <1>1, <2>1, <3>2 DEF Opens
      <4> HIDE DEF B, C
      <4>2. QED BY <1>1, <2>4, <4>1
    <3>3. CASE o \notin DOMAIN map["fail"] /\ i # map'["fail"][o].id
      <4>1. Owns("fail", a, i) /\ heap'[i] = heap[i]
        BY <1>1, <2>1, <2>5, <3>3 DEF Opens
      <4>2. QED BY <1>1, <1>2, <4>1
    <3>4. QED BY <3>1, <3>2, <3>3
  <2>6. \A i \in Ids : Owns("fail", a, i)' => B + C(a)' <= heap'[i] + fails'[a]
    <3> HIDE DEF B, C, one
    <3> QED BY <1>1, <2>3, <2>4, <2>5
  <2>7. C(a)' <= fails'[a] /\ (a \in blocked' => B <= fails'[a])
    <3> HIDE DEF B, C, one, o
    <3> QED BY <1>1, <2>1, <2>3, <2>4
  <2>8. QED BY <2>6, <2>7
<1>8. ASSUME NEW r \in Requests, Limit(r) PROVE Good(a)'
  <2> DEFINE l == slot[r].limiter
             key == Payer(slot[r])
  <2>1. /\ Opens(r, l, key) /\ l \in {"anon", "client"} /\ slot[r].pc = "limit"
        /\ slot'[r].pc = "take" /\ UNCHANGED <<fails, blocked>>
    BY <1>8, CoreLimit
  <2>2. Penalties(a)' = Penalties(a)
    BY <2>1 DEF Opens, Penalties, At
  <2>3. \A i \in Ids : Owns("fail", a, i)' => Owns("fail", a, i) /\ heap'[i] = heap[i]
    BY <1>1, <2>1 DEF Opens
  <2>4. QED BY <1>2, <2>1, <2>2, <2>3
<1>9. ASSUME NEW r \in Requests, Penalize(r) PROVE Good(a)'
  <2> DEFINE o == slot[r].q.real
             b == slot[r].bucket
             one == IF o = a THEN 1 ELSE 0
  <2>1. Draws(r) /\ slot[r].pc = "penalize" /\ UNCHANGED <<fails, blocked>>
    BY <1>9, DrawSteps DEF Penalize, observers
  <2>2. slot[r].limiter = "fail" /\ Payer(slot[r]) = o /\ o \in Addresses
    BY <2>1, Flying DEF FlightOK, Payer
  <2>3. Penalties(a)' = IF o = a THEN Penalties(a) \ {r} ELSE Penalties(a)
    BY <2>1 DEF Draws, Penalties, At
  <2>4. o = a => r \in Penalties(a)
    BY <2>1 DEF Penalties, At
  <2>5. C(a)' = C(a) - one /\ C(a)' \in Nat
    BY <1>1, <2>3, <2>4, FS_RemoveElement, FS_CardinalityType
  <2>6. C(a) <= fails[a] /\ C(a) \in Nat /\ fails[a] \in Nat /\ one \in Nat
    BY <1>1, <1>2
  <2>7. ASSUME NEW i \in Ids, Owns("fail", a, i)' PROVE B + C(a)' <= heap'[i] + fails[a]
    <3>1. Owns("fail", a, i)
      BY <1>1, <2>1, <2>7 DEF Draws
    <3>2. B + C(a) <= heap[i] + fails[a]
      BY <1>2, <3>1
    <3>3. i = b => o = a
      BY <1>1, <2>1, <2>2, <3>1 DEF Draws
    <3>4. heap[i] \in Nat /\ heap'[i] \in Int /\ heap[i] - one <= heap'[i]
      <4>1. heap'[i] = IF i = b THEN AfterAllow(heap[i]) ELSE heap[i]
        BY <1>1, <2>1 DEF Draws
      <4>2. QED BY <1>1, <3>3, <4>1 DEF AfterAllow
    <3> HIDE DEF B, C, one
    <3>5. QED BY <1>1, <2>5, <2>6, <3>2, <3>4
  <2>8. C(a)' <= fails[a]
    <3> HIDE DEF C, one
    <3> QED BY <2>5, <2>6
  <2>9. QED BY <1>2, <2>1, <2>7, <2>8
<1>10. ASSUME NEW r \in Requests, TakeAdmits(r) PROVE Good(a)'
  <2>1. Draws(r) /\ slot[r].pc = "take" /\ UNCHANGED <<fails, blocked>>
    BY <1>10, DrawSteps DEF TakeAdmits
  <2>2. slot[r].limiter \in {"anon", "client"}
    BY <2>1, Flying DEF FlightOK
  <2>3. Penalties(a)' = Penalties(a)
    BY <2>1 DEF Draws, Penalties, At
  <2>4. \A i \in Ids : Owns("fail", a, i)' => Owns("fail", a, i) /\ heap'[i] = heap[i]
    BY <1>1, <2>1, <2>2 DEF Draws
  <2>5. QED BY <1>2, <2>1, <2>3, <2>4
<1>11. ASSUME NEW l \in Limiters, Sweep(l) PROVE Good(a)'
  <2>1. UNCHANGED <<heap, slot, fails, blocked>>
    BY <1>11 DEF Sweep
  <2>2. Penalties(a)' = Penalties(a)
    BY <2>1 DEF Penalties, At
  <2>3. QED BY <1>1, <1>2, <1>11, <2>1, <2>2, SweepOwners
<1>12. ASSUME Tick PROVE Good(a)'
  <2>1. UNCHANGED <<map, slot, fails, blocked>>
    BY <1>12 DEF Tick, observers
  <2>2. Penalties(a)' = Penalties(a)
    BY <2>1 DEF Penalties, At
  <2>3. \A i \in Ids : Owns("fail", a, i)' => Owns("fail", a, i)
    BY <2>1 DEF Owns, Holders, InFlight, Payer
  <2>4. ASSUME NEW i \in Ids, Owns("fail", a, i)'
        PROVE  heap[i] <= heap'[i] /\ heap[i] \in Nat /\ heap'[i] \in Nat
    <3>1. heap'[i] = Refilled("fail", heap[i]) /\ heap' \in [Ids -> Nat]
      BY <1>1, <1>12, <2>3, <2>4, Ticked
    <3>2. QED BY <1>1, <3>1 DEF Refilled
  <2>5. ASSUME NEW i \in Ids, Owns("fail", a, i)' PROVE B + C(a)' <= heap'[i] + fails'[a]
    <3>1. B + C(a) <= heap[i] + fails[a] /\ C(a) \in Nat /\ fails[a] \in Nat /\ C(a)' = C(a)
      BY <1>1, <1>2, <2>2, <2>3, <2>5
    <3>2. fails'[a] = fails[a]
      BY <2>1
    <3> HIDE DEF B, C
    <3>3. QED BY <1>1, <2>4, <2>5, <3>1, <3>2
  <2>6. QED BY <1>2, <2>1, <2>2, <2>5
<1>13. QED
  <2>1. CASE vars' = vars \/ \E k \in Keys : EditKey(k)
    BY <1>5, <2>1, StillSteps
  <2>2. CASE \E l \in Limiters : Sweep(l)
    BY <1>11, <2>2
  <2>3. ASSUME NEW r \in Requests,
             \/ Arrive(r) \/ TurnAway(r) \/ PeekPasses(r) \/ PeekRefuses(r) \/ PublicPath(r)
             \/ AuthAdmits(r) \/ AuthRefuses(r) \/ Penalize(r) \/ PassBy(r) \/ Limit(r)
             \/ TakeAdmits(r) \/ TakeRefuses(r) \/ Run(r) \/ Deny(r) \/ Respond(r)
        PROVE  Good(a)'
    <3> HIDE DEF Good
    <3> QED BY <1>4, <1>6, <1>7, <1>8, <1>9, <1>10, <2>3, QuietSteps
  <2> HIDE DEF Good
  <2>4. QED BY <1>12, <2>1, <2>2, <2>3 DEF Next

(* An address is refused before authentication only after it used up a     *)
(* whole burst itself: no other client, and no caller behind the same      *)
(* proxies, can have it blocked.                                           *)
THEOREM OffendersOnly == Spec => []OnlyOffendersBlocked
<1>1. Init => BlockInv
  BY BlockInit
<1>2. Core /\ BlockInv /\ [Next]_vars => BlockInv'
  BY BlockStep
<1>3. Core /\ BlockInv => OnlyOffendersBlocked
  <2> SUFFICES ASSUME Core, BlockInv, NEW a \in blocked PROVE fails[a] >= Burst["fail"]
    BY DEF OnlyOffendersBlocked
  <2>1. a \in Addresses /\ fails[a] \in Nat /\ Burst["fail"] \in Nat
    BY RateLimiterAssumption DEF Core, BaseType, Limiters
  <2>2. QED BY <2>1 DEF BlockInv
<1>4. QED BY <1>1, <1>2, <1>3, AlwaysCore, PTL DEF Spec

-----------------------------------------------------------------------------
(* The budget of failures. *)

N == Cardinality(Requests)

(* What k buckets, one after the other, allow until t.                     *)
Budget(k, t) == k * (Burst["fail"] - 1 + N + N * t)

(* The budget of failures grows with time and with each bucket lost.       *)
LEMMA BudgetGrows ==
  ASSUME NEW k \in Nat \ {0}, NEW t \in Nat
  PROVE  /\ Budget(k, t) \in Nat /\ N \in Nat \ {0} /\ Burst["fail"] \in Nat \ {0}
         /\ Budget(k, t) + N <= Budget(k, t + 1)
         /\ Budget(k, t) + (Burst["fail"] - 1 + N) <= Budget(k + 1, t)
         /\ \A u \in Nat : t <= u => Budget(k, t) + N * (u - t) <= Budget(k, u)
<1>1. Burst["fail"] \in Nat \ {0} /\ N \in Nat \ {0}
  BY RateLimiterAssumption, RequestGateAssumption, FS_CardinalityType, FS_EmptySet DEF N, Limiters
<1> DEFINE c == Burst["fail"] - 1 + N
<1>2. c \in Nat
  BY <1>1
<1> HIDE DEF c
<1>4. \A u \in Nat : t <= u => k * (c + N * t) + N * (u - t) <= k * (c + N * u)
  <2> SUFFICES ASSUME NEW u \in Nat, t <= u PROVE k * (c + N * t) + N * (u - t) <= k * (c + N * u)
    OBVIOUS
  <2> DEFINE d == N * (u - t)
             e == c + N * t
  <2>1. d \in Nat /\ e \in Nat /\ c + N * u = e + d
    BY <1>1, <1>2
  <2> HIDE DEF d, e
  <2>2. k * (e + d) = k * e + k * d
    BY <2>1
  <2>3. d <= k * d /\ k * d \in Nat /\ k * e \in Nat
    BY <2>1
  <2>4. k * e + d <= k * (e + d)
    BY <2>1, <2>2, <2>3
  <2>5. QED BY <2>1, <2>4 DEF d, e
<1>5. k * (c + N * t) + c <= (k + 1) * (c + N * t)
  <2> DEFINE e == c + N * t
  <2>1. e \in Nat /\ c <= e
    BY <1>1, <1>2
  <2> HIDE DEF e
  <2>2. (k + 1) * e = k * e + e /\ k * e \in Nat
    BY <2>1
  <2>3. k * e + c <= (k + 1) * e
    BY <1>2, <2>1, <2>2
  <2>4. QED BY <2>3 DEF e
<1>6. k * (c + N * t) + N <= k * (c + N * (t + 1))
  <2>1. k * (c + N * t) + N * ((t + 1) - t) <= k * (c + N * (t + 1))
    BY <1>4
  <2>2. N * ((t + 1) - t) = N
    BY <1>1
  <2>3. QED BY <2>1, <2>2
<1>7. k * (c + N * t) \in Nat
  BY <1>1, <1>2
<1>8. QED BY <1>1, <1>4, <1>5, <1>6, <1>7 DEF Budget, c

(* The bucket the map has for an address, and what is in it.  An address   *)
(* without one will get a full one.                                        *)
On(a) == a \in DOMAIN map["fail"]
Current(a, r) == On(a) /\ slot[r].bucket = map["fail"][a].id
Level(a) == IF On(a) THEN heap[map["fail"][a].id] ELSE Burst["fail"]

(* Failures that will be charged to that bucket.                           *)
Charging(a) == {r \in At({"penalize"}, a) : Current(a, r)}

(* Requests that may fail though that bucket is empty: they are past the   *)
(* peek, or peek at a bucket the map has dropped.                          *)
Coming(a) == At({"route"}, a) \cup {r \in At({"peek"}, a) : ~Current(a, r)}

(* How many more failures the present tokens can admit.                    *)
Room(a) ==
    IF Level(a) >= 1 THEN Level(a) - 1 + N - Cardinality(Charging(a))
                     ELSE Cardinality(Coming(a))

(* The failures so far and the ones to come are within the budget.  Those  *)
(* so far were within it when the bucket was last looked up: each failure  *)
(* looks it up.  That is why a bucket nobody used for the idle time may be *)
(* forgotten.                                                              *)
FailInvOf(a) ==
    /\ fails[a] + Room(a) <= Budget(1 + lost["fail"][a], clock)
    /\ On(a) => fails[a] <= Budget(1 + lost["fail"][a], map["fail"][a].last)

FailInv == \A a \in Addresses : FailInvOf(a)

(* What an address may still fail is a number; its requests are counted    *)
(* once.                                                                   *)
LEMMA RoomTyped ==
  ASSUME Core, NEW a \in Addresses
  PROVE  /\ Level(a) \in Nat
         /\ IsFiniteSet(Charging(a)) /\ Cardinality(Charging(a)) \in Nat
         /\ IsFiniteSet(Coming(a)) /\ Cardinality(Coming(a)) \in Nat
         /\ Cardinality(Charging(a)) + Cardinality(Coming(a)) <= N
         /\ Room(a) \in Nat
         /\ fails[a] \in Nat /\ lost["fail"][a] \in Nat /\ clock \in Nat
         /\ 1 + lost["fail"][a] \in Nat \ {0}
         /\ On(a) => map["fail"][a].id \in Ids /\ map["fail"][a].last \in 0..clock
         /\ N \in Nat \ {0} /\ Burst["fail"] \in Nat \ {0} /\ a \in Principals
<1>1. /\ fails[a] \in Nat /\ clock \in Nat /\ a \in Principals /\ "fail" \in Limiters
      /\ lost["fail"][a] \in Nat
  BY DEF Core, BaseType, Principals, Limiters
<1>2. On(a) => map["fail"][a].id \in Ids /\ map["fail"][a].last \in 0..clock
  BY <1>1 DEF On, Core, MapType
<1>3. Burst["fail"] \in Nat \ {0} /\ N \in Nat \ {0}
  BY <1>1, BudgetGrows
<1>4. Level(a) \in Nat
  BY <1>2, <1>3 DEF Level, Core, OwnInv
<1>5. /\ Charging(a) \in SUBSET Requests /\ Coming(a) \in SUBSET Requests
      /\ Charging(a) \cap Coming(a) = {} /\ Charging(a) \cup Coming(a) \in SUBSET Requests
  BY DEF Charging, Coming, At
<1>6. /\ IsFiniteSet(Charging(a)) /\ Cardinality(Charging(a)) \in Nat
      /\ IsFiniteSet(Coming(a)) /\ Cardinality(Coming(a)) \in Nat
  BY <1>5, FS_Subset, FS_CardinalityType, RequestGateAssumption
<1>7. Cardinality(Charging(a) \cup Coming(a)) = Cardinality(Charging(a)) + Cardinality(Coming(a))
  BY <1>5, <1>6, FS_Union, FS_EmptySet
<1>8. Cardinality(Charging(a) \cup Coming(a)) <= N
  BY <1>5, FS_Subset, RequestGateAssumption DEF N
<1>9. Cardinality(Charging(a)) + Cardinality(Coming(a)) <= N
  BY <1>7, <1>8
<1>10. Room(a) \in Nat
  BY <1>3, <1>4, <1>6, <1>9 DEF Room
<1>11. QED BY <1>1, <1>2, <1>3, <1>4, <1>6, <1>9, <1>10

RoomOK ==
    \A a \in Addresses :
        /\ Level(a) \in Nat /\ Room(a) \in Nat
        /\ IsFiniteSet(Charging(a)) /\ Cardinality(Charging(a)) \in Nat
        /\ IsFiniteSet(Coming(a)) /\ Cardinality(Coming(a)) \in Nat
        /\ Cardinality(Charging(a)) + Cardinality(Coming(a)) <= N

(* The same, as one formula for the state after a step.                    *)
LEMMA RoomAfter == Core => RoomOK
BY RoomTyped DEF RoomOK

(* Nothing changes for address a.                                          *)
Apart(a) ==
    /\ On(a)' = On(a) /\ (On(a) => map'["fail"][a] = map["fail"][a])
    /\ On(a) => heap'[map["fail"][a].id] = heap[map["fail"][a].id]
    /\ fails'[a] = fails[a] /\ lost'["fail"][a] = lost["fail"][a] /\ clock' = clock

(* Its requests are where they were.                                       *)
SameRequests(a) ==
    \A x \in Requests :
        /\ slot'[x].pc \in {"peek", "route", "penalize"} /\ slot'[x].q.real = a <=>
           slot[x].pc \in {"peek", "route", "penalize"} /\ slot[x].q.real = a
        /\ slot[x].pc \in {"peek", "route", "penalize"} /\ slot[x].q.real = a =>
           /\ slot'[x].pc = slot[x].pc
           /\ slot[x].pc \in {"peek", "penalize"} => slot'[x].bucket = slot[x].bucket

(* A step that is not about an address and adds no room for it keeps its   *)
(* bound.                                                                  *)
LEMMA ApartKeeps ==
  ASSUME Core, Core', NEW a \in Addresses, FailInvOf(a), Apart(a), Room(a)' <= Room(a)
  PROVE  FailInvOf(a)'
<1>1. fails[a] + Room(a) <= Budget(1 + lost["fail"][a], clock)
  BY DEF FailInvOf
<1>2. fails[a] \in Nat /\ Room(a) \in Nat /\ Budget(1 + lost["fail"][a], clock) \in Nat
  BY RoomTyped, BudgetGrows
<1>3. Room(a)' \in Nat
  <2>1. RoomOK'
    BY RoomAfter, PTL
  <2>2. QED BY <2>1 DEF RoomOK
<1>4. fails[a] + Room(a)' <= Budget(1 + lost["fail"][a], clock)
  BY <1>1, <1>2, <1>3
<1>5. QED BY <1>4 DEF FailInvOf, Apart, Budget

(* So does one that leaves the address's requests where they are.          *)
LEMMA ApartSame ==
  ASSUME Core, Core', NEW a \in Addresses, FailInvOf(a), Apart(a), SameRequests(a)
  PROVE  FailInvOf(a)'
<1>1. Level(a)' = Level(a)
  BY DEF Apart, Level, On
<1>2. \A r \in Requests : slot[r].pc \in {"peek", "penalize"} /\ slot[r].q.real = a =>
                             (Current(a, r)' <=> Current(a, r))
  BY DEF Apart, SameRequests, Current
<1>3. Charging(a)' = Charging(a)
  BY <1>2 DEF SameRequests, Charging, At
<1>4. Coming(a)' = Coming(a)
  BY <1>2 DEF SameRequests, Coming, At
<1>5. Room(a)' = Room(a) /\ Room(a) \in Nat
  BY <1>1, <1>3, <1>4, RoomTyped DEF Room
<1>6. QED BY <1>5, ApartKeeps

(* The map drops the bucket of a, which counts as lost.                    *)
LEMMA Forgotten ==
  ASSUME Core, NEW a \in Addresses, FailInvOf(a), ~On(a)', fails'[a] = fails[a], clock' = clock,
         lost'["fail"][a] = lost["fail"][a] + 1
  PROVE  FailInvOf(a)'
<1>1. Charging(a)' = {} /\ Level(a)' = Burst["fail"]
  BY DEF Charging, Current, Level
<1>2. Room(a)' = Burst["fail"] - 1 + N
  BY <1>1, RoomTyped, FS_EmptySet DEF Room
<1>3. fails[a] + Room(a) <= Budget(1 + lost["fail"][a], clock)
  BY DEF FailInvOf
<1>4. /\ Budget(1 + lost["fail"][a], clock) + (Burst["fail"] - 1 + N)
           <= Budget((1 + lost["fail"][a]) + 1, clock)
      /\ Budget(1 + lost["fail"][a], clock) \in Nat
      /\ Budget((1 + lost["fail"][a]) + 1, clock) \in Nat
  <2> DEFINE k == 1 + lost["fail"][a]
  <2>1. k \in Nat \ {0} /\ k + 1 \in Nat \ {0} /\ clock \in Nat
    BY RoomTyped
  <2> HIDE DEF k
  <2>2. /\ Budget(k, clock) + (Burst["fail"] - 1 + N) <= Budget(k + 1, clock)
        /\ Budget(k, clock) \in Nat /\ Budget(k + 1, clock) \in Nat
    BY <2>1, BudgetGrows
  <2>3. QED BY <2>2 DEF k
<1>5. fails[a] \in Nat /\ Room(a) \in Nat /\ N \in Nat \ {0} /\ Burst["fail"] \in Nat \ {0}
      /\ lost["fail"][a] \in Nat
  BY RoomTyped
<1>6. fails[a] + Room(a)' <= Budget((1 + lost["fail"][a]) + 1, clock)
  BY <1>2, <1>3, <1>4, <1>5
<1>7. (1 + lost["fail"][a]) + 1 = 1 + lost'["fail"][a]
  BY <1>5
<1>8. fails'[a] + Room(a)' <= Budget(1 + lost'["fail"][a], clock')
  BY <1>6, <1>7
<1>9. QED BY <1>8 DEF FailInvOf, Budget

(* A lookup for another address.                                           *)
LEMMA OpenedForOther ==
  ASSUME Core, Core', NEW r \in Requests, NEW o \in Addresses, Opens(r, "fail", o),
         NEW a \in Addresses, a # o, FailInvOf(a), fails'[a] = fails[a], SameRequests(a)
  PROVE  FailInvOf(a)'
<1>1. "fail" \in Limiters /\ a \in Principals /\ lost \in [Limiters -> [Principals -> Nat]]
  BY DEF Limiters, Principals, Core, BaseType
<1>2. lost'["fail"][a] = IF a \in DOMAIN map["fail"] \ DOMAIN map'["fail"]
                         THEN lost["fail"][a] + 1 ELSE lost["fail"][a]
  BY <1>1 DEF Opens
<1>3. clock' = clock
  BY DEF Opens
<1>4. CASE On(a) /\ ~On(a)'
  BY <1>2, <1>3, <1>4, Forgotten DEF On
<1>5. CASE On(a)' <=> On(a)
  <2>1. On(a) => map'["fail"][a] = map["fail"][a]
    BY <1>5 DEF On, Opens
  <2>2. ASSUME On(a) PROVE heap'[map["fail"][a].id] = heap[map["fail"][a].id]
    <3>1. Owns("fail", a, map["fail"][a].id)
      BY <2>2 DEF On, Owns
    <3>2. heap' = heap \/ (/\ heap' = [heap EXCEPT ![map'["fail"][o].id] = Burst["fail"]]
                          /\ map["fail"][a].id # map'["fail"][o].id)
      BY <1>1, <3>1 DEF Opens
    <3>3. map["fail"][a].id \in Ids /\ heap \in [Ids -> Nat]
      BY <2>2, RoomTyped DEF Core, OwnInv
    <3>4. QED BY <3>2, <3>3
  <2>3. lost'["fail"][a] = lost["fail"][a]
    BY <1>2, <1>5 DEF On
  <2>4. Apart(a)
    BY <1>3, <1>5, <2>1, <2>2, <2>3 DEF Apart, On
  <2>5. QED BY <2>4, ApartSame
<1>6. On(a)' => On(a)
  BY DEF On, Opens
<1>7. QED BY <1>4, <1>5, <1>6

(* A lookup of a's own bucket: it is there or it is full.                  *)
LEMMA OpenedForSelf ==
  ASSUME Core, NEW r \in Requests, NEW a \in Addresses, Opens(r, "fail", a)
  PROVE  /\ On(a)' /\ Level(a)' = Level(a) /\ clock' = clock
         /\ lost'["fail"][a] = lost["fail"][a] /\ map'["fail"][a].last = clock
         /\ Current(a, r)'
         /\ \A x \in Requests \ {r} : slot'[x] = slot[x]
         /\ \A x \in Requests \ {r} : slot[x].pc \in Holding => (Current(a, x)' <=> Current(a, x))
<1>1. "fail" \in Limiters /\ a \in Principals /\ lost \in [Limiters -> [Principals -> Nat]]
  BY DEF Limiters, Principals, Core, BaseType
<1>2. On(a)' /\ clock' = clock /\ map'["fail"][a].last = clock
      /\ \A x \in Requests \ {r} : slot'[x] = slot[x]
  BY DEF Opens, On
<1>3. lost'["fail"][a] = lost["fail"][a]
  BY <1>1, <1>2 DEF Opens, On
<1>4. Current(a, r)'
  BY <1>2 DEF Current, Opens
<1>5. Level(a)' = Level(a)
  BY <1>2 DEF Level, Opens, On, Core, OwnInv
<1>6. ASSUME NEW x \in Requests \ {r}, slot[x].pc \in Holding
      PROVE  Current(a, x)' <=> Current(a, x)
  <2>1. CASE On(a)
    BY <1>2, <2>1 DEF Current, Opens, On
  <2>2. CASE ~On(a)
    <3>1. Owns(slot[x].limiter, Payer(slot[x]), slot[x].bucket) /\ slot[x].limiter \in Limiters
      BY <1>6 DEF Owns, Holders, InFlight, Core, SlotType
    <3>2. slot[x].bucket # map'["fail"][a].id
      BY <2>2, <3>1 DEF Opens, On
    <3>3. QED BY <1>2, <2>2, <3>2 DEF Current
  <2>3. QED BY <2>1, <2>2
<1>7. QED BY <1>2, <1>3, <1>4, <1>5, <1>6

(* A quiet step of any request keeps the bound on failures.                *)
LEMMA FailQuiet ==
  ASSUME Core, Core', NEW a \in Addresses, FailInvOf(a), NEW r \in Requests, Quiet(r)
  PROVE  FailInvOf(a)'
<1>1. /\ UNCHANGED <<map, heap, clock, fails, lost>>
      /\ \A x \in Requests \ {r} : slot'[x] = slot[x]
  BY DEF Quiet
<1>2. Apart(a)
  BY <1>1 DEF Apart, On
<1>3. Level(a)' = Level(a) /\ \A x \in Requests \ {r} : Current(a, x)' <=> Current(a, x)
  BY <1>1 DEF Level, On, Current
<1>4. Charging(a)' = Charging(a)
  <2>1. slot[r].pc # "penalize" /\ slot'[r].pc # "penalize"
    BY DEF Quiet
  <2>2. QED BY <1>1, <1>3, <2>1 DEF Charging, At
<1>5. CASE slot[r].pc = "peek" /\ slot'[r].pc = "route" /\ slot'[r].q = slot[r].q
           /\ heap[slot[r].bucket] >= 1
  <2>1. CASE slot[r].q.real = a /\ Current(a, r)
    <3>1. Level(a) >= 1
      BY <1>5, <2>1 DEF Level, Current
    <3>2. Room(a)' = Room(a)
      BY <1>3, <1>4, <3>1 DEF Room
    <3>3. QED BY <1>2, <3>2, ApartKeeps, RoomTyped
  <2>2. CASE ~(slot[r].q.real = a /\ Current(a, r))
    <3>1. Coming(a)' = Coming(a)
      BY <1>1, <1>3, <1>5, <2>2 DEF Coming, At
    <3>2. Room(a)' = Room(a)
      BY <1>3, <1>4, <3>1 DEF Room
    <3>3. QED BY <1>2, <3>2, ApartKeeps, RoomTyped
  <2>3. QED BY <2>1, <2>2
<1>6. CASE slot'[r].pc \in {"idle", "limit", "call", "ran"}
  <2>1. Coming(a)' \in SUBSET Coming(a)
    BY <1>1, <1>3, <1>6 DEF Coming, At
  <2>2. Cardinality(Coming(a)') <= Cardinality(Coming(a))
    BY <2>1, RoomTyped, FS_Subset
  <2>3. Room(a)' <= Room(a)
    BY <1>3, <1>4, <2>2, RoomTyped DEF Room
  <2>4. QED BY <1>2, <2>3, ApartKeeps
<1>7. QED BY <1>5, <1>6 DEF Quiet

(* So does an edit of a key.                                               *)
LEMMA FailStill ==
  ASSUME Core, Core', NEW a \in Addresses, FailInvOf(a), Still PROVE FailInvOf(a)'
<1>1. Apart(a)
  BY DEF Apart, On, Still
<1>2. SameRequests(a)
  BY DEF SameRequests, Still, Holding
<1>3. QED BY <1>1, <1>2, ApartSame

(* An arrival that opens a bucket spends room the bound has reserved.      *)
LEMMA FailArrive ==
  ASSUME Core, Core', NEW a \in Addresses, FailInvOf(a), NEW r \in Requests, Arrive(r)
  PROVE  FailInvOf(a)'
<1> DEFINE o == slot'[r].q.real
<1>1. /\ Opens(r, "fail", o) /\ slot'[r].pc = "peek" /\ o \in Addresses /\ fails' = fails
      /\ slot[r].pc = "idle"
  BY CoreArrive DEF Arrive
<1>2. \A x \in Requests \ {r} : slot'[x] = slot[x]
  BY <1>1 DEF Opens
<1>3. CASE o # a
  <2>1. SameRequests(a)
    BY <1>1, <1>2, <1>3 DEF SameRequests
  <2>2. QED BY <1>1, <1>3, <2>1, OpenedForOther
<1>4. CASE o = a
  <2>1. /\ On(a)' /\ Level(a)' = Level(a) /\ clock' = clock
        /\ lost'["fail"][a] = lost["fail"][a] /\ map'["fail"][a].last = clock
        /\ Current(a, r)'
        /\ \A x \in Requests \ {r} : slot[x].pc \in Holding => (Current(a, x)' <=> Current(a, x))
    BY <1>1, <1>4, OpenedForSelf
  <2>2. Charging(a)' = Charging(a)
    BY <1>1, <1>2, <2>1 DEF Charging, At, Holding
  <2>3. Coming(a)' = Coming(a)
    BY <1>1, <1>2, <2>1 DEF Coming, At, Holding
  <2>4. Room(a)' = Room(a)
    BY <2>1, <2>2, <2>3 DEF Room
  <2>5. fails[a] <= Budget(1 + lost["fail"][a], clock)
    <3>1. fails[a] \in Nat /\ Room(a) \in Nat /\ Budget(1 + lost["fail"][a], clock) \in Nat
      BY RoomTyped, BudgetGrows
    <3>2. QED BY <3>1 DEF FailInvOf
  <2>6. QED BY <1>1, <2>1, <2>4, <2>5 DEF FailInvOf, Budget
<1>5. QED BY <1>3, <1>4

(* A failure spends one of the address's coming requests.                  *)
LEMMA FailAuthRefuses ==
  ASSUME Core, Core', NEW a \in Addresses, FailInvOf(a), NEW r \in Requests, AuthRefuses(r)
  PROVE  FailInvOf(a)'
<1> DEFINE o == slot[r].q.real
<1>1. /\ Opens(r, "fail", o) /\ slot[r].pc = "route" /\ slot'[r].pc = "penalize"
      /\ slot'[r].q = slot[r].q /\ o \in Addresses /\ fails' = [fails EXCEPT ![o] = @ + 1]
  BY CoreAuthRefuses
<1>2. \A x \in Requests \ {r} : slot'[x] = slot[x]
  BY <1>1 DEF Opens
<1>3. fails \in [Addresses -> Nat]
  BY DEF Core, BaseType
<1>4. CASE o # a
  <2>1. SameRequests(a)
    BY <1>1, <1>2, <1>4 DEF SameRequests
  <2>2. fails'[a] = fails[a]
    BY <1>1, <1>3, <1>4
  <2>3. QED BY <1>1, <1>4, <2>1, <2>2, OpenedForOther
<1>5. CASE o = a
  <2>1. /\ On(a)' /\ Level(a)' = Level(a) /\ clock' = clock
        /\ lost'["fail"][a] = lost["fail"][a] /\ map'["fail"][a].last = clock
        /\ Current(a, r)'
        /\ \A x \in Requests \ {r} : slot[x].pc \in Holding => (Current(a, x)' <=> Current(a, x))
    BY <1>1, <1>5, OpenedForSelf
  <2>2. /\ fails'[a] = fails[a] + 1 /\ fails[a] \in Nat /\ Room(a) \in Nat /\ Level(a) \in Nat
        /\ Budget(1 + lost["fail"][a], clock) \in Nat
        /\ IsFiniteSet(Charging(a)) /\ Cardinality(Charging(a)) \in Nat
        /\ IsFiniteSet(Coming(a)) /\ Cardinality(Coming(a)) \in Nat
        /\ N \in Nat
    BY <1>1, <1>3, <1>5, RoomTyped, BudgetGrows
  <2>3. Charging(a)' = Charging(a) \cup {r} /\ r \notin Charging(a)
    BY <1>1, <1>2, <1>5, <2>1 DEF Charging, At, Holding
  <2>4. Cardinality(Charging(a)') = Cardinality(Charging(a)) + 1
    BY <2>2, <2>3, FS_AddElement
  <2>5. Coming(a)' = Coming(a) \ {r} /\ r \in Coming(a)
    BY <1>1, <1>2, <1>5, <2>1 DEF Coming, At, Holding
  <2>6. Cardinality(Coming(a)') = Cardinality(Coming(a)) - 1
    BY <2>2, <2>5, FS_RemoveElement
  <2>7. Room(a)' = Room(a) - 1
    BY <2>1, <2>2, <2>4, <2>6 DEF Room
  <2>8. fails'[a] + Room(a)' <= Budget(1 + lost["fail"][a], clock)
    BY <2>2, <2>7 DEF FailInvOf
  <2>9. Room(a)' \in Nat
    <3>1. RoomOK'
      BY RoomAfter, PTL
    <3>2. QED BY <3>1 DEF RoomOK
  <2>10. fails'[a] <= Budget(1 + lost["fail"][a], clock)
    BY <2>2, <2>8, <2>9
  <2>11. QED BY <2>1, <2>8, <2>10 DEF FailInvOf, Budget
<1>6. QED BY <1>4, <1>5

(* The other limiters do not touch the failure buckets.                    *)
LEMMA FailLimit ==
  ASSUME Core, Core', NEW a \in Addresses, FailInvOf(a), NEW r \in Requests, Limit(r)
  PROVE  FailInvOf(a)'
<1> DEFINE l == slot[r].limiter
           key == Payer(slot[r])
<1>1. /\ Opens(r, l, key) /\ l \in {"anon", "client"} /\ slot[r].pc = "limit"
      /\ slot'[r].pc = "take" /\ fails' = fails /\ key \in Principals
  BY CoreLimit
<1>2. /\ "fail" \in Limiters \ {l} /\ l \in Limiters /\ lost \in [Limiters -> [Principals -> Nat]]
      /\ a \in Principals /\ heap \in [Ids -> Nat]
  BY <1>1 DEF Limiters, Core, BaseType, Principals, OwnInv
<1> HIDE DEF l, key
<1>3. map'["fail"] = map["fail"] /\ clock' = clock /\ lost'["fail"] = lost["fail"]
      /\ \A x \in Requests \ {r} : slot'[x] = slot[x]
  BY <1>1, <1>2 DEF Opens
<1>4. ASSUME On(a) PROVE heap'[map["fail"][a].id] = heap[map["fail"][a].id]
  <2>1. Owns("fail", a, map["fail"][a].id) /\ map["fail"][a].id \in Ids
    BY <1>4, RoomTyped DEF On, Owns
  <2>2. heap' = heap \/ (/\ heap' = [heap EXCEPT ![map'[l][key].id] = Burst[l]]
                         /\ map["fail"][a].id # map'[l][key].id)
    BY <1>1, <1>2, <2>1 DEF Opens
  <2>3. QED BY <1>2, <2>1, <2>2
<1>5. Apart(a)
  BY <1>1, <1>3, <1>4 DEF Apart, On
<1>6. SameRequests(a)
  BY <1>1, <1>3 DEF SameRequests
<1>7. QED BY <1>5, <1>6, ApartSame

(* Nor do their draws.                                                     *)
LEMMA FailTakeAdmits ==
  ASSUME Core, Core', NEW a \in Addresses, FailInvOf(a), NEW r \in Requests, TakeAdmits(r)
  PROVE  FailInvOf(a)'
<1>1. Draws(r) /\ slot[r].pc = "take" /\ fails' = fails
  BY DrawSteps DEF TakeAdmits
<1>2. slot[r].limiter \in {"anon", "client"}
  BY <1>1, Flying DEF FlightOK
<1>3. lost'["fail"] = lost["fail"]
  BY <1>2 DEF TakeAdmits, Core, BaseType, Limiters
<1>4. "fail" \in Limiters /\ a \in Principals /\ heap \in [Ids -> Nat]
  BY DEF Limiters, Principals, Core, OwnInv
<1>5. ASSUME On(a) PROVE heap'[map["fail"][a].id] = heap[map["fail"][a].id]
  <2>1. Owns("fail", a, map["fail"][a].id) /\ map["fail"][a].id \in Ids
    BY <1>5, RoomTyped DEF On, Owns
  <2>2. slot[r].bucket # map["fail"][a].id
    BY <1>1, <1>2, <1>4, <2>1 DEF Draws
  <2>3. QED BY <1>1, <1>4, <2>1, <2>2 DEF Draws
<1>6. Apart(a)
  BY <1>1, <1>3, <1>5 DEF Apart, On, Draws
<1>7. SameRequests(a)
  BY <1>1 DEF SameRequests, Draws
<1>8. QED BY <1>6, <1>7, ApartSame

(* The penalty takes the token its failure stands for, from the bucket it  *)
(* holds.                                                                  *)
LEMMA FailPenalize ==
  ASSUME Core, Core', NEW a \in Addresses, FailInvOf(a), NEW r \in Requests, Penalize(r)
  PROVE  FailInvOf(a)'
<1> DEFINE o == slot[r].q.real
           b == slot[r].bucket
<1>1. Draws(r) /\ slot[r].pc = "penalize" /\ slot'[r].pc = "idle" /\ UNCHANGED <<fails, lost>>
  <2>1. Draws(r) /\ slot[r].pc = "penalize" /\ UNCHANGED <<fails, lost>>
    BY DrawSteps DEF Penalize, observers
  <2>2. slot'[r].pc = "idle"
    BY DEF Penalize, Refuse, Idle, Core, SlotType
  <2>3. QED BY <2>1, <2>2
<1>2. /\ b \in Ids /\ map' = map /\ clock' = clock /\ heap' = [heap EXCEPT ![b] = AfterAllow(@)]
      /\ \A x \in Requests \ {r} : slot'[x] = slot[x]
  BY <1>1 DEF Draws
<1>3. slot[r].limiter = "fail" /\ Payer(slot[r]) = o /\ o \in Addresses
  BY <1>1, Flying DEF FlightOK, Payer
<1>4. "fail" \in Limiters /\ a \in Principals /\ heap \in [Ids -> Nat]
  BY DEF Limiters, Principals, Core, OwnInv
<1>5. CASE o # a
  <2>1. ASSUME On(a) PROVE heap'[map["fail"][a].id] = heap[map["fail"][a].id]
    <3>1. Owns("fail", a, map["fail"][a].id) /\ map["fail"][a].id \in Ids
      BY <2>1, RoomTyped DEF On, Owns
    <3>2. b # map["fail"][a].id
      BY <1>1, <1>3, <1>4, <1>5, <3>1 DEF Draws
    <3>3. QED BY <1>2, <1>4, <3>1, <3>2
  <2>2. Apart(a)
    BY <1>1, <1>2, <2>1 DEF Apart, On
  <2>3. SameRequests(a)
    BY <1>1, <1>2, <1>5 DEF SameRequests
  <2>4. QED BY <2>2, <2>3, ApartSame
<1>6. CASE o = a
  <2>1. \A x \in Requests \ {r} : Current(a, x)' <=> Current(a, x)
    BY <1>2 DEF Current, On
  <2>2. Coming(a)' = Coming(a)
    BY <1>1, <1>2, <2>1 DEF Coming, At
  <2>3. Charging(a)' = Charging(a) \ {r} /\ (Current(a, r) <=> r \in Charging(a))
    BY <1>1, <1>2, <1>6, <2>1 DEF Charging, At
  <2>4. /\ Level(a) \in Nat /\ IsFiniteSet(Charging(a)) /\ Cardinality(Charging(a)) \in Nat
        /\ Cardinality(Coming(a)) \in Nat
        /\ Cardinality(Charging(a)) + Cardinality(Coming(a)) <= N /\ N \in Nat
    BY RoomTyped
  <2>5. Cardinality(Charging(a)') =
          IF Current(a, r) THEN Cardinality(Charging(a)) - 1 ELSE Cardinality(Charging(a))
    BY <2>3, <2>4, FS_RemoveElement
  <2>6. Level(a)' = IF Current(a, r) THEN AfterAllow(Level(a)) ELSE Level(a)
    <3>1. On(a)' <=> On(a)
      BY <1>2 DEF On
    <3>2. CASE On(a)
      <4>1. map["fail"][a].id \in Ids
        BY <3>2, RoomTyped
      <4>2. heap'[map["fail"][a].id] = IF b = map["fail"][a].id THEN AfterAllow(heap[map["fail"][a].id])
                                                                ELSE heap[map["fail"][a].id]
        BY <1>2, <1>4, <4>1
      <4>3. QED BY <1>2, <3>1, <3>2, <4>2 DEF Level, Current
    <3>3. CASE ~On(a)
      BY <3>1, <3>3 DEF Level, Current
    <3>4. QED BY <3>2, <3>3
  <2>7. Room(a)' <= Room(a)
    <3>1. CASE ~Current(a, r)
      BY <2>2, <2>4, <2>5, <2>6, <3>1 DEF Room
    <3>2. CASE Current(a, r) /\ Level(a) >= 2
      <4>1. Level(a)' = Level(a) - 1 /\ Level(a)' >= 1
        BY <2>4, <2>6, <3>2 DEF AfterAllow
      <4>2. QED BY <2>4, <2>5, <3>2, <4>1 DEF Room
    <3>3. CASE Current(a, r) /\ Level(a) = 1
      <4>1. Level(a)' = 0
        BY <2>6, <3>3 DEF AfterAllow
      <4>2. Room(a)' = Cardinality(Coming(a)) /\ Room(a) = 1 - 1 + N - Cardinality(Charging(a))
        BY <2>2, <3>3, <4>1 DEF Room
      <4>3. QED BY <2>4, <4>2
    <3>4. CASE Current(a, r) /\ Level(a) = 0
      <4>1. Level(a)' = 0
        BY <2>6, <3>4 DEF AfterAllow
      <4>2. QED BY <2>2, <2>4, <3>4, <4>1 DEF Room
    <3>5. Level(a) = 0 \/ Level(a) = 1 \/ Level(a) >= 2
      <4>1. \A n \in Nat : n = 0 \/ n = 1 \/ n >= 2
        OBVIOUS
      <4>2. Level(a) \in Nat
        BY <2>4
      <4>3. QED BY <4>1, <4>2
    <3>6. QED BY <3>1, <3>2, <3>3, <3>4, <3>5
  <2>8. FailInvOf(a)'
    <3>1. fails[a] + Room(a) <= Budget(1 + lost["fail"][a], clock)
          /\ fails[a] \in Nat /\ Room(a) \in Nat /\ Budget(1 + lost["fail"][a], clock) \in Nat
      BY RoomTyped, BudgetGrows DEF FailInvOf
    <3>2. RoomOK'
      BY RoomAfter, PTL
    <3>3. Room(a)' \in Nat
      BY <3>2 DEF RoomOK
    <3>4. fails[a] + Room(a)' <= Budget(1 + lost["fail"][a], clock)
      BY <2>7, <3>1, <3>3
    <3>5. QED BY <1>1, <1>2, <3>4 DEF FailInvOf, Budget, On
  <2>9. QED BY <2>8
<1>7. QED BY <1>5, <1>6

(* A bucket dropped by a sweep is full again or is counted as lost.        *)
LEMMA FailSweep ==
  ASSUME Core, Core', NEW a \in Addresses, FailInvOf(a), NEW l \in Limiters, Sweep(l)
  PROVE  FailInvOf(a)'
<1>1. UNCHANGED <<clock, heap, slot, fails>>
  BY DEF Sweep
<1>2. SameRequests(a)
  BY <1>1 DEF SameRequests
<1>3. "fail" \in Limiters /\ a \in Principals /\ lost \in [Limiters -> [Principals -> Nat]]
  BY DEF Limiters, Principals, Core, BaseType
<1>4. CASE l # "fail"
  <2>1. map'["fail"] = map["fail"] /\ lost'["fail"] = lost["fail"]
    BY <1>3, <1>4, Swept DEF Sweep
  <2>2. Apart(a)
    BY <1>1, <2>1 DEF Apart, On
  <2>3. QED BY <1>2, <2>2, ApartSame
<1>5. CASE l = "fail"
  <2>1. /\ On(a)' <=> On(a) /\ ~(map["fail"][a].last + IdleTTL < clock)
        /\ On(a)' => map'["fail"][a] = map["fail"][a]
    BY <1>5, Swept DEF On
  <2>2. lost'["fail"][a] = IF a \in sweep(map["fail"], clock) /\ map["fail"][a].id \in Held
                           THEN lost["fail"][a] + 1 ELSE lost["fail"][a]
    BY <1>3, <1>5 DEF Sweep
  <2>3. CASE On(a)' <=> On(a)
    <3>1. a \notin sweep(map["fail"], clock)
      BY <2>1, <2>3 DEF On, sweep
    <3>2. Apart(a)
      BY <1>1, <2>1, <2>2, <2>3, <3>1 DEF Apart, On
    <3>3. QED BY <1>2, <3>2, ApartSame
  <2>4. CASE On(a) /\ ~On(a)' /\ lost'["fail"][a] = lost["fail"][a] + 1
    BY <1>1, <2>4, Forgotten
  <2>5. CASE On(a) /\ ~On(a)' /\ lost'["fail"][a] = lost["fail"][a]
    <3> DEFINE k == 1 + lost["fail"][a]
               t == map["fail"][a].last
               B == Burst["fail"]
    <3>1. t + IdleTTL < clock /\ fails[a] <= Budget(k, t)
      BY <2>1, <2>5 DEF FailInvOf
    <3>2. /\ t \in Nat /\ k \in Nat \ {0} /\ clock \in Nat /\ fails[a] \in Nat /\ N \in Nat \ {0}
          /\ B \in Nat \ {0}
      BY <2>5, RoomTyped
    <3>3. IdleTTL \in Nat /\ B <= IdleTTL
      BY <1>3, RateLimiterAssumption
    <3>4. Charging(a)' = {} /\ Level(a)' = B
      BY <2>5 DEF Charging, Current, Level
    <3>5. Room(a)' = B - 1 + N
      BY <3>2, <3>4, FS_EmptySet DEF Room
    <3> HIDE DEF k, t, B
    <3>6. Budget(k, t) + N * (clock - t) <= Budget(k, clock) /\ Budget(k, t) \in Nat /\ Budget(k, clock) \in Nat
      <4>1. t <= clock
        BY <3>1, <3>2, <3>3
      <4>2. QED BY <3>2, <4>1, BudgetGrows
    <3>7. B - 1 + N <= N * (clock - t)
      <4> DEFINE d == clock - t
      <4>1. d \in Nat /\ B + 1 <= d
        BY <3>1, <3>2, <3>3
      <4> HIDE DEF d
      <4>2. N * (B + 1) <= N * d /\ N * (B + 1) = N * B + N /\ B <= N * B
        BY <3>2, <4>1
      <4>3. N * d \in Nat /\ N * B \in Nat
        BY <3>2, <4>1
      <4>4. B - 1 + N <= N * d
        BY <3>2, <4>2, <4>3
      <4>5. QED BY <4>4 DEF d
    <3>8. fails[a] + (B - 1 + N) <= Budget(k, clock)
      <4> DEFINE e == N * (clock - t)
      <4>1. e \in Int
        BY <3>2
      <4> HIDE DEF e
      <4>2. Budget(k, t) + e <= Budget(k, clock) /\ B - 1 + N <= e
        BY <3>6, <3>7 DEF e
      <4>3. QED BY <3>1, <3>2, <3>6, <4>1, <4>2
    <3>9. fails'[a] + Room(a)' <= Budget(1 + lost'["fail"][a], clock')
      BY <1>1, <2>5, <3>5, <3>8 DEF k
    <3>10. QED BY <2>5, <3>9 DEF FailInvOf, Budget
  <2>6. QED BY <2>1, <2>2, <2>3, <2>4, <2>5
<1>6. QED BY <1>4, <1>5

(* A tick refills no more than the budget grows.                           *)
LEMMA FailTick ==
  ASSUME Core, Core', NEW a \in Addresses, FailInvOf(a), Tick
  PROVE  FailInvOf(a)'
<1>1. UNCHANGED <<map, slot, fails, lost>> /\ clock' = clock + 1
  BY DEF Tick, observers
<1>2. Charging(a)' = Charging(a) /\ Coming(a)' = Coming(a)
  BY <1>1 DEF Charging, Coming, At, Current, On
<1>3. /\ Level(a) \in Nat /\ Cardinality(Charging(a)) \in Nat /\ Cardinality(Coming(a)) \in Nat
      /\ Cardinality(Charging(a)) + Cardinality(Coming(a)) <= N /\ N \in Nat \ {0}
      /\ fails[a] \in Nat /\ 1 + lost["fail"][a] \in Nat \ {0} /\ clock \in Nat
      /\ Burst["fail"] \in Nat \ {0} /\ a \in Principals /\ Room(a) \in Nat
  BY RoomTyped
<1>4. Level(a)' = Level(a) \/ Level(a)' = Level(a) + 1
  <2>1. CASE On(a)
    <3>1. Owns("fail", a, map["fail"][a].id) /\ map["fail"][a].id \in Ids
      BY <2>1, RoomTyped DEF On, Owns
    <3>2. "fail" \in Limiters
      BY DEF Limiters
    <3>3. heap'[map["fail"][a].id] = Refilled("fail", heap[map["fail"][a].id])
      BY <1>3, <3>1, <3>2, Ticked
    <3>4. QED BY <1>1, <2>1, <3>3 DEF Level, On, Refilled
  <2>2. CASE ~On(a)
    BY <1>1, <2>2 DEF Level, On
  <2>3. QED BY <2>1, <2>2
<1>5. Room(a)' <= Room(a) + N /\ Room(a)' \in Int
  BY <1>2, <1>3, <1>4 DEF Room
<1>6. /\ Budget(1 + lost["fail"][a], clock) + N <= Budget(1 + lost["fail"][a], clock + 1)
      /\ Budget(1 + lost["fail"][a], clock) \in Nat
      /\ Budget(1 + lost["fail"][a], clock + 1) \in Nat
  <2> DEFINE k == 1 + lost["fail"][a]
  <2>1. k \in Nat \ {0} /\ clock \in Nat /\ clock + 1 \in Nat
    BY <1>3
  <2> HIDE DEF k
  <2>2. /\ Budget(k, clock) + N <= Budget(k, clock + 1)
        /\ Budget(k, clock) \in Nat /\ Budget(k, clock + 1) \in Nat
    BY <2>1, BudgetGrows
  <2>3. QED BY <2>2 DEF k
<1>7. fails[a] + Room(a)' <= Budget(1 + lost["fail"][a], clock + 1)
  <2>1. fails[a] + Room(a) <= Budget(1 + lost["fail"][a], clock)
    BY DEF FailInvOf
  <2>2. QED BY <1>3, <1>5, <1>6, <2>1
<1>8. QED BY <1>1, <1>7 DEF FailInvOf, Budget, On

(* The bound holds when the gate opens.                                    *)
LEMMA FailInit == Init => FailInv
<1> SUFFICES ASSUME Init, NEW a \in Addresses PROVE FailInvOf(a)
  BY DEF FailInv
<1>1. Core
  BY CoreInit
<1>2. ~On(a) /\ fails[a] = 0 /\ lost["fail"][a] = 0 /\ clock = 0
  BY DEF Init, On, EmptyMap, Limiters, Principals
<1>3. Charging(a) = {} /\ Level(a) = Burst["fail"]
  BY <1>2 DEF Charging, Current, Level
<1>4. N \in Nat \ {0} /\ Burst["fail"] \in Nat \ {0}
  BY <1>1, RoomTyped
<1>5. Room(a) = Burst["fail"] - 1 + N
  BY <1>3, <1>4, FS_EmptySet DEF Room
<1>6. Budget(1, 0) = Burst["fail"] - 1 + N
  BY <1>4 DEF Budget
<1>7. QED BY <1>2, <1>4, <1>5, <1>6 DEF FailInvOf

(* Every step preserves the bound on failures.                             *)
LEMMA FailStep == Core /\ Core' /\ FailInv /\ [Next]_vars => FailInv'
<1> SUFFICES ASSUME Core, Core', FailInv, [Next]_vars, NEW a \in Addresses PROVE FailInvOf(a)'
  BY DEF FailInv
<1>1. FailInvOf(a)
  BY DEF FailInv
<1>2. CASE vars' = vars \/ \E k \in Keys : EditKey(k)
  BY <1>1, <1>2, StillSteps, FailStill
<1>3. CASE \E l \in Limiters : Sweep(l)
  BY <1>1, <1>3, FailSweep
<1>4. ASSUME NEW r \in Requests,
             \/ Arrive(r) \/ TurnAway(r) \/ PeekPasses(r) \/ PeekRefuses(r) \/ PublicPath(r)
             \/ AuthAdmits(r) \/ AuthRefuses(r) \/ Penalize(r) \/ PassBy(r) \/ Limit(r)
             \/ TakeAdmits(r) \/ TakeRefuses(r) \/ Run(r) \/ Deny(r) \/ Respond(r)
      PROVE  FailInvOf(a)'
  BY <1>1, <1>4, QuietSteps, FailQuiet, FailArrive, FailAuthRefuses, FailPenalize, FailLimit,
     FailTakeAdmits
<1>5. QED BY <1>1, <1>2, <1>3, <1>4, FailTick DEF Next

(* One address gets at most its budget of failed authentications through,  *)
(* however many of its requests overlap and whenever the janitor runs.     *)
THEOREM FailuresBounded == Spec => []FailBound
<1>1. Init => FailInv
  BY FailInit
<1>2. Core /\ Core' /\ FailInv /\ [Next]_vars => FailInv'
  BY FailStep
<1>3. Core /\ FailInv => FailBound
  <2> SUFFICES ASSUME Core, FailInv, NEW a \in Addresses
               PROVE  fails[a] <= Budget(1 + lost["fail"][a], clock)
    BY DEF FailBound, Budget, N
  <2>1. fails[a] + Room(a) <= Budget(1 + lost["fail"][a], clock)
    BY DEF FailInv, FailInvOf
  <2>2. fails[a] \in Nat /\ Room(a) \in Nat /\ Budget(1 + lost["fail"][a], clock) \in Nat
    BY RoomTyped, BudgetGrows
  <2>3. QED BY <2>1, <2>2
<1>4. QED BY <1>1, <1>2, <1>3, AlwaysCore, PTL DEF Spec

-----------------------------------------------------------------------------
(* What the limiters let through. *)

(* The buckets of a key, the one in the map and those only held, and the   *)
(* tokens in them.                                                         *)
Buckets(l, p) == {i \in Ids : Owns(l, p, i)}
Tokens(l, p) == {t \in Ids \X Nat : Owns(l, p, t[1]) /\ t[2] >= 1 /\ t[2] <= heap[t[1]]}

Has(l, p) == p \in DOMAIN map[l]

(* The bucket in the map is on its way to be full when the janitor may     *)
(* drop it.                                                                *)
Whole(l, p) ==
    LET e == map[l][p] IN
    heap[e.id] >= Burst[l] \/ heap[e.id] + e.last + IdleTTL >= clock + Burst[l]

(* What the next bucket will give away that this one did not have.         *)
Reserve(l, p) == IF Has(l, p) /\ Whole(l, p) THEN 0 ELSE Burst[l]

(* What k buckets, one after the other, let through until t.               *)
Allowance(l, k, t) == k * (Burst[l] + t)

AdmitInvOf(l, p) ==
    /\ admitted[l][p] + Cardinality(Tokens(l, p)) + Reserve(l, p)
         <= Allowance(l, 1 + lost[l][p], clock)
    /\ Cardinality(Buckets(l, p)) <= IF Has(l, p) THEN 1 + lost[l][p] ELSE lost[l][p]

AdmitInv == \A l \in {"anon", "client"}, p \in Principals : AdmitInvOf(l, p)

(* The allowance grows with every tick and with each bucket lost.          *)
LEMMA AllowanceGrows ==
  ASSUME NEW l \in Limiters, NEW k \in Nat \ {0}, NEW t \in Nat
  PROVE  /\ Burst[l] \in Nat \ {0} /\ Allowance(l, k, t) \in Nat
         /\ Allowance(l, k, t + 1) = Allowance(l, k, t) + k
         /\ Allowance(l, k, t) + Burst[l] <= Allowance(l, k + 1, t)
<1>1. Burst[l] \in Nat \ {0}
  BY RateLimiterAssumption
<1> DEFINE B == Burst[l]
           e == B + t
<1>2. e \in Nat /\ B <= e /\ B + (t + 1) = e + 1
  BY <1>1
<1>3. k * e \in Nat /\ k * (e + 1) = k * e + k /\ (k + 1) * e = k * e + e
  <2> HIDE DEF e
  <2> QED BY <1>2
<1>4. k * e + B <= (k + 1) * e
  <2> HIDE DEF e, B
  <2> QED BY <1>1, <1>2, <1>3 DEF B
<1>5. QED BY <1>1, <1>2, <1>3, <1>4 DEF Allowance

(* A caller's buckets and tokens are finitely many.                        *)
LEMMA TokensTyped ==
  ASSUME Core, NEW l \in Limiters, NEW p \in Principals
  PROVE  /\ IsFiniteSet(Tokens(l, p)) /\ Cardinality(Tokens(l, p)) \in Nat
         /\ IsFiniteSet(Buckets(l, p)) /\ Cardinality(Buckets(l, p)) \in Nat
         /\ Reserve(l, p) \in Nat /\ Reserve(l, p) <= Burst[l] /\ Burst[l] \in Nat \ {0}
         /\ admitted[l][p] \in Nat /\ lost[l][p] \in Nat /\ clock \in Nat
         /\ 1 + lost[l][p] \in Nat \ {0}
         /\ heap \in [Ids -> Nat]
         /\ Has(l, p) => /\ map[l][p].id \in Ids /\ map[l][p].last \in Nat
                         /\ Owns(l, p, map[l][p].id)
         /\ \A i \in Ids : Owns(l, p, i) => heap[i] <= Burst[l]
<1>1. Burst[l] \in Nat \ {0} /\ IdleTTL \in Nat /\ IsFiniteSet(Ids)
  BY RateLimiterAssumption, RequestGateAssumption
<1>2. /\ admitted[l][p] \in Nat /\ lost[l][p] \in Nat /\ clock \in Nat /\ heap \in [Ids -> Nat]
      /\ \A i \in Ids : Owns(l, p, i) => heap[i] <= Burst[l]
  BY DEF Core, BaseType, OwnInv
<1>3. Has(l, p) => /\ map[l][p].id \in Ids /\ map[l][p].last \in Nat
                   /\ Owns(l, p, map[l][p].id)
  BY <1>2 DEF Has, Core, MapType, Owns
<1>4. IsFiniteSet(Buckets(l, p)) /\ Cardinality(Buckets(l, p)) \in Nat
  <2>1. Buckets(l, p) \in SUBSET Ids
    BY DEF Buckets
  <2>2. QED BY <1>1, <2>1, FS_Subset, FS_CardinalityType
<1>5. IsFiniteSet(Tokens(l, p)) /\ Cardinality(Tokens(l, p)) \in Nat
  <2>1. IsFiniteSet(1..Burst[l])
    BY <1>1, FS_Interval
  <2>2. IsFiniteSet(Ids \X (1..Burst[l]))
    BY <1>1, <2>1, FS_Product
  <2>3. Tokens(l, p) \in SUBSET (Ids \X (1..Burst[l]))
    <3> SUFFICES ASSUME NEW t \in Tokens(l, p) PROVE t \in Ids \X (1..Burst[l])
      OBVIOUS
    <3>1. t \in Ids \X Nat /\ Owns(l, p, t[1]) /\ t[2] >= 1 /\ t[2] <= heap[t[1]]
      BY DEF Tokens
    <3>2. t[1] \in Ids /\ t[2] \in Nat /\ t = <<t[1], t[2]>>
      BY <3>1
    <3>3. heap[t[1]] <= Burst[l] /\ heap[t[1]] \in Nat
      BY <1>2, <3>1, <3>2
    <3>4. t[2] \in 1..Burst[l]
      BY <1>1, <3>1, <3>2, <3>3
    <3>5. QED BY <3>2, <3>4
  <2>4. QED BY <2>2, <2>3, FS_Subset, FS_CardinalityType
<1>6. Reserve(l, p) \in Nat /\ Reserve(l, p) <= Burst[l]
  BY <1>1 DEF Reserve
<1>7. QED BY <1>1, <1>2, <1>3, <1>4, <1>5, <1>6

(* Nobody gets hold of a bucket of the key, and none of them gains.        *)
NoGain(l, p) == \A i \in Ids : Owns(l, p, i)' => Owns(l, p, i) /\ heap'[i] <= heap[i]

(* Without a new bucket and a refill a caller's tokens only shrink.        *)
LEMMA NoGainShrinks ==
  ASSUME Core, Core', NEW l \in Limiters, NEW p \in Principals, NoGain(l, p)
  PROVE  /\ Tokens(l, p)' \in SUBSET Tokens(l, p)
         /\ Cardinality(Tokens(l, p)') \in Nat
         /\ Cardinality(Tokens(l, p)') <= Cardinality(Tokens(l, p))
         /\ Buckets(l, p)' \in SUBSET Buckets(l, p)
         /\ Cardinality(Buckets(l, p)') \in Nat
         /\ Cardinality(Buckets(l, p)') <= Cardinality(Buckets(l, p))
<1>1. heap \in [Ids -> Nat] /\ heap' \in [Ids -> Nat]
  BY DEF Core, OwnInv
<1>2. Tokens(l, p)' \in SUBSET Tokens(l, p)
  <2> SUFFICES ASSUME NEW t \in Tokens(l, p)' PROVE t \in Tokens(l, p)
    OBVIOUS
  <2>1. t \in Ids \X Nat /\ Owns(l, p, t[1])' /\ t[2] >= 1 /\ t[2] <= heap'[t[1]]
    BY DEF Tokens
  <2>2. t[1] \in Ids /\ t[2] \in Nat
    BY <2>1
  <2>3. Owns(l, p, t[1]) /\ t[2] <= heap[t[1]]
    BY <1>1, <2>1, <2>2 DEF NoGain
  <2>4. QED BY <2>1, <2>3 DEF Tokens
<1>3. Buckets(l, p)' \in SUBSET Buckets(l, p)
  BY DEF Buckets, NoGain
<1>4. IsFiniteSet(Tokens(l, p)) /\ IsFiniteSet(Buckets(l, p))
  BY TokensTyped
<1>5. QED BY <1>2, <1>3, <1>4, FS_Subset, FS_CardinalityType

(* Such a step keeps the bound if it lets nobody through and leaves the    *)
(* bucket in the map at least as good as it was, ...                       *)
LEMMA NoGainKeeps ==
  ASSUME Core, Core', NEW l \in Limiters, NEW p \in Principals, AdmitInvOf(l, p), NoGain(l, p),
         Has(l, p)' <=> Has(l, p), Reserve(l, p)' <= Reserve(l, p), Reserve(l, p)' \in Nat,
         admitted'[l][p] = admitted[l][p], lost'[l][p] = lost[l][p], clock' = clock
  PROVE  AdmitInvOf(l, p)'
<1> DEFINE A == Allowance(l, 1 + lost[l][p], clock)
<1>1. /\ Cardinality(Tokens(l, p)') \in Nat
      /\ Cardinality(Tokens(l, p)') <= Cardinality(Tokens(l, p))
      /\ Cardinality(Buckets(l, p)') \in Nat
      /\ Cardinality(Buckets(l, p)') <= Cardinality(Buckets(l, p))
  BY NoGainShrinks
<1>2. /\ Cardinality(Tokens(l, p)) \in Nat /\ Cardinality(Buckets(l, p)) \in Nat
      /\ Reserve(l, p) \in Nat /\ admitted[l][p] \in Nat /\ lost[l][p] \in Nat /\ A \in Nat
  BY TokensTyped, AllowanceGrows
<1>3. admitted[l][p] + Cardinality(Tokens(l, p)) + Reserve(l, p) <= A
  BY DEF AdmitInvOf
<1>4. A' = A
  BY DEF Allowance
<1> HIDE DEF A
<1>5. admitted'[l][p] + Cardinality(Tokens(l, p)') + Reserve(l, p)' <= A'
  BY <1>1, <1>2, <1>3, <1>4
<1>6. Cardinality(Buckets(l, p)') <= IF Has(l, p)' THEN 1 + lost'[l][p] ELSE lost'[l][p]
  BY <1>1, <1>2 DEF AdmitInvOf
<1>7. QED BY <1>5, <1>6 DEF AdmitInvOf, A

(* ... and it keeps it if it counts a bucket as lost.                      *)
LEMMA LossKeeps ==
  ASSUME Core, Core', NEW l \in Limiters, NEW p \in Principals, AdmitInvOf(l, p), NoGain(l, p),
         Has(l, p),
         \/ admitted'[l][p] = admitted[l][p]
         \/ /\ admitted'[l][p] = admitted[l][p] + 1
            /\ Cardinality(Tokens(l, p)') + 1 <= Cardinality(Tokens(l, p)),
         lost'[l][p] = lost[l][p] + 1, clock' = clock
  PROVE  AdmitInvOf(l, p)'
<1> DEFINE A == Allowance(l, 1 + lost[l][p], clock)
           A2 == Allowance(l, (1 + lost[l][p]) + 1, clock)
<1>1. /\ Cardinality(Tokens(l, p)') \in Nat
      /\ Cardinality(Tokens(l, p)') <= Cardinality(Tokens(l, p))
      /\ Cardinality(Buckets(l, p)') \in Nat
      /\ Cardinality(Buckets(l, p)') <= Cardinality(Buckets(l, p))
  BY NoGainShrinks
<1>2. /\ Cardinality(Tokens(l, p)) \in Nat /\ Cardinality(Buckets(l, p)) \in Nat
      /\ Reserve(l, p) \in Nat /\ admitted[l][p] \in Nat /\ lost[l][p] \in Nat
      /\ Burst[l] \in Nat \ {0}
  BY TokensTyped
<1>3. A \in Nat /\ A2 \in Nat /\ A + Burst[l] <= A2
  <2> DEFINE k == 1 + lost[l][p]
  <2>1. k \in Nat \ {0} /\ k + 1 \in Nat \ {0} /\ clock \in Nat
    BY TokensTyped
  <2> HIDE DEF k
  <2>2. /\ Allowance(l, k, clock) \in Nat /\ Allowance(l, k + 1, clock) \in Nat
        /\ Allowance(l, k, clock) + Burst[l] <= Allowance(l, k + 1, clock)
    BY <2>1, AllowanceGrows
  <2>3. QED BY <2>2 DEF k
<1>4. admitted[l][p] + Cardinality(Tokens(l, p)) + Reserve(l, p) <= A
  BY DEF AdmitInvOf
<1>5. A2 = Allowance(l, 1 + lost[l][p], clock)'
  BY <1>2 DEF Allowance
<1>6. Reserve(l, p)' = 0 \/ Reserve(l, p)' = Burst[l]
  BY DEF Reserve
<1> HIDE DEF A, A2
<1>7. admitted'[l][p] + Cardinality(Tokens(l, p)') + Reserve(l, p)' <= A2
  BY <1>1, <1>2, <1>3, <1>4, <1>6
<1>8. Cardinality(Buckets(l, p)') <= IF Has(l, p)' THEN 1 + lost'[l][p] ELSE lost'[l][p]
  BY <1>1, <1>2 DEF AdmitInvOf
<1>9. QED BY <1>5, <1>7, <1>8 DEF AdmitInvOf

(* A step that leaves the bucket in the map alone.                         *)
LEMMA AdmitApart ==
  ASSUME Core, Core', NEW l \in Limiters, NEW p \in Principals, AdmitInvOf(l, p), NoGain(l, p),
         Has(l, p)' <=> Has(l, p),
         Has(l, p) => map'[l][p] = map[l][p] /\ heap'[map[l][p].id] = heap[map[l][p].id],
         admitted'[l][p] = admitted[l][p], lost'[l][p] = lost[l][p], clock' = clock
  PROVE  AdmitInvOf(l, p)'
<1>1. Has(l, p) => (Whole(l, p)' <=> Whole(l, p))
  BY DEF Whole
<1>2. Reserve(l, p)' = Reserve(l, p) /\ Reserve(l, p) \in Nat
  BY <1>1, TokensTyped DEF Reserve
<1>3. QED BY <1>2, NoGainKeeps

(* A lookup by a request that pays elsewhere.                              *)
LEMMA AdmitOtherLookup ==
  ASSUME Core, Core', NEW l \in Limiters, NEW p \in Principals, AdmitInvOf(l, p),
         NEW r \in Requests, NEW k \in Limiters, NEW key \in Principals, Opens(r, k, key),
         k # l \/ key # p, admitted' = admitted
  PROVE  AdmitInvOf(l, p)'
<1> DEFINE b == map'[k][key].id
<1>1. heap \in [Ids -> Nat] /\ lost \in [Limiters -> [Principals -> Nat]]
  BY DEF Core, OwnInv, BaseType
<1>2. ASSUME NEW i \in Ids, Owns(l, p, i) PROVE heap'[i] = heap[i]
  <2>1. heap' = heap \/ (heap' = [heap EXCEPT ![b] = Burst[k]] /\ i # b)
    BY <1>2 DEF Opens
  <2>2. QED BY <1>1, <2>1
<1>3. \A i \in Ids : Owns(l, p, i)' => Owns(l, p, i)
  BY DEF Opens
<1>4. NoGain(l, p)
  BY <1>1, <1>2, <1>3 DEF NoGain
<1>5. /\ Has(l, p)' => Has(l, p) /\ map'[l][p] = map[l][p]
      /\ clock' = clock
      /\ lost'[l][p] = IF Has(l, p) /\ ~Has(l, p)' THEN lost[l][p] + 1 ELSE lost[l][p]
  <2>1. CASE k # l
    <3>1. map'[l] = map[l] /\ clock' = clock /\ lost'[l] = lost[l]
      BY <1>1, <2>1 DEF Opens
    <3>2. QED BY <3>1 DEF Has
  <2>2. CASE k = l
    <3>1. p # key
      BY <2>2
    <3>2. /\ Has(l, p)' => Has(l, p) /\ map'[l][p] = map[l][p]
          /\ clock' = clock
      BY <2>2, <3>1 DEF Has, Opens
    <3>3. lost'[l][p] = IF p \in DOMAIN map[l] \ DOMAIN map'[l] THEN lost[l][p] + 1 ELSE lost[l][p]
      BY <1>1, <2>2 DEF Opens
    <3>4. QED BY <3>2, <3>3 DEF Has
  <2>3. QED BY <2>1, <2>2
<1>6. CASE Has(l, p) /\ ~Has(l, p)'
  BY <1>4, <1>5, <1>6, LossKeeps
<1>7. CASE Has(l, p)' <=> Has(l, p)
  <2>1. Has(l, p) => heap'[map[l][p].id] = heap[map[l][p].id]
    BY <1>2, TokensTyped
  <2>2. QED BY <1>4, <1>5, <1>7, <2>1, AdmitApart
<1>8. QED BY <1>5, <1>6, <1>7

(* A lookup of the key's own bucket.                                       *)
LEMMA AdmitOwnLookup ==
  ASSUME Core, Core', NEW l \in Limiters, NEW p \in Principals, AdmitInvOf(l, p),
         NEW r \in Requests, Opens(r, l, p), admitted' = admitted
  PROVE  AdmitInvOf(l, p)'
<1> DEFINE b == map'[l][p].id
           B == Burst[l]
<1>1. /\ heap \in [Ids -> Nat] /\ heap' \in [Ids -> Nat]
      /\ lost \in [Limiters -> [Principals -> Nat]] /\ clock \in Nat
      /\ IdleTTL \in Nat /\ B <= IdleTTL /\ B \in Nat \ {0}
  BY RateLimiterAssumption DEF Core, OwnInv, BaseType
<1>2. b \in Ids /\ Has(l, p)' /\ clock' = clock /\ map'[l][p].last = clock
  BY DEF Opens, Has
<1>3. lost'[l][p] = lost[l][p]
  BY <1>1, <1>2 DEF Opens, Has
<1>4. Reserve(l, p)' = 0
  <2>1. heap'[b] \in Nat
    BY <1>1, <1>2
  <2>2. heap'[b] + clock + IdleTTL >= clock + B
    BY <1>1, <2>1
  <2>3. Whole(l, p)'
    BY <1>2, <2>2 DEF Whole
  <2>4. QED BY <1>2, <2>3 DEF Reserve
<1>5. CASE Has(l, p)
  <2>1. b = map[l][p].id /\ heap' = heap /\ Owns(l, p, b)
    BY <1>5 DEF Opens, Has, Owns
  <2>2. \A i \in Ids : Owns(l, p, i)' => Owns(l, p, i)
    BY <2>1 DEF Opens
  <2>3. NoGain(l, p)
    BY <1>1, <2>1, <2>2 DEF NoGain
  <2>4. QED BY <1>2, <1>3, <1>4, <1>5, <2>3, NoGainKeeps, TokensTyped
<1>6. CASE ~Has(l, p)
  <2>1. heap' = [heap EXCEPT ![b] = B] /\ ~Owns(l, p, b)
    BY <1>6 DEF Opens, Has
  <2>2. \A i \in Ids : Owns(l, p, i)' => Owns(l, p, i) \/ i = b
    BY DEF Opens
  <2> HIDE DEF b
  <2>3. Buckets(l, p)' \in SUBSET (Buckets(l, p) \cup {b})
    BY <2>2 DEF Buckets
  <2> DEFINE T == Tokens(l, p)
             F == {b} \X (1..B)
  <2>4. Tokens(l, p)' \in SUBSET (T \cup F)
    <3> SUFFICES ASSUME NEW t \in Tokens(l, p)' PROVE t \in T \cup F
      OBVIOUS
    <3>1. t \in Ids \X Nat /\ Owns(l, p, t[1])' /\ t[2] >= 1 /\ t[2] <= heap'[t[1]]
      BY DEF Tokens
    <3>2. t[1] \in Ids /\ t[2] \in Nat /\ t = <<t[1], t[2]>>
      BY <3>1
    <3>3. CASE t[1] = b
      BY <1>1, <1>2, <2>1, <3>1, <3>2, <3>3
    <3>4. CASE t[1] # b
      <4>1. Owns(l, p, t[1]) /\ heap'[t[1]] = heap[t[1]]
        BY <1>1, <2>1, <2>2, <3>1, <3>2, <3>4
      <4>2. QED BY <3>1, <4>1 DEF Tokens
    <3>5. QED BY <3>3, <3>4
  <2>5. /\ Cardinality(Tokens(l, p)) \in Nat /\ Cardinality(Buckets(l, p)) \in Nat
        /\ IsFiniteSet(Tokens(l, p)) /\ IsFiniteSet(Buckets(l, p))
        /\ admitted[l][p] \in Nat /\ lost[l][p] \in Nat
        /\ Allowance(l, 1 + lost[l][p], clock) \in Nat
    BY TokensTyped, AllowanceGrows
  <2>6. Cardinality(Buckets(l, p)') <= Cardinality(Buckets(l, p)) + 1 /\ Cardinality(Buckets(l, p)') \in Nat
    <3>1. IsFiniteSet(Buckets(l, p) \cup {b})
          /\ Cardinality(Buckets(l, p) \cup {b}) <= Cardinality(Buckets(l, p)) + 1
          /\ Cardinality(Buckets(l, p) \cup {b}) \in Nat
      <4>1. /\ IsFiniteSet(Buckets(l, p) \cup {b})
            /\ Cardinality(Buckets(l, p) \cup {b}) =
                 IF b \in Buckets(l, p) THEN Cardinality(Buckets(l, p)) ELSE Cardinality(Buckets(l, p)) + 1
        BY <2>5, FS_AddElement
      <4>2. QED BY <2>5, <4>1
    <3>2. IsFiniteSet(Buckets(l, p)') /\ Cardinality(Buckets(l, p)') <= Cardinality(Buckets(l, p) \cup {b})
      BY <2>3, <3>1, FS_Subset
    <3>3. Cardinality(Buckets(l, p)') \in Nat
      BY <3>2, FS_CardinalityType
    <3>4. QED BY <2>5, <3>1, <3>2, <3>3
  <2>7. Cardinality(Tokens(l, p)') <= Cardinality(T) + B /\ Cardinality(Tokens(l, p)') \in Nat
    <3>1. IsFiniteSet(F) /\ Cardinality(F) = B
      <4>1. IsFiniteSet({b}) /\ Cardinality({b}) = 1
        BY FS_Singleton
      <4>2. IsFiniteSet(1..B) /\ Cardinality(1..B) = B
        <5>1. B \in Nat \ {0}
          BY <1>1
        <5> HIDE DEF B
        <5>2. IsFiniteSet(1..B) /\ Cardinality(1..B) = IF 1 > B THEN 0 ELSE B - 1 + 1
          BY <5>1, FS_Interval
        <5>3. QED BY <5>1, <5>2
      <4>3. IsFiniteSet(F) /\ Cardinality(F) = Cardinality({b}) * Cardinality(1..B)
        BY <4>1, <4>2, FS_Product
      <4>4. QED BY <1>1, <4>1, <4>2, <4>3
    <3> HIDE DEF F, T
    <3>2. IsFiniteSet(T) /\ Cardinality(T) \in Nat
      BY <2>5 DEF T
    <3>3. /\ IsFiniteSet(T \cup F) /\ IsFiniteSet(T \cap F)
          /\ Cardinality(T \cup F) = Cardinality(T) + Cardinality(F) - Cardinality(T \cap F)
      BY <3>1, <3>2, FS_Union, FS_Intersection
    <3>4. Cardinality(T \cap F) \in Nat /\ Cardinality(T \cup F) \in Nat
      BY <3>3, FS_CardinalityType
    <3>5. IsFiniteSet(Tokens(l, p)') /\ Cardinality(Tokens(l, p)') <= Cardinality(T \cup F)
      BY <2>4, <3>3, FS_Subset
    <3>6. Cardinality(Tokens(l, p)') \in Nat
      BY <3>5, FS_CardinalityType
    <3>7. QED BY <1>1, <3>1, <3>2, <3>3, <3>4, <3>5, <3>6
  <2>8. admitted[l][p] + Cardinality(Tokens(l, p)) + B <= Allowance(l, 1 + lost[l][p], clock)
    BY <1>6 DEF AdmitInvOf, Reserve
  <2>9. admitted'[l][p] + Cardinality(Tokens(l, p)') + Reserve(l, p)' <= Allowance(l, 1 + lost[l][p], clock)
    <3> HIDE DEF B
    <3> QED BY <1>1, <1>4, <2>5, <2>7, <2>8
  <2>10. Cardinality(Buckets(l, p)') <= 1 + lost'[l][p]
    <3>1. Cardinality(Buckets(l, p)) <= lost[l][p]
      BY <1>6 DEF AdmitInvOf
    <3>2. QED BY <1>3, <2>5, <2>6, <3>1
  <2>11. QED BY <1>2, <1>3, <2>9, <2>10 DEF AdmitInvOf, Allowance
<1>7. QED BY <1>5, <1>6

(* A draw from somebody else's bucket.                                     *)
LEMMA AdmitOtherDraw ==
  ASSUME Core, Core', NEW l \in Limiters, NEW p \in Principals, AdmitInvOf(l, p),
         NEW r \in Requests, Draws(r), slot[r].limiter # l \/ Payer(slot[r]) # p,
         admitted'[l][p] = admitted[l][p], lost'[l][p] = lost[l][p]
  PROVE  AdmitInvOf(l, p)'
<1>1. heap \in [Ids -> Nat]
  BY DEF Core, OwnInv
<1>2. ASSUME NEW i \in Ids, Owns(l, p, i) PROVE heap'[i] = heap[i]
  <2>1. i # slot[r].bucket
    BY <1>2 DEF Draws
  <2>2. QED BY <1>1, <2>1 DEF Draws
<1>3. NoGain(l, p)
  BY <1>1, <1>2 DEF NoGain, Draws
<1>4. map' = map /\ clock' = clock
  BY DEF Draws
<1>5. Has(l, p) => heap'[map[l][p].id] = heap[map[l][p].id]
  BY <1>2, TokensTyped
<1>6. QED BY <1>3, <1>4, <1>5, AdmitApart DEF Has

(* A token is taken and a request admitted for it.                         *)
LEMMA AdmitOwnDraw ==
  ASSUME Core, Core', NEW l \in Limiters, NEW p \in Principals, AdmitInvOf(l, p),
         NEW r \in Requests, TakeAdmits(r), slot[r].limiter = l, Payer(slot[r]) = p
  PROVE  AdmitInvOf(l, p)'
<1> DEFINE b == slot[r].bucket
           e == map[l][p]
<1>1. /\ heap \in [Ids -> Nat] /\ heap' \in [Ids -> Nat] /\ clock \in Nat
      /\ lost \in [Limiters -> [Principals -> Nat]]
      /\ admitted \in [Limiters -> [Principals -> Nat]]
      /\ IdleTTL \in Nat /\ Burst[l] \in Nat
  BY RateLimiterAssumption DEF Core, OwnInv, BaseType
<1>2. Draws(r) /\ slot[r].pc = "take" /\ heap[b] >= 1
  BY DrawSteps DEF TakeAdmits, Allows
<1>3. l \in {"anon", "client"} /\ LimitKey(slot[r]) = p
  BY <1>2, Flying DEF FlightOK
<1>4. /\ b \in Ids /\ map' = map /\ clock' = clock /\ Owns(l, p, b)
      /\ heap' = [heap EXCEPT ![b] = AfterAllow(@)]
      /\ \A i : Owns(l, p, i)' => Owns(l, p, i)
  BY <1>2 DEF Draws
<1>5. \A i \in Ids : heap'[i] = IF i = b THEN heap[b] - 1 ELSE heap[i]
  BY <1>1, <1>2, <1>4 DEF AfterAllow
<1>6. NoGain(l, p)
  BY <1>1, <1>4, <1>5 DEF NoGain
<1>7. /\ admitted'[l][p] = admitted[l][p] + 1
      /\ lost'[l][p] = IF Late(slot[r]) THEN lost[l][p] + 1 ELSE lost[l][p]
  BY <1>1, <1>3 DEF TakeAdmits
<1> HIDE DEF b
<1>8. /\ Cardinality(Tokens(l, p)') + 1 <= Cardinality(Tokens(l, p))
      /\ Cardinality(Tokens(l, p)') \in Nat
  <2> DEFINE T == Tokens(l, p)
             x == <<b, heap[b]>>
  <2>1. Tokens(l, p)' \in SUBSET Tokens(l, p) /\ IsFiniteSet(Tokens(l, p))
    BY <1>6, NoGainShrinks, TokensTyped
  <2>2. x \in Tokens(l, p)
    BY <1>1, <1>2, <1>4 DEF Tokens, b
  <2>3. x \notin Tokens(l, p)'
    BY <1>1, <1>4, <1>5 DEF Tokens
  <2> HIDE DEF x
  <2>4. Tokens(l, p)' \in SUBSET (Tokens(l, p) \ {x})
    BY <2>1, <2>3
  <2>5. IsFiniteSet(Tokens(l, p) \ {x}) /\ Cardinality(Tokens(l, p) \ {x}) = Cardinality(Tokens(l, p)) - 1
    BY <2>1, <2>2, FS_RemoveElement
  <2>6. IsFiniteSet(Tokens(l, p)') /\ Cardinality(Tokens(l, p)') <= Cardinality(Tokens(l, p) \ {x})
    BY <2>4, <2>5, FS_Subset
  <2>7. Cardinality(Tokens(l, p)') \in Nat /\ Cardinality(Tokens(l, p)) \in Nat
    BY <2>1, <2>6, FS_CardinalityType
  <2>8. QED BY <2>5, <2>6, <2>7
<1>9. CASE Late(slot[r])
  <2>1. Has(l, p)
    BY <1>3, <1>9 DEF Late, Has
  <2>2. QED BY <1>4, <1>6, <1>7, <1>8, <1>9, <2>1, LossKeeps
<1>10. CASE ~Late(slot[r])
  <2>1. Has(l, p)' <=> Has(l, p)
    BY <1>4 DEF Has
  <2>2. ASSUME Has(l, p), Whole(l, p) PROVE Whole(l, p)'
    <3>1. e.id \in Ids /\ e.last \in Nat
      BY <2>2, TokensTyped
    <3>2. CASE e.id # b
      BY <1>4, <1>5, <2>2, <3>1, <3>2 DEF Whole
    <3>3. CASE e.id = b
      <4>1. ~(clock + Burst[l] > e.last + IdleTTL)
        BY <1>3, <1>10, <2>2, <3>3 DEF Late, Has, b
      <4>2. heap'[b] \in Nat
        BY <1>1, <1>4
      <4> HIDE DEF e
      <4>3. heap'[b] + e.last + IdleTTL >= clock + Burst[l]
        BY <1>1, <3>1, <4>1, <4>2
      <4>4. QED BY <1>4, <3>3, <4>3 DEF Whole, e
    <3>4. QED BY <3>2, <3>3
  <2>3. Reserve(l, p)' <= Reserve(l, p) /\ Reserve(l, p)' \in Nat
    BY <1>1, <2>1, <2>2 DEF Reserve
  <2>4. /\ Cardinality(Buckets(l, p)') <= Cardinality(Buckets(l, p))
        /\ Cardinality(Buckets(l, p)') \in Nat
    BY <1>6, NoGainShrinks
  <2>5. /\ Cardinality(Tokens(l, p)) \in Nat /\ Cardinality(Buckets(l, p)) \in Nat
        /\ Reserve(l, p) \in Nat /\ admitted[l][p] \in Nat /\ lost[l][p] \in Nat
        /\ Allowance(l, 1 + lost[l][p], clock) \in Nat
    BY TokensTyped, AllowanceGrows
  <2>6. admitted'[l][p] + Cardinality(Tokens(l, p)') + Reserve(l, p)' <= Allowance(l, 1 + lost[l][p], clock)
    BY <1>7, <1>8, <2>3, <2>5 DEF AdmitInvOf
  <2>7. Cardinality(Buckets(l, p)') <= IF Has(l, p)' THEN 1 + lost'[l][p] ELSE lost'[l][p]
    BY <1>7, <1>10, <2>1, <2>4, <2>5 DEF AdmitInvOf
  <2>8. QED BY <1>4, <1>7, <1>10, <2>6, <2>7 DEF AdmitInvOf, Allowance
<1>11. QED BY <1>9, <1>10

(* A sweep takes a full bucket away, or one that is counted as lost.       *)
LEMMA AdmitSweep ==
  ASSUME Core, Core', NEW l \in Limiters, NEW p \in Principals, AdmitInvOf(l, p),
         NEW k \in Limiters, Sweep(k)
  PROVE  AdmitInvOf(l, p)'
<1> DEFINE e == map[l][p]
           B == Burst[l]
<1>1. /\ UNCHANGED <<clock, heap, slot, admitted>>
      /\ heap \in [Ids -> Nat] /\ lost \in [Limiters -> [Principals -> Nat]] /\ clock \in Nat
      /\ IdleTTL \in Nat /\ B \in Nat \ {0}
  <2>1. UNCHANGED <<clock, heap, slot, admitted>>
    BY DEF Sweep
  <2>2. heap \in [Ids -> Nat] /\ lost \in [Limiters -> [Principals -> Nat]] /\ clock \in Nat
    BY DEF Core, OwnInv, BaseType
  <2>3. IdleTTL \in Nat /\ B \in Nat \ {0}
    BY RateLimiterAssumption
  <2>4. QED BY <2>1, <2>2, <2>3
<1>2. NoGain(l, p)
  <2>1. \A i : Owns(l, p, i)' => Owns(l, p, i)
    BY SweepOwners
  <2>2. QED BY <1>1, <2>1 DEF NoGain
<1>3. CASE k # l
  <2>1. map'[l] = map[l] /\ lost'[l] = lost[l]
    BY <1>1, <1>3, Swept DEF Sweep
  <2>2. QED BY <1>1, <1>2, <2>1, AdmitApart DEF Has
<1>4. CASE k = l
  <2>1. /\ Has(l, p)' <=> Has(l, p) /\ ~(e.last + IdleTTL < clock)
        /\ Has(l, p)' => map'[l][p] = e
    BY <1>4, Swept DEF Has
  <2>2. lost'[l][p] = IF p \in sweep(map[l], clock) /\ e.id \in Held
                      THEN lost[l][p] + 1 ELSE lost[l][p]
    BY <1>1, <1>4 DEF Sweep
  <2>3. CASE Has(l, p)' <=> Has(l, p)
    <3>1. p \notin sweep(map[l], clock)
      BY <2>1, <2>3 DEF Has, sweep
    <3>2. QED BY <1>1, <1>2, <2>1, <2>2, <2>3, <3>1, AdmitApart
  <2>4. CASE Has(l, p) /\ ~Has(l, p)' /\ lost'[l][p] = lost[l][p] + 1
    BY <1>1, <1>2, <2>4, LossKeeps
  <2>5. CASE Has(l, p) /\ ~Has(l, p)' /\ lost'[l][p] = lost[l][p]
    <3>1. e.last + IdleTTL < clock /\ e.id \in Ids /\ e.last \in Nat /\ Owns(l, p, e.id)
      BY <2>1, <2>5, TokensTyped
    <3> PICK m \in Ids : m = e.id
      BY <3>1
    <3>2. p \in sweep(map[l], clock)
      BY <2>5, <3>1 DEF sweep, Has
    <3>3. e.id \notin Held
      BY <1>1, <2>2, <2>5, <3>2
    <3>4. Owns(l, p, m) /\ ~Owns(l, p, m)'
      BY <1>1, <2>5, <3>1, <3>3 DEF Owns, Has, Held, Holders, InFlight, Holding
    <3>5. /\ Tokens(l, p)' \in SUBSET Tokens(l, p) /\ Buckets(l, p)' \in SUBSET Buckets(l, p)
          /\ Cardinality(Tokens(l, p)') \in Nat
          /\ Cardinality(Tokens(l, p)') <= Cardinality(Tokens(l, p))
      BY <1>2, NoGainShrinks
    <3>6. /\ Cardinality(Tokens(l, p)) \in Nat /\ Cardinality(Buckets(l, p)) \in Nat
          /\ IsFiniteSet(Tokens(l, p)) /\ IsFiniteSet(Buckets(l, p))
          /\ admitted[l][p] \in Nat /\ lost[l][p] \in Nat
          /\ Allowance(l, 1 + lost[l][p], clock) \in Nat
      BY TokensTyped, AllowanceGrows
    <3>7. Cardinality(Buckets(l, p)') <= lost[l][p]
      <4>1. m \in Buckets(l, p) /\ m \notin Buckets(l, p)'
        BY <3>4 DEF Buckets
      <4>2. Buckets(l, p)' \in SUBSET (Buckets(l, p) \ {m})
        BY <3>5, <4>1
      <4>3. IsFiniteSet(Buckets(l, p) \ {m})
            /\ Cardinality(Buckets(l, p) \ {m}) = Cardinality(Buckets(l, p)) - 1
        BY <3>6, <4>1, FS_RemoveElement
      <4>4. IsFiniteSet(Buckets(l, p)')
            /\ Cardinality(Buckets(l, p)') <= Cardinality(Buckets(l, p) \ {m})
        BY <4>2, <4>3, FS_Subset
      <4>5. Cardinality(Buckets(l, p)') \in Nat
        BY <4>4, FS_CardinalityType
      <4>6. Cardinality(Buckets(l, p)) <= 1 + lost[l][p]
        BY <2>5 DEF AdmitInvOf
      <4>7. QED BY <3>6, <4>3, <4>4, <4>5, <4>6
    <3>8. Cardinality(Tokens(l, p)') + B <= Cardinality(Tokens(l, p)) + Reserve(l, p)
      <4>1. CASE ~Whole(l, p)
        <5>1. Reserve(l, p) = B
          BY <4>1 DEF Reserve
        <5> HIDE DEF B
        <5>2. QED BY <1>1, <3>5, <3>6, <5>1
      <4>2. CASE Whole(l, p)
        <5> DEFINE F == {m} \X (1..B)
        <5>1. Reserve(l, p) = 0
          BY <2>5, <4>2 DEF Reserve
        <5>2. heap[m] \in Nat /\ heap[m] >= B
          <6>1. heap[m] \in Nat /\ e.last \in Nat /\ e.last + IdleTTL < clock
            BY <1>1, <3>1
          <6>2. heap[m] >= B \/ heap[m] + e.last + IdleTTL >= clock + B
            BY <4>2 DEF Whole
          <6> HIDE DEF e, B
          <6>3. QED BY <1>1, <6>1, <6>2
        <5>3. F \in SUBSET Tokens(l, p)
          <6> SUFFICES ASSUME NEW t \in F PROVE t \in Tokens(l, p)
            OBVIOUS
          <6>1. t[1] = m /\ t[2] \in 1..B /\ t = <<t[1], t[2]>>
            OBVIOUS
          <6>2. QED BY <1>1, <3>4, <5>2, <6>1 DEF Tokens
        <5>4. Tokens(l, p)' \in SUBSET (Tokens(l, p) \ F)
          <6> SUFFICES ASSUME NEW t \in Tokens(l, p)' PROVE t \notin F
            BY <3>5
          <6>1. Owns(l, p, t[1])'
            BY DEF Tokens
          <6>2. QED BY <3>4, <6>1
        <5>5. IsFiniteSet(F) /\ Cardinality(F) = B
          <6>1. IsFiniteSet({m}) /\ Cardinality({m}) = 1
            BY FS_Singleton
          <6>2. IsFiniteSet(1..B) /\ Cardinality(1..B) = B
            <7>1. B \in Nat \ {0}
              BY <1>1
            <7> HIDE DEF B
            <7>2. IsFiniteSet(1..B) /\ Cardinality(1..B) = IF 1 > B THEN 0 ELSE B - 1 + 1
              BY <7>1, FS_Interval
            <7>3. QED BY <7>1, <7>2
          <6>3. IsFiniteSet(F) /\ Cardinality(F) = Cardinality({m}) * Cardinality(1..B)
            BY <6>1, <6>2, FS_Product
          <6>4. QED BY <1>1, <6>1, <6>2, <6>3
        <5> HIDE DEF F
        <5>6. Tokens(l, p) \cap F = F /\ Cardinality(Tokens(l, p) \cap F) = B
          BY <5>3, <5>5
        <5>7. IsFiniteSet(Tokens(l, p) \ F)
              /\ Cardinality(Tokens(l, p) \ F) = Cardinality(Tokens(l, p)) - B
          <6>1. IsFiniteSet(Tokens(l, p))
            BY <3>6
          <6>2. IsFiniteSet(Tokens(l, p) \ F)
                /\ Cardinality(Tokens(l, p) \ F)
                   = Cardinality(Tokens(l, p)) - Cardinality(Tokens(l, p) \cap F)
            BY <5>5, <6>1, FS_Difference
          <6>3. QED BY <5>6, <6>2
        <5>8. Cardinality(Tokens(l, p)') <= Cardinality(Tokens(l, p) \ F)
          BY <5>4, <5>7, FS_Subset
        <5> HIDE DEF B
        <5>9. QED BY <1>1, <3>5, <3>6, <5>1, <5>7, <5>8
      <4>3. QED BY <4>1, <4>2
    <3>9. Reserve(l, p)' = B
      BY <2>5 DEF Reserve
    <3>10. admitted'[l][p] + Cardinality(Tokens(l, p)') + Reserve(l, p)' <= Allowance(l, 1 + lost[l][p], clock)
      <4>1. admitted[l][p] + Cardinality(Tokens(l, p)) + Reserve(l, p) <= Allowance(l, 1 + lost[l][p], clock)
            /\ Reserve(l, p) \in Nat
        BY TokensTyped DEF AdmitInvOf
      <4> HIDE DEF B
      <4>2. QED BY <1>1, <3>5, <3>6, <3>8, <3>9, <4>1
    <3>11. QED BY <1>1, <2>5, <3>7, <3>10 DEF AdmitInvOf, Allowance
  <2>6. QED BY <2>1, <2>2, <2>3, <2>4, <2>5
<1>5. QED BY <1>3, <1>4

(* A tick adds one token to each bucket of a caller.                       *)
LEMMA AdmitTick ==
  ASSUME Core, Core', NEW l \in Limiters, NEW p \in Principals, AdmitInvOf(l, p), Tick
  PROVE  AdmitInvOf(l, p)'
<1> DEFINE B == Burst[l]
           e == map[l][p]
<1>1. /\ UNCHANGED <<map, slot, admitted, lost>> /\ clock' = clock + 1
      /\ heap \in [Ids -> Nat] /\ heap' \in [Ids -> Nat] /\ clock \in Nat
      /\ IdleTTL \in Nat /\ B \in Nat \ {0}
  <2>1. UNCHANGED <<map, slot, admitted, lost>> /\ clock' = clock + 1
    BY DEF Tick, observers
  <2>2. heap \in [Ids -> Nat] /\ heap' \in [Ids -> Nat] /\ clock \in Nat
    BY Ticked DEF Core, OwnInv, BaseType
  <2>3. IdleTTL \in Nat /\ B \in Nat \ {0}
    BY RateLimiterAssumption
  <2>4. QED BY <2>1, <2>2, <2>3
<1>2. \A i : Owns(l, p, i)' <=> Owns(l, p, i)
  BY <1>1 DEF Owns, Holders, InFlight, Payer
<1>3. \A i \in Ids : Owns(l, p, i) => heap'[i] = IF heap[i] < B THEN heap[i] + 1 ELSE heap[i]
  BY Ticked DEF Refilled
<1>4. Buckets(l, p)' = Buckets(l, p) /\ (Has(l, p)' <=> Has(l, p))
  BY <1>1, <1>2 DEF Buckets, Has
<1>5. Reserve(l, p)' <= Reserve(l, p) /\ Reserve(l, p)' \in Nat
  <2>1. ASSUME Has(l, p), Whole(l, p) PROVE Whole(l, p)'
    <3>1. e.id \in Ids /\ e.last \in Nat /\ Owns(l, p, e.id)
      BY <2>1, TokensTyped
    <3>2. heap'[e.id] = IF heap[e.id] < B THEN heap[e.id] + 1 ELSE heap[e.id]
      BY <1>3, <3>1
    <3>3. heap[e.id] \in Nat
      BY <1>1, <3>1
    <3>4. heap[e.id] >= B \/ heap[e.id] + e.last + IdleTTL >= clock + B
      BY <2>1 DEF Whole
    <3>5. heap'[e.id] >= B \/ heap'[e.id] + e.last + IdleTTL >= clock + 1 + B
      <4> HIDE DEF B, e
      <4> QED BY <1>1, <3>1, <3>2, <3>3, <3>4
    <3>6. QED BY <1>1, <3>5 DEF Whole
  <2>2. QED BY <1>1, <1>4, <2>1 DEF Reserve
<1>6. /\ Cardinality(Tokens(l, p)) \in Nat /\ Cardinality(Buckets(l, p)) \in Nat
      /\ IsFiniteSet(Tokens(l, p)) /\ IsFiniteSet(Buckets(l, p))
      /\ admitted[l][p] \in Nat /\ lost[l][p] \in Nat /\ Reserve(l, p) \in Nat
  BY TokensTyped
<1>7. /\ Cardinality(Tokens(l, p)') <= Cardinality(Tokens(l, p)) + Cardinality(Buckets(l, p))
      /\ Cardinality(Tokens(l, p)') \in Nat
  <2> DEFINE f == [i \in Buckets(l, p) |-> <<i, heap[i] + 1>>]
             G == {f[i] : i \in Buckets(l, p)}
             T == Tokens(l, p)
  <2>1. IsFiniteSet(G) /\ Cardinality(G) <= Cardinality(Buckets(l, p))
    <3>1. f \in Surjection(Buckets(l, p), G)
      BY DEF Surjection
    <3> HIDE DEF f, G
    <3>2. QED BY <1>6, <3>1, FS_Surjection
  <2>2. Tokens(l, p)' \in SUBSET (T \cup G)
    <3> SUFFICES ASSUME NEW t \in Tokens(l, p)' PROVE t \in T \cup G
      OBVIOUS
    <3>1. t \in Ids \X Nat /\ Owns(l, p, t[1])' /\ t[2] >= 1 /\ t[2] <= heap'[t[1]]
      BY DEF Tokens
    <3>2. t[1] \in Ids /\ t[2] \in Nat /\ t = <<t[1], t[2]>> /\ Owns(l, p, t[1])
      BY <1>2, <3>1
    <3>3. heap'[t[1]] <= heap[t[1]] + 1 /\ heap[t[1]] \in Nat /\ heap'[t[1]] \in Nat
      BY <1>1, <1>3, <3>2
    <3>4. CASE t[2] <= heap[t[1]]
      BY <3>1, <3>2, <3>4 DEF Tokens
    <3>5. CASE t[2] = heap[t[1]] + 1
      <4>1. t[1] \in Buckets(l, p) /\ t = f[t[1]]
        BY <3>2, <3>5 DEF Buckets
      <4>2. QED BY <4>1
    <3>6. QED BY <3>1, <3>2, <3>3, <3>4, <3>5
  <2> HIDE DEF G, T
  <2>3. IsFiniteSet(T) /\ Cardinality(T) \in Nat
    BY <1>6 DEF T
  <2>4. /\ IsFiniteSet(T \cup G) /\ IsFiniteSet(T \cap G)
        /\ Cardinality(T \cup G) = Cardinality(T) + Cardinality(G) - Cardinality(T \cap G)
    BY <2>1, <2>3, FS_Union, FS_Intersection
  <2>5. Cardinality(T \cap G) \in Nat /\ Cardinality(T \cup G) \in Nat /\ Cardinality(G) \in Nat
    BY <2>1, <2>4, FS_CardinalityType
  <2>6. IsFiniteSet(Tokens(l, p)') /\ Cardinality(Tokens(l, p)') <= Cardinality(T \cup G)
    BY <2>2, <2>4, FS_Subset
  <2>7. Cardinality(Tokens(l, p)') \in Nat
    BY <2>6, FS_CardinalityType
  <2>8. QED BY <1>6, <2>1, <2>3, <2>4, <2>5, <2>6, <2>7 DEF T
<1>8. Cardinality(Buckets(l, p)) <= 1 + lost[l][p]
  BY <1>6 DEF AdmitInvOf
<1>9. /\ Allowance(l, 1 + lost[l][p], clock + 1) = Allowance(l, 1 + lost[l][p], clock) + (1 + lost[l][p])
      /\ Allowance(l, 1 + lost[l][p], clock) \in Nat
  <2> DEFINE k == 1 + lost[l][p]
  <2>1. k \in Nat \ {0}
    BY <1>6
  <2> HIDE DEF k
  <2>2. Allowance(l, k, clock + 1) = Allowance(l, k, clock) + k /\ Allowance(l, k, clock) \in Nat
    BY <1>1, <2>1, AllowanceGrows
  <2>3. QED BY <2>2 DEF k
<1>10. admitted[l][p] + Cardinality(Tokens(l, p)') + Reserve(l, p)' <= Allowance(l, 1 + lost[l][p], clock + 1)
  <2>1. admitted[l][p] + Cardinality(Tokens(l, p)) + Reserve(l, p) <= Allowance(l, 1 + lost[l][p], clock)
    BY DEF AdmitInvOf
  <2>2. QED BY <1>5, <1>6, <1>7, <1>8, <1>9, <2>1
<1>11. QED BY <1>1, <1>4, <1>10 DEF AdmitInvOf, Allowance

(* Nobody was let through when the gate opens.                             *)
LEMMA AdmitInit == Init => AdmitInv
<1> SUFFICES ASSUME Init, NEW l \in Limiters, NEW p \in Principals PROVE AdmitInvOf(l, p)
  BY DEF AdmitInv, Limiters
<1>1. \A i : ~Owns(l, p, i)
  BY DEF Init, Idle, Owns, EmptyMap, Holders, InFlight, Holding
<1>2. Tokens(l, p) = {} /\ Buckets(l, p) = {}
  BY <1>1 DEF Tokens, Buckets
<1>3. ~Has(l, p) /\ admitted[l][p] = 0 /\ lost[l][p] = 0 /\ clock = 0
  BY DEF Init, Has, EmptyMap
<1>4. Burst[l] \in Nat \ {0}
  BY RateLimiterAssumption
<1>5. QED BY <1>2, <1>3, <1>4, FS_EmptySet DEF AdmitInvOf, Reserve, Allowance

(* Every step preserves the bound on admissions.                           *)
LEMMA AdmitStep == Core /\ Core' /\ AdmitInv /\ [Next]_vars => AdmitInv'
<1> SUFFICES ASSUME Core, Core', AdmitInv, [Next]_vars, NEW l \in {"anon", "client"},
                    NEW p \in Principals
             PROVE  AdmitInvOf(l, p)'
  BY DEF AdmitInv
<1>1. AdmitInvOf(l, p) /\ l \in Limiters /\ l # "fail"
  BY DEF AdmitInv, Limiters
<1>2. ASSUME UNCHANGED <<map, heap, clock, admitted, lost>>,
             \A k \in Limiters : \A o, i : Owns(k, o, i)' => Owns(k, o, i)
      PROVE  AdmitInvOf(l, p)'
  <2>1. NoGain(l, p)
    <3>1. heap \in [Ids -> Nat]
      BY DEF Core, OwnInv
    <3>2. ASSUME NEW i \in Ids, Owns(l, p, i)' PROVE Owns(l, p, i) /\ heap'[i] <= heap[i]
      BY <1>1, <1>2, <3>1, <3>2
    <3>3. QED BY <3>2 DEF NoGain
  <2>2. QED BY <1>1, <1>2, <2>1, AdmitApart DEF Has
<1>3. CASE vars' = vars \/ \E k \in Keys : EditKey(k)
  <2>1. Still
    BY <1>3, StillSteps
  <2>2. QED BY <1>2, <2>1 DEF Still
<1>4. CASE \E k \in Limiters : Sweep(k)
  BY <1>1, <1>4, AdmitSweep
<1>5. ASSUME NEW r \in Requests, Quiet(r) PROVE AdmitInvOf(l, p)'
  BY <1>2, <1>5 DEF Quiet
<1>6. ASSUME NEW r \in Requests, NEW k \in Limiters, NEW key \in Principals, Opens(r, k, key),
             admitted' = admitted
      PROVE  AdmitInvOf(l, p)'
  BY <1>1, <1>6, AdmitOtherLookup, AdmitOwnLookup
<1>7. "fail" \in Limiters /\ "anon" \in Limiters /\ "client" \in Limiters
      /\ \A a \in Addresses : a \in Principals
  BY DEF Limiters, Principals
<1>8. ASSUME NEW r \in Requests, Arrive(r) PROVE AdmitInvOf(l, p)'
  <2>1. Opens(r, "fail", slot'[r].q.real) /\ slot'[r].q.real \in Addresses /\ admitted' = admitted
    BY <1>8, CoreArrive
  <2>2. QED BY <1>6, <1>7, <2>1
<1>9. ASSUME NEW r \in Requests, AuthRefuses(r) PROVE AdmitInvOf(l, p)'
  <2>1. Opens(r, "fail", slot[r].q.real) /\ slot[r].q.real \in Addresses /\ admitted' = admitted
    BY <1>9, CoreAuthRefuses
  <2>2. QED BY <1>6, <1>7, <2>1
<1>10. ASSUME NEW r \in Requests, Limit(r) PROVE AdmitInvOf(l, p)'
  <2>1. Opens(r, slot[r].limiter, Payer(slot[r])) /\ Payer(slot[r]) \in Principals
        /\ slot[r].limiter \in {"anon", "client"} /\ admitted' = admitted
    BY <1>10, CoreLimit
  <2>2. QED BY <1>6, <1>7, <2>1
<1>11. ASSUME NEW r \in Requests, Penalize(r) PROVE AdmitInvOf(l, p)'
  <2>1. Draws(r) /\ UNCHANGED <<admitted, lost>> /\ slot[r].pc = "penalize"
    BY <1>11, DrawSteps DEF Penalize, observers
  <2>2. slot[r].limiter = "fail"
    BY <2>1, Flying DEF FlightOK
  <2>3. QED BY <1>1, <2>1, <2>2, AdmitOtherDraw
<1>12. ASSUME NEW r \in Requests, TakeAdmits(r) PROVE AdmitInvOf(l, p)'
  <2>1. Draws(r) /\ slot[r].pc = "take"
    BY <1>12, DrawSteps DEF TakeAdmits
  <2>2. CASE slot[r].limiter = l /\ Payer(slot[r]) = p
    BY <1>1, <1>12, <2>2, AdmitOwnDraw
  <2>3. CASE slot[r].limiter # l \/ Payer(slot[r]) # p
    <3> DEFINE k == slot[r].limiter
               o == LimitKey(slot[r])
    <3>1. o = Payer(slot[r]) /\ k \in Limiters /\ o \in Principals
      BY <2>1, Flying DEF FlightOK, Limiters
    <3>2. /\ admitted \in [Limiters -> [Principals -> Nat]]
          /\ lost \in [Limiters -> [Principals -> Nat]]
      BY DEF Core, BaseType
    <3>3. /\ admitted' = [admitted EXCEPT ![k][o] = @ + 1]
          /\ lost' = lost \/ lost' = [lost EXCEPT ![k][o] = @ + 1]
      BY <1>12 DEF TakeAdmits
    <3>4. k # l \/ o # p
      BY <2>3, <3>1
    <3> HIDE DEF k, o
    <3>5. admitted'[l][p] = admitted[l][p] /\ lost'[l][p] = lost[l][p]
      BY <1>1, <3>1, <3>2, <3>3, <3>4
    <3>6. QED BY <1>1, <2>1, <2>3, <3>5, AdmitOtherDraw
  <2>4. QED BY <2>2, <2>3
<1>13. CASE Tick
  BY <1>1, <1>13, AdmitTick
<1>14. ASSUME NEW r \in Requests,
              \/ TurnAway(r) \/ PeekPasses(r) \/ PeekRefuses(r) \/ PublicPath(r)
              \/ AuthAdmits(r) \/ PassBy(r) \/ TakeRefuses(r) \/ Run(r) \/ Deny(r) \/ Respond(r)
       PROVE  AdmitInvOf(l, p)'
  BY <1>5, <1>14, QuietSteps
<1>15. QED BY <1>3, <1>4, <1>8, <1>9, <1>10, <1>11, <1>12, <1>13, <1>14 DEF Next

(* What a limiter lets through for one caller is the burst and one for     *)
(* each tick, whenever the janitor runs and however requests overlap, as   *)
(* long as no bucket is dropped in use or drawn from late: AdmitBound      *)
(* (keyedrate.go) for every burst, cap, idle time and number of requests.  *)
THEOREM AdmissionsBounded == Spec => []AdmitBound
<1>1. Init => AdmitInv
  BY AdmitInit
<1>2. Core /\ Core' /\ AdmitInv /\ [Next]_vars => AdmitInv'
  BY AdmitStep
<1>3. Core /\ AdmitInv => AdmitBound
  <2> SUFFICES ASSUME Core, AdmitInv, NEW l \in {"anon", "client"}, NEW p \in Principals
               PROVE  admitted[l][p] <= Allowance(l, 1 + lost[l][p], clock)
    BY DEF AdmitBound, Allowance
  <2>1. admitted[l][p] + Cardinality(Tokens(l, p)) + Reserve(l, p)
          <= Allowance(l, 1 + lost[l][p], clock)
    BY DEF AdmitInv, AdmitInvOf
  <2>2. /\ admitted[l][p] \in Nat /\ Cardinality(Tokens(l, p)) \in Nat /\ Reserve(l, p) \in Nat
        /\ Allowance(l, 1 + lost[l][p], clock) \in Nat
    BY TokensTyped, AllowanceGrows DEF Limiters
  <2>3. QED BY <2>1, <2>2
<1>4. QED BY <1>1, <1>2, <1>3, AlwaysCore, PTL DEF Spec
=============================================================================
