-------------------------- MODULE Lifecycle_proofs --------------------------
(***************************************************************************)
(* Proofs about Lifecycle, for every set of environments, any number of    *)
(* requests and any faults of the node: run releases what it opened, in    *)
(* an order that closes nothing under its users, and serves only what the  *)
(* configuration guards.                                                   *)
(***************************************************************************)
EXTENDS Lifecycle, SequenceTheorems, TLAPS

(* What run opens, and its place in the order of opening.  The key set and *)
(* the key pool are alternatives.                                          *)
Parts == {"context", "telemetry", "jwks", "keyPool", "evm", "health", "pool", "admin",
          "limiters", "keyRequest"}

Rank(r) ==
    IF r = "context" THEN 1 ELSE IF r = "telemetry" THEN 2
    ELSE IF r \in {"jwks", "keyPool"} THEN 3 ELSE IF r = "evm" THEN 4
    ELSE IF r = "health" THEN 5 ELSE IF r = "pool" THEN 6 ELSE IF r = "admin" THEN 7
    ELSE IF r = "limiters" THEN 8 ELSE 9

(* Every part that is on the stack at a step of run is of a lower rank.    *)
Stage(step) ==
    IF step \in {"load", "flag", "exited"} THEN 1 ELSE IF step = "telemetry" THEN 2
    ELSE IF step \in {"auth", "count", "recount"} THEN 3 ELSE IF step = "evm" THEN 4
    ELSE IF step = "health" THEN 5
    ELSE IF step \in {"pending", "audit", "purge", "admin", "closeAudit"} THEN 6
    ELSE IF step = "limiters" THEN 8 ELSE IF step = "keyRequest" THEN 9 ELSE 10

(* A stack in the order of opening, with parts below a rank, ...           *)
Ordered(d, n) ==
    /\ d \in Seq(Parts)
    /\ \A i, j \in 1..Len(d) : i < j => Rank(d[i]) < Rank(d[j])
    /\ \A i \in 1..Len(d) : Rank(d[i]) < n

(* ... and what it lists.                                                  *)
Listed(d) == {d[i] : i \in 1..Len(d)}

(* The parts whose cleanup is owed.                                        *)
Owed == Listed(defers)

(* Two pools are open before a stack says so: the key pool between its     *)
(* opening and the end of loadPostgresKeyStore, and the audit pool as long *)
(* as startAuditAndAdmin has not returned.                                 *)
Unlisted ==
    IF pc \in {"count", "recount"} THEN {"keyPool"}
    ELSE IF pc \in {"purge", "admin", "closeAudit"} /\ cfg.audit THEN {"pool"} ELSE {}

(* What a health server that was closed too early leaves behind.           *)
Leftover ==
    IF health = "missed" THEN {"listener"} ELSE IF health = "leaked" THEN {"probe"} ELSE {}

(* The stack lists, in the order of opening, exactly what is open but for  *)
(* these.                                                                  *)
StackInv ==
    /\ Ordered(defers, Stage(pc))
    /\ live = (Owed \cup Unlisted) \cup Leftover

(* The health goroutine is not there before the step that starts it, and   *)
(* has not missed a Close that is still owed.                              *)
HealthInv ==
    /\ pc \in {"load", "flag", "telemetry", "auth", "count", "recount", "evm", "health"}
          => health = "none"
    /\ "health" \in live => health \in {"spawned", "serving"}

(* The order of a stack survives an append of a higher part, ...           *)
LEMMA AppendKeeps ==
  ASSUME NEW d, NEW n \in Nat, NEW m \in Nat, Ordered(d, n), NEW r \in Parts,
         n <= Rank(r), Rank(r) < m
  PROVE  Ordered(Append(d, r), m) /\ Listed(Append(d, r)) = Listed(d) \cup {r}
<1> DEFINE e == Append(d, r)
<1>1. /\ e \in Seq(Parts) /\ Len(e) = Len(d) + 1
      /\ \A i \in 1..Len(d) : e[i] = d[i]
      /\ e[Len(d) + 1] = r /\ Len(d) \in Nat
  BY DEF Ordered
<1>2. \A i \in 1..Len(d) : Rank(d[i]) < Rank(r)
  BY DEF Ordered, Rank
<1> HIDE DEF e
<1>3. \A i, j \in 1..Len(e) : i < j => Rank(e[i]) < Rank(e[j])
  BY <1>1, <1>2 DEF Ordered
<1>4. \A i \in 1..Len(e) : Rank(e[i]) < m
  BY <1>1, <1>2 DEF Rank
<1>5. Listed(e) = Listed(d) \cup {r}
  BY <1>1 DEF Listed
<1>6. QED
  BY <1>1, <1>3, <1>4, <1>5 DEF Ordered, e

(* ... and a cleanup takes the highest part off it.                        *)
LEMMA PopKeeps ==
  ASSUME NEW d, NEW n \in Nat, Ordered(d, n), d # <<>>
  PROVE  /\ Ordered(Front(d), n)
         /\ Listed(Front(d)) = Listed(d) \ {Last(d)}
         /\ Last(d) \in Listed(d)
         /\ \A p \in Listed(Front(d)) : Rank(p) < Rank(Last(d))
<1> DEFINE l == Len(d)
           e == Front(d)
<1>1. l \in Nat /\ l > 0 /\ Last(d) = d[l] /\ d \in Seq(Parts)
  BY DEF Ordered, Last
<1>2. e \in Seq(Parts) /\ Len(e) = l - 1 /\ \A i \in 1..(l - 1) : e[i] = d[i]
  <2>1. e = SubSeq(d, 1, l - 1)
    BY DEF Front
  <2>2. 1 \in Int /\ l - 1 \in Int /\ \A i \in 1..(l - 1) : d[i] \in Parts
    BY <1>1
  <2> HIDE DEF l, e
  <2>3. /\ e \in Seq(Parts)
        /\ Len(e) = IF 1 <= l - 1 THEN (l - 1) - 1 + 1 ELSE 0
        /\ \A i \in 1..((l - 1) - 1 + 1) : e[i] = d[1 + i - 1]
    BY <2>1, <2>2, SubSeqProperties
  <2>4. QED
    BY <1>1, <2>3
<1> HIDE DEF e
<1>3. \A i \in 1..(l - 1) : Rank(d[i]) < Rank(d[l])
  BY <1>1 DEF Ordered
<1>4. \A i \in 1..(l - 1) : d[i] # d[l]
  BY <1>3 DEF Rank
<1>5. Listed(e) = Listed(d) \ {Last(d)}
  BY <1>1, <1>2, <1>4 DEF Listed
<1>6. Ordered(e, n)
  BY <1>1, <1>2 DEF Ordered
<1>7. \A p \in Listed(e) : Rank(p) < Rank(Last(d))
  BY <1>1, <1>2, <1>3 DEF Listed
<1>8. Last(d) \in Listed(d)
  BY <1>1 DEF Listed
<1>9. QED
  BY <1>5, <1>6, <1>7, <1>8 DEF e

(* A step that opens a part of the next rank keeps the stack.              *)
LEMMA OpenKeeps ==
  ASSUME StackInv, NEW r \in Parts, NEW next, Open(r, next),
         Stage(pc) <= Rank(r), Rank(r) < Stage(next),
         {pc, next} \cap {"count", "recount", "purge", "admin", "closeAudit"} = {},
         Leftover' = Leftover
  PROVE  StackInv'
<1>1. /\ defers' = Append(defers, r) /\ pc' = next /\ live' = live \cup {r}
      /\ Unlisted = {} /\ Unlisted' = {}
  BY DEF Open, Unlisted
<1>2. Stage(pc) \in Nat /\ Stage(next) \in Nat
  BY DEF Stage
<1>3. Ordered(defers', Stage(next)) /\ Listed(defers') = Listed(defers) \cup {r}
  BY <1>1, <1>2, AppendKeeps DEF StackInv
<1>4. QED
  BY <1>1, <1>3 DEF StackInv, Owed

(* So does a step that opens nothing and goes forward.                     *)
LEMMA SkipKeeps ==
  ASSUME StackInv, UNCHANGED <<live, defers>>, Stage(pc) <= Stage(pc'), Unlisted' = Unlisted,
         Leftover' = Leftover
  PROVE  StackInv'
<1>1. \A i \in 1..Len(defers) : Rank(defers[i]) < Stage(pc')
  BY DEF StackInv, Ordered, Stage, Rank
<1>2. Ordered(defers', Stage(pc'))
  BY <1>1 DEF StackInv, Ordered
<1>3. QED
  BY <1>2 DEF StackInv, Owed

(* What every step of a goroutine and of the environment leaves alone.     *)
LEMMA MainUntouched ==
  ASSUME [Next]_vars, ~Boot, ~Stop, ~Eof, ~ListenerFails, ~Signal, ~HealthLate
  PROVE  MainUnchanged
BY DEF Next, vars, MainUnchanged, Goroutines, Environment, HealthStart, ProbePing, ProbeHead,
   AdminStart, PurgeDone, QueryDone, Respond, NodeChanges, Hang, PurgeQuery, Handle, Query

(* Nothing but the health goroutine and its cleanup touches its state.     *)
LEMMA HealthUntouched ==
  ASSUME [Next]_vars, ~Health, ~HealthStart, ~HealthLate, ~Unwind
  PROVE  health' = health
<1> USE DEF goroutines, Quiet, MainUnchanged
<1>1. CASE Boot
  BY <1>1 DEF Boot, Load, ApplyFlag, Telemetry, AuthFusion, AuthKeys, AuthPool, Count, Recount,
     Evm, Pending, Audit, StartPurge, StartAdmin, Limiters, KeyRequest, Serve
<1>2. CASE Stop
  BY <1>2 DEF Stop, Shutdown, Drain, CloseAudit, Exit
<1>3. CASE Goroutines
  BY <1>3 DEF Goroutines, ProbePing, ProbeHead, AdminStart, PurgeDone, QueryDone, Respond
<1>4. CASE Environment
  BY <1>4 DEF Environment, Signal, Eof, ListenerFails, NodeChanges, Hang, PurgeQuery, Handle, Query
<1>5. QED
  BY <1>1, <1>2, <1>3, <1>4 DEF Next, vars

(* Every step keeps the relation of the goroutine to its server.           *)
LEMMA HealthStep == HealthInv /\ [Next]_vars => HealthInv'
<1> SUFFICES ASSUME HealthInv, [Next]_vars PROVE HealthInv'
  OBVIOUS
<1> USE DEF HealthInv
<1>1. CASE Health
  BY <1>1 DEF Health, Open, Fail, Skip
<1>2. CASE HealthStart \/ HealthLate
  BY <1>2 DEF HealthStart, HealthLate, MainUnchanged
<1>3. CASE Unwind
  BY <1>3 DEF Unwind, Release, Unclosed
<1>4. ASSUME ~Health, ~HealthStart, ~HealthLate, ~Unwind PROVE HealthInv'
  <2>1. health' = health
    BY <1>4, HealthUntouched
  <2>2. /\ "health" \in live' => "health" \in live
        /\ pc' \in {"load", "flag", "telemetry", "auth", "count", "recount", "evm", "health"}
              => pc \in {"load", "flag", "telemetry", "auth", "count", "recount", "evm", "health"}
    <3> USE DEF Fail, Skip, Open, Refuse
    <3>1. CASE Load
      BY <3>1 DEF Load
    <3>0. ASSUME NEW flag \in FlagValues, ApplyFlag(flag)
          PROVE  pc = "flag" /\ ("health" \in live' => "health" \in live)
      <4>1. live' = live \/ live' = {"context"}
        BY <3>0 DEF ApplyFlag
      <4>2. QED
        BY <3>0, <4>1 DEF ApplyFlag
    <3>2. CASE Telemetry \/ AuthFusion \/ AuthKeys \/ AuthPool \/ Count \/ Recount \/ Evm
      BY <3>2 DEF Telemetry, AuthFusion, AuthKeys, AuthPool, Count, Recount, Evm
    <3>3. CASE Pending \/ Audit \/ StartPurge \/ StartAdmin \/ Limiters \/ KeyRequest \/ Serve
      BY <3>3 DEF Pending, Audit, StartPurge, StartAdmin, Limiters, KeyRequest, Serve
    <3>4. CASE Stop
      BY <1>4, <3>4 DEF Stop, Shutdown, Drain, CloseAudit, Exit
    <3>5. CASE Eof \/ ListenerFails \/ Signal
      BY <3>5 DEF Eof, ListenerFails, Signal
    <3>6. CASE MainUnchanged
      BY <3>6 DEF MainUnchanged
    <3>7. QED
      BY <1>4, <3>1, <3>2, <3>3, <3>4, <3>5, <3>6, <3>0, MainUntouched DEF Boot
  <2>3. QED
    BY <2>1, <2>2
<1>5. QED
  BY <1>1, <1>2, <1>3, <1>4

(* Every step keeps the stack.                                             *)
LEMMA StackStep == StackInv /\ HealthInv /\ [Next]_vars => StackInv'
<1> SUFFICES ASSUME StackInv, HealthInv, [Next]_vars PROVE StackInv'
  OBVIOUS
<1>a. ~Health /\ ~HealthStart /\ ~HealthLate /\ ~Unwind => Leftover' = Leftover
  BY HealthUntouched DEF Leftover
<1> USE DEF Stage, Rank, Unlisted, Fail, Skip
<1>1. CASE Load
  BY <1>1, SkipKeeps DEF Load, Refuse, goroutines, Leftover
<1>2. ASSUME NEW flag \in FlagValues, ApplyFlag(flag) PROVE StackInv'
  <2>0. pc = "flag" /\ Leftover = {} /\ Leftover' = {}
    BY <1>2 DEF ApplyFlag, HealthInv, goroutines, Leftover
  <2>1. CASE pc' = "telemetry" /\ defers' = <<"context">> /\ live' = {"context"}
    BY <2>0, <2>1 DEF StackInv, Ordered, Owed, Listed, Parts
  <2>2. CASE Refuse
    BY <2>0, <2>2, SkipKeeps DEF Refuse
  <2>3. QED
    BY <1>2, <2>1, <2>2 DEF ApplyFlag
<1>3. CASE Telemetry
  BY <1>3, OpenKeeps, SkipKeeps DEF Telemetry, Parts, Quiet, goroutines, Leftover
<1>4. CASE AuthFusion
  BY <1>4, OpenKeeps, SkipKeeps DEF AuthFusion, Parts, goroutines, Leftover
<1>5. CASE AuthKeys
  BY <1>5, SkipKeeps DEF AuthKeys, goroutines, Leftover
<1>6. CASE AuthPool
  <2>0. Leftover' = Leftover /\ pc = "auth"
    BY <1>6 DEF AuthPool, Quiet, goroutines, Leftover
  <2>1. CASE Fail
    BY <2>0, <2>1, SkipKeeps
  <2>2. CASE pc' = "count" /\ live' = live \cup {"keyPool"} /\ UNCHANGED defers
    BY <2>0, <2>2 DEF StackInv, Ordered, Owed, Listed
  <2>3. QED
    BY <1>6, <2>1, <2>2 DEF AuthPool
<1>7. CASE Count
  <2>0. Leftover' = Leftover /\ pc = "count"
    BY <1>7 DEF Count, Quiet, goroutines, Leftover
  <2>1. CASE Skip("recount")
    BY <2>0, <2>1, SkipKeeps
  <2>2. CASE pc' = "unwind" /\ live' = live \ {"keyPool"} /\ UNCHANGED defers
    <3>1. "keyPool" \notin Owed /\ "keyPool" \notin Leftover
      BY <2>0 DEF StackInv, Ordered, Owed, Listed, Leftover
    <3>2. Ordered(defers, Stage(pc'))
      BY <2>0, <2>2 DEF StackInv, Ordered
    <3>3. QED
      BY <2>0, <2>2, <3>1, <3>2 DEF StackInv, Owed
  <2>3. QED
    BY <1>7, <2>1, <2>2 DEF Count
<1>8. CASE Recount
  <2>1. /\ pc = "recount" /\ pc' = "evm" /\ defers' = Append(defers, "keyPool") /\ live' = live
        /\ Leftover' = Leftover
    BY <1>8 DEF Recount, goroutines, Leftover
  <2>2. Ordered(defers, 3) /\ "keyPool" \in Parts
    BY <2>1 DEF StackInv, Parts
  <2>3. Ordered(defers', 4) /\ Listed(defers') = Listed(defers) \cup {"keyPool"}
    BY <2>1, <2>2, AppendKeeps
  <2>4. QED
    BY <2>1, <2>3 DEF StackInv, Owed
<1>9. CASE Evm
  BY <1>9, OpenKeeps, SkipKeeps DEF Evm, Parts, Quiet, goroutines, Leftover
<1>10. CASE Health
  <2>1. pc = "health" /\ Leftover = {} /\ Leftover' = {}
    BY <1>10 DEF Health, HealthInv, Leftover
  <2>2. QED
    BY <1>10, <2>1, OpenKeeps, SkipKeeps DEF Health, Parts
<1>11. CASE Pending
  BY <1>11, SkipKeeps DEF Pending, Quiet, goroutines, Leftover
<1>12. CASE Audit
  <2>0. Leftover' = Leftover /\ pc = "audit" /\ cfg' = cfg
    BY <1>12 DEF Audit, Quiet, goroutines, Leftover
  <2>1. CASE Fail \/ (~cfg.audit /\ Skip("purge"))
    BY <2>0, <2>1, SkipKeeps
  <2>2. CASE cfg.audit /\ pc' = "purge" /\ live' = live \cup {"pool"} /\ UNCHANGED defers
    BY <2>0, <2>2 DEF StackInv, Ordered, Owed, Listed
  <2>3. QED
    BY <1>12, <2>1, <2>2 DEF Audit
<1>13. CASE StartPurge
  BY <1>13, SkipKeeps DEF StartPurge, Leftover
<1>14. CASE StartAdmin
  <2>0. /\ Leftover' = Leftover /\ pc = "admin" /\ cfg' = cfg
        /\ Ordered(defers, 6) /\ {"pool", "admin"} \subseteq Parts
    BY <1>14 DEF StartAdmin, Leftover, StackInv, Parts
  <2> DEFINE d == defers \o AuditCleanup
  <2>1. Ordered(d, 7) /\ Listed(d) = Owed \cup Unlisted
    <3>1. CASE cfg.audit
      <4>1. d = Append(defers, "pool") /\ Unlisted = {"pool"}
        BY <2>0, <3>1 DEF AuditCleanup, Ordered
      <4> HIDE DEF d
      <4>2. QED
        BY <2>0, <4>1, AppendKeeps DEF Owed
    <3>2. CASE ~cfg.audit
      <4>1. d = defers /\ Unlisted = {}
        BY <2>0, <3>2 DEF AuditCleanup, Ordered
      <4> HIDE DEF d
      <4>2. QED
        BY <2>0, <4>1 DEF Ordered, Owed
    <3>3. QED
      BY <3>1, <3>2
  <2>2. CASE Skip("closeAudit")
    BY <2>0, <2>2, SkipKeeps
  <2>3. CASE pc' = "limiters" /\ live' = live \cup {"admin"} /\ defers' = Append(d, "admin")
    <3> HIDE DEF d
    <3>1. Ordered(defers', 8) /\ Listed(defers') = Listed(d) \cup {"admin"}
      BY <2>0, <2>1, <2>3, AppendKeeps
    <3>2. QED
      BY <2>0, <2>1, <2>3, <3>1 DEF StackInv, Owed
  <2>4. CASE pc' = "limiters" /\ live' = live /\ defers' = d
    <3> HIDE DEF d
    <3>1. Ordered(d, 8)
      BY <2>1 DEF Ordered
    <3>2. QED
      BY <2>0, <2>1, <2>4, <3>1 DEF StackInv, Owed
  <2>5. QED
    BY <1>14, <2>2, <2>3, <2>4 DEF StartAdmin
<1>15. CASE Limiters
  BY <1>15, OpenKeeps, SkipKeeps DEF Limiters, Parts, Quiet, goroutines, Leftover
<1>16. CASE KeyRequest
  BY <1>16, OpenKeeps, SkipKeeps DEF KeyRequest, Parts, Quiet, goroutines, Leftover
<1>17. CASE Serve
  BY <1>17, SkipKeeps DEF Serve, Quiet, goroutines, Leftover
<1>18. CASE Eof \/ Shutdown \/ Drain \/ ListenerFails
  BY <1>18, SkipKeeps DEF Eof, Shutdown, Drain, ListenerFails, Quiet, goroutines, Leftover
<1>19. CASE CloseAudit
  <2>1. /\ pc = "closeAudit" /\ pc' = "unwind" /\ live' = live \ {"pool"} /\ defers' = defers
        /\ Leftover' = Leftover
    BY <1>19 DEF CloseAudit, Quiet, goroutines, Leftover
  <2>2. "pool" \notin Owed /\ "pool" \notin Leftover
    BY <2>1 DEF StackInv, Ordered, Owed, Listed, Leftover
  <2>3. QED
    BY <2>1, <2>2 DEF StackInv, Ordered, Owed, Listed
<1>20. CASE Unwind
  <2>1. /\ pc = "unwind" /\ pc' = pc /\ defers # <<>> /\ defers' = Front(defers)
        /\ live' = (live \ {Last(defers)}) \cup (IF Last(defers) = "health" THEN Unclosed ELSE {})
        /\ health' = IF Last(defers) = "health" THEN Closed ELSE health
    BY <1>20 DEF Unwind, Release
  <2>2. /\ Ordered(defers', 10) /\ Owed' = Owed \ {Last(defers)} /\ Last(defers) \in Owed
        /\ Owed \subseteq Parts
    <3>1. Ordered(defers, 10)
      BY <2>1 DEF StackInv
    <3>2. Ordered(Front(defers), 10) /\ Listed(Front(defers)) = Listed(defers) \ {Last(defers)}
          /\ Last(defers) \in Listed(defers)
      BY <2>1, <3>1, PopKeeps
    <3>3. Listed(defers) \subseteq Parts
      BY <3>1 DEF Ordered, Listed
    <3>4. QED
      BY <2>1, <3>2, <3>3 DEF Owed
  <2>3. CASE Last(defers) = "health"
    <3>1. health \in {"spawned", "serving"} /\ Leftover = {} /\ Leftover' = Unclosed
      BY <2>1, <2>2, <2>3 DEF HealthInv, StackInv, Leftover, Closed, Unclosed
    <3>2. QED
      BY <2>1, <2>2, <2>3, <3>1 DEF StackInv
  <2>4. CASE Last(defers) # "health"
    <3>1. Leftover' = Leftover /\ Last(defers) \notin Leftover
      BY <2>1, <2>2, <2>4 DEF Leftover, Parts
    <3>2. QED
      BY <2>1, <2>2, <2>4, <3>1 DEF StackInv
  <2>5. QED
    BY <2>3, <2>4
<1>21. CASE Exit
  <2>1. /\ pc' = "exited" /\ defers = <<>> /\ UNCHANGED <<live, defers>> /\ pc = "unwind"
        /\ Leftover' = Leftover
    BY <1>21 DEF Exit, Quiet, goroutines, Leftover
  <2>2. QED
    BY <2>1 DEF StackInv, Ordered, Owed, Listed
<1>22. CASE Signal
  BY <1>22, SkipKeeps DEF Signal, goroutines, Leftover
<1>23. CASE HealthLate
  <2>1. /\ UNCHANGED <<pc, cfg, defers>> /\ live' = (live \ {"listener"}) \cup {"probe"}
        /\ Leftover = {"listener"} /\ Leftover' = {"probe"}
    BY <1>23 DEF HealthLate, Leftover
  <2>2. "listener" \notin Owed /\ "listener" \notin Unlisted
    BY DEF StackInv, Ordered, Owed, Listed, Parts
  <2>3. QED
    BY <2>1, <2>2 DEF StackInv, Owed
<1>24. CASE MainUnchanged
  <2>1. CASE HealthStart
    BY <1>24, <2>1, SkipKeeps DEF MainUnchanged, HealthStart, Leftover
  <2>2. CASE ~HealthStart /\ ~HealthLate /\ ~Health /\ ~Unwind
    BY <1>24, <1>a, <2>2, SkipKeeps DEF MainUnchanged
  <2>3. QED
    BY <1>10, <1>20, <1>23, <2>1, <2>2
<1>25. QED
  BY <1>1, <1>2, <1>3, <1>4, <1>5, <1>6, <1>7, <1>8, <1>9, <1>10, <1>11, <1>12, <1>13,
     <1>14, <1>15, <1>16, <1>17, <1>18, <1>19, <1>20, <1>21, <1>22, <1>23, <1>24, MainUntouched
     DEF Boot, Stop

(* Nothing is open at first.                                               *)
LEMMA StackInit == Init => StackInv /\ HealthInv
BY DEF Init, StackInv, Ordered, HealthInv, Owed, Listed, Unlisted, Leftover, Stage

(* However run ends - refused, failed half way or stopped - it leaves      *)
(* nothing open but what a health server closed before its start leaves:   *)
(* at every step what is open is on the stack of cleanups or in the hands  *)
(* of the function that opened it, and the process exits with an empty     *)
(* stack (main.go:61-226).                                                 *)
THEOREM NothingLeftOpen == Spec => []EverythingReleased
<1>2. StackInv => EverythingReleased
  <2>1. ASSUME StackInv, pc = "exited" PROVE live = Leftover
    <3>1. \A i \in 1..Len(defers) : FALSE
      BY <2>1 DEF StackInv, Ordered, Stage, Rank
    <3>2. QED
      BY <2>1, <3>1 DEF StackInv, Owed, Listed, Unlisted
  <2>2. QED
    BY <2>1 DEF EverythingReleased, Leftover
<1>3. QED
  BY <1>2, StackInit, StackStep, HealthStep, PTL DEF Spec

(* The steps of run that come after a part was opened, up to the drain.    *)
After(rank) ==
    {step \in {"evm", "health", "pending", "audit", "purge", "admin", "limiters",
               "keyRequest", "serve", "serving", "drain"} : Stage(step) > rank}

(* What the handlers and the purge use is open.                            *)
StoresOpen ==
    /\ cfg.audit => "pool" \in live
    /\ cfg.store = "postgres" => "keyPool" \in live
    /\ {"evm", "telemetry"} \subseteq live

(* What is open at a step of run: nothing was passed over.                 *)
OpenInv ==
    /\ pc \in {"auth", "count", "recount"} \cup After(3) => "telemetry" \in live
    /\ pc \in {"count", "recount"} => cfg.store = "postgres"
    /\ pc \in After(3) /\ cfg.store = "postgres" => "keyPool" \in live
    /\ pc \in After(4) => "evm" \in live
    /\ pc \in After(6) /\ cfg.audit => "pool" \in live
    /\ pc \in After(8) /\ cfg.transport = "http" => "limiters" \in live
    /\ "admin" \in live => StoresOpen

(* Who uses it: a request of the mcp server that outlived no drain, of a   *)
(* server whose listener did not fail, is served before the cleanups start, one of the admin server before its    *)
(* cleanup, and the purge holds the pool it queries.                       *)
UseInv ==
    /\ pc \in {"load", "flag"} =>
          /\ handler["mcp"] = "none" /\ handler["admin"] = "none" /\ ~undrained
          /\ purge = "none" /\ admin = "none"
    /\ handler["mcp"] # "none" =>
          "mcp" \in forsaken \/ undrained \/ (pc \in {"serving", "drain"} /\ cfg.transport = "http")
    /\ admin \in {"spawned", "serving"} => "admin" \in live
    /\ handler["admin"] # "none" => "admin" \in forsaken \/ "admin" \in live
    /\ purge = "query" => "pool" \in live

(* Every step but a cleanup that moves run forward keeps what was open.    *)
LEMMA OpenStep == StackInv /\ OpenInv /\ [Next]_vars => OpenInv'
<1> SUFFICES ASSUME StackInv, OpenInv, [Next]_vars PROVE OpenInv'
  OBVIOUS
<1> USE DEF OpenInv, StoresOpen, After, Stage, Fail, Skip, Open
<1>1. CASE Load
  BY <1>1 DEF Load, Refuse
<1>2. ASSUME NEW flag \in FlagValues, ApplyFlag(flag) PROVE OpenInv'
  <2>1. CASE pc' = "telemetry" /\ live' = {"context"}
    BY <2>1
  <2>2. CASE pc = "flag" /\ Refuse
    BY <2>2 DEF Refuse
  <2>3. QED
    BY <1>2, <2>1, <2>2 DEF ApplyFlag
<1>3. CASE Telemetry
  BY <1>3 DEF Telemetry, Quiet
<1>4. CASE AuthFusion
  BY <1>4 DEF AuthFusion
<1>5. CASE AuthKeys
  BY <1>5 DEF AuthKeys
<1>6. CASE AuthPool
  BY <1>6 DEF AuthPool, Quiet
<1>7. CASE Count
  <2>1. "admin" \notin live
    BY <1>7 DEF Count, StackInv, Ordered, Owed, Listed, Unlisted, Leftover, Rank
  <2>2. QED
    BY <1>7, <2>1 DEF Count, Quiet
<1>8. CASE Recount
  <2>1. "keyPool" \in live
    BY <1>8 DEF Recount, StackInv, Unlisted
  <2>2. QED
    BY <1>8, <2>1 DEF Recount
<1>9. CASE Evm
  BY <1>9 DEF Evm, Quiet
<1>10. CASE Health
  BY <1>10 DEF Health
<1>11. CASE Pending
  BY <1>11 DEF Pending, Quiet
<1>12. CASE Audit
  BY <1>12 DEF Audit, Quiet
<1>13. CASE StartPurge
  BY <1>13 DEF StartPurge
<1>14. CASE StartAdmin
  <2>1. pc = "admin" /\ (cfg.audit => "pool" \in live) /\ cfg' = cfg
    BY <1>14 DEF StartAdmin, StackInv, Unlisted
  <2>2. StoresOpen
    BY <2>1
  <2>3. live \subseteq live' /\ pc' \in {"limiters", "closeAudit"}
    BY <1>14 DEF StartAdmin
  <2>4. QED
    BY <2>1, <2>2, <2>3
<1>15. CASE Limiters
  BY <1>15 DEF Limiters, Quiet
<1>16. CASE KeyRequest
  BY <1>16 DEF KeyRequest, Quiet
<1>17. CASE Serve
  BY <1>17 DEF Serve, Quiet
<1>18. CASE Eof \/ Shutdown \/ Drain \/ ListenerFails
  BY <1>18 DEF Eof, Shutdown, Drain, ListenerFails, Quiet
<1>19. CASE Unwind
  <2>1. /\ pc = "unwind" /\ pc' = pc /\ cfg' = cfg /\ defers # <<>> /\ defers' = Front(defers)
        /\ live \ {Last(defers)} \subseteq live' /\ live' \subseteq (live \ {Last(defers)}) \cup {"listener"}
    BY <1>19 DEF Unwind, Release, Unclosed
  <2>2. /\ Owed' = Owed \ {Last(defers)}
        /\ \A p \in Owed' : Rank(p) < Rank(Last(defers))
    BY <2>1, PopKeeps DEF StackInv, Owed
  <2>3. "admin" \in live' => "admin" \in live /\ "admin" \in Owed'
    BY <2>1, <2>2 DEF StackInv, Unlisted, Leftover
  <2>4. "admin" \in live' => Last(defers) \notin {"pool", "keyPool", "evm", "telemetry"}
    BY <2>2, <2>3 DEF Rank
  <2>5. QED
    BY <2>1, <2>3, <2>4
<1>20. CASE Exit
  BY <1>20 DEF Exit, Quiet
<1>21. CASE Signal
  BY <1>21 DEF Signal
<1>22. CASE MainUnchanged
  BY <1>22 DEF MainUnchanged
<1>23. CASE CloseAudit
  <2>1. "admin" \notin live
    BY <1>23 DEF CloseAudit, StackInv, Ordered, Owed, Listed, Unlisted, Leftover, Rank
  <2>2. QED
    BY <1>23, <2>1 DEF CloseAudit, Quiet
<1>24. CASE HealthLate
  BY <1>24 DEF HealthLate
<1>25. QED
  BY <1>1, <1>2, <1>3, <1>4, <1>5, <1>6, <1>7, <1>8, <1>9, <1>10, <1>11, <1>12, <1>13, <1>14,
     <1>15, <1>16, <1>17, <1>18, <1>19, <1>20, <1>21, <1>22, <1>23, <1>24, MainUntouched
     DEF Boot, Stop

(* The part of TypeOK that is not about the stack.                         *)
Typed ==
    /\ pc \in {"load", "flag", "telemetry", "auth", "count", "recount", "evm", "health",
               "pending", "audit", "purge", "admin", "closeAudit", "limiters", "keyRequest",
               "serve", "serving", "drain", "unwind", "exited"}
    /\ {done, validator, ready, undrained} \subseteq BOOLEAN
    /\ health \in {"none", "spawned", "serving", "closed", "missed", "leaked"}
    /\ probe \in {"none", "idle", "up", "down"}
    /\ node \in {"up", "down", "stalled"} /\ db \in {"up", "hung"}
    /\ admin \in {"none", "spawned", "serving", "closed"}
    /\ purge \in {"none", "idle", "query"}
    /\ handler \in [{"mcp", "admin"} -> {"none", "busy"} \cup Pools]

(* The types hold at first, ...                                            *)
LEMMA TypedInit == Init => Typed
<1>1. Init => handler \in [{"mcp", "admin"} -> {"none", "busy"} \cup Pools]
  BY DEF Init
<1>2. QED
  BY <1>1 DEF Init, Typed

(* ... and every step keeps them.                                          *)
LEMMA TypedStep == Typed /\ [Next]_vars => Typed'
<1> SUFFICES ASSUME Typed, [Next]_vars PROVE Typed'
  OBVIOUS
<1> USE DEF Typed, Fail, Skip, Open, Refuse, goroutines, world
<1>1. CASE Load
  BY <1>1 DEF Load
<1>2. ASSUME NEW flag \in FlagValues, ApplyFlag(flag) PROVE Typed'
  <2>1. pc' \in {"telemetry", "exited"} /\ UNCHANGED <<done, validator, goroutines>>
    BY <1>2 DEF ApplyFlag
  <2>2. QED
    BY <2>1
<1>3. CASE Telemetry \/ AuthPool \/ Count \/ Evm \/ Pending
  BY <1>3 DEF Telemetry, AuthPool, Count, Evm, Pending, Quiet
<1>4. CASE AuthFusion \/ AuthKeys \/ Recount
  BY <1>4 DEF AuthFusion, AuthKeys, Recount
<1>5. CASE Audit \/ Limiters \/ KeyRequest \/ Serve \/ Eof \/ Shutdown \/ CloseAudit \/ Exit
  BY <1>5 DEF Audit, Limiters, KeyRequest, Serve, Eof, Shutdown, CloseAudit, Exit, Quiet
<1>6. CASE Health \/ StartPurge \/ StartAdmin \/ Drain \/ ListenerFails
  BY <1>6 DEF Health, StartPurge, StartAdmin, Drain, ListenerFails
<1>7. CASE Unwind
  BY <1>7 DEF Unwind, Release, Closed
<1>8. CASE Signal
  BY <1>8 DEF Signal
<1>9. CASE HealthStart \/ HealthLate \/ ProbePing \/ ProbeHead \/ AdminStart \/ PurgeDone
  BY <1>9 DEF HealthStart, HealthLate, ProbePing, ProbeHead, AdminStart, PurgeDone, Verdict,
     MainUnchanged
<1>10. CASE NodeChanges \/ Hang \/ PurgeQuery
  BY <1>10 DEF NodeChanges, Hang, PurgeQuery, MainUnchanged
<1>11. ASSUME NEW s \in {"mcp", "admin"}, QueryDone(s) \/ Respond(s) \/ Handle(s) PROVE Typed'
  BY <1>11 DEF QueryDone, Respond, Handle, MainUnchanged
<1>12. ASSUME NEW s \in {"mcp", "admin"}, NEW p \in Pools, Query(s, p) PROVE Typed'
  BY <1>12 DEF Query, MainUnchanged
<1>13. CASE UNCHANGED vars
  BY <1>13 DEF vars
<1>14. QED
  BY <1>1, <1>2, <1>3, <1>4, <1>5, <1>6, <1>7, <1>8, <1>9, <1>10, <1>11, <1>12, <1>13
     DEF Next, Boot, Stop, Goroutines, Environment

(* The state of run and of its goroutines is well typed, and no part is    *)
(* owed two cleanups or a cleanup it does not need.                        *)
THEOREM TypeCorrect == Spec => []TypeOK
<1>2. Typed /\ StackInv => TypeOK
  <2> SUFFICES ASSUME Typed, StackInv PROVE TypeOK
    OBVIOUS
  <2>1. \A i \in 1..Len(defers) : defers[i] \in live
    BY DEF StackInv, Owed, Listed
  <2>2. ASSUME NEW i \in 1..Len(defers), NEW j \in 1..Len(defers), defers[i] = defers[j]
        PROVE  i = j
    <3>1. ~(i < j) /\ ~(j < i) /\ Len(defers) \in Nat
      BY <2>2 DEF StackInv, Ordered, Rank
    <3>2. QED
      BY <3>1
  <2>3. QED
    BY <2>1, <2>2 DEF TypeOK, Typed
<1>3. QED
  BY <1>2, TypedInit, TypedStep, StackInit, StackStep, HealthStep, PTL DEF Spec

(* Every step keeps the relation of the users to what they use.            *)
LEMMA UseStep == Typed /\ StackInv /\ OpenInv /\ UseInv /\ [Next]_vars => UseInv'
<1> SUFFICES ASSUME Typed, StackInv, OpenInv, UseInv, [Next]_vars PROVE UseInv'
  OBVIOUS
<1> USE DEF UseInv, Fail, Skip, Open, goroutines
<1>1. CASE Load
  BY <1>1 DEF Load, Refuse
<1>2. ASSUME NEW flag \in FlagValues, ApplyFlag(flag) PROVE UseInv'
  <2>1. pc = "flag" /\ pc' # "flag" /\ UNCHANGED <<handler, purge, admin, undrained>>
    BY <1>2 DEF ApplyFlag, Refuse
  <2>2. QED
    BY <2>1
<1>3. CASE Telemetry \/ AuthPool \/ Evm \/ Pending
  BY <1>3 DEF Telemetry, AuthPool, Evm, Pending, Quiet
<1>4. CASE AuthFusion \/ AuthKeys \/ Recount
  BY <1>4 DEF AuthFusion, AuthKeys, Recount
<1>5. CASE Audit \/ Limiters \/ KeyRequest \/ Serve \/ CloseAudit \/ Exit
  BY <1>5 DEF Audit, Limiters, KeyRequest, Serve, CloseAudit, PoolReleased, Exit, Quiet
<1>6. CASE Health \/ StartPurge \/ StartAdmin
  BY <1>6 DEF Health, StartPurge, StartAdmin
<1>7. CASE Count
  BY <1>7 DEF Count, Quiet
<1>8. CASE Eof \/ Shutdown \/ ListenerFails
  BY <1>8 DEF Eof, Shutdown, ListenerFails, Quiet
<1>9. CASE Drain
  BY <1>9 DEF Drain
<1>10. CASE Unwind
  <2>1. /\ pc = "unwind" /\ pc' = pc /\ live \ {Last(defers)} \subseteq live'
        /\ Release(Last(defers), Front(defers))
    BY <1>10 DEF Unwind, Release
  <2>2. QED
    BY <2>1 DEF Release, PoolReleased, Pools
<1>11. CASE Signal
  BY <1>11 DEF Signal
<1>12. CASE HealthStart \/ HealthLate \/ ProbePing \/ ProbeHead \/ AdminStart \/ PurgeDone
  BY <1>12 DEF HealthStart, HealthLate, ProbePing, ProbeHead, AdminStart, PurgeDone, MainUnchanged
<1>13. CASE NodeChanges \/ Hang \/ PurgeQuery
  BY <1>13 DEF NodeChanges, Hang, PurgeQuery, MainUnchanged, Acquires
<1>14. ASSUME NEW s \in {"mcp", "admin"}, QueryDone(s) \/ Respond(s) \/ Handle(s) PROVE UseInv'
  <2>1. /\ MainUnchanged /\ UNCHANGED <<admin, purge, forsaken, undrained>>
        /\ \A t \in {"mcp", "admin"} : t # s => handler'[t] = handler[t]
    BY <1>14 DEF QueryDone, Respond, Handle, Typed
  <2>2. CASE QueryDone(s)
    <3>1. handler[s] # "none"
      BY <2>2 DEF QueryDone, Pools
    <3>2. QED
      BY <2>1, <3>1 DEF MainUnchanged
  <2>3. CASE Respond(s)
    <3>1. handler'[s] = "none"
      BY <2>3 DEF Respond, Typed
    <3>2. QED
      BY <2>1, <3>1 DEF MainUnchanged
  <2>4. CASE Handle(s)
    <3>1. Serves(s) /\ handler[s] = "none"
      BY <2>4 DEF Handle
    <3>2. CASE s = "mcp"
      BY <2>1, <3>1, <3>2 DEF Serves, MainUnchanged
    <3>3. CASE s = "admin"
      BY <2>1, <3>1, <3>3 DEF Serves, MainUnchanged
    <3>4. QED
      BY <3>2, <3>3
  <2>5. QED
    BY <1>14, <2>2, <2>3, <2>4
<1>15. ASSUME NEW s \in {"mcp", "admin"}, NEW p \in Pools, Query(s, p) PROVE UseInv'
  BY <1>15 DEF Query, MainUnchanged, Typed
<1>16. CASE UNCHANGED vars
  BY <1>16 DEF vars
<1>17. QED
  BY <1>1, <1>2, <1>3, <1>4, <1>5, <1>6, <1>7, <1>8, <1>9, <1>10, <1>11, <1>12, <1>13,
     <1>14, <1>15, <1>16 DEF Next, Boot, Stop, Goroutines, Environment

(* What a request or the purge is using is not closed under it, for any    *)
(* interleaving of requests, purge, signal, failures and cleanups, but for *)
(* a request that outlived the drain and those of an http server whose     *)
(* listener failed, which nobody drains (main.go:173-221, 556-570;         *)
(* server.go:305-312).                                                     *)
THEOREM NothingClosedUnderUse == Spec => []ClosedAfterUse
<1>1. Init => OpenInv /\ UseInv
  BY DEF Init, OpenInv, After, UseInv
<1>2. Typed /\ OpenInv /\ UseInv => ClosedAfterUse
  BY DEF Typed, OpenInv, StoresOpen, UseInv, After, Stage, ClosedAfterUse
<1>3. QED
  BY <1>1, <1>2, TypedInit, TypedStep, StackInit, StackStep, HealthStep, OpenStep, UseStep, PTL DEF Spec

-----------------------------------------------------------------------------
(* The configuration.                                                      *)

(* A number that was parsed: an integer, for a float also NaN.             *)
LEMMA ParsedNumber ==
  ASSUME NEW e, WellFormed(e), NEW k \in DOMAIN Default \ Named, Default[k] \in Int,
         envOrDefault(e, k) \notin {Garbage, Blank}
  PROVE  /\ e[k] # Garbage
         /\ k \notin Floats => envOrDefault(e, k) \in Int
         /\ k \in Floats => envOrDefault(e, k) \in Int \cup {NaN}
<1>1. k \in Variables /\ k \notin Flags /\ k \notin Peppers /\ k \notin Named \cup Texts \cup Legacy
  BY DEF Variables, Default, Flags, Peppers, Named, Texts, Legacy
<1>2. /\ e[k] \in {Unset, Empty} \cup Int \cup {Blank, Garbage, NaN}
      /\ k \notin Floats => e[k] \in {Unset, Empty} \cup Int \cup {Blank, Garbage}
  BY <1>1 DEF WellFormed
<1>3. QED
  BY <1>2, ServerConfigAssumption DEF envOrDefault, Present

(* The defaults, and that the numbers among them are integers.             *)
LEMMA Defaults ==
  /\ DOMAIN Default = Named \cup
       {"REQUEST_TIMEOUT", "KEY_DEFAULT_TTL", "JWT_CLOCK_SKEW", "OTEL_TRACE_SAMPLE_RATIO",
        "NVNM_READINESS_MAX_BLOCK_AGE", "RPC_MAX_RETRIES", "RPC_INITIAL_BACKOFF",
        "RPC_MAX_BACKOFF", "RPC_RATE_LIMIT", "RPC_RATE_BURST", "CIRCUIT_BREAKER_THRESHOLD",
        "CIRCUIT_BREAKER_TIMEOUT", "MCP_RATE_LIMIT", "MCP_RATE_BURST", "MCP_ANON_RATE_LIMIT",
        "MCP_ANON_RATE_BURST", "MCP_SIGNER_WRITE_RATE", "MCP_SIGNER_WRITE_WINDOW",
        "MCP_RETENTION_PURGE_INTERVAL", "NVNM_TRUSTED_PROXY_HOPS",
        "NVNM_KEY_REQUEST_RATE_LIMIT", "NVNM_KEY_REQUEST_RATE_BURST",
        "NVNM_KEY_REQUEST_MAX_BODY_BYTES"}
  /\ \A k \in DOMAIN Default \ Named : Default[k] \in Int
BY DEF Default, Named

(* Load parses every number that has a default.                            *)
LEMMA NumbersParse ==
  ASSUME NEW e, Loads(e), NEW k \in DOMAIN Default \ Named
  PROVE  envOrDefault(e, k) \notin {Garbage, Blank}
<1>1. CASE k \in {"REQUEST_TIMEOUT", "KEY_DEFAULT_TTL", "JWT_CLOCK_SKEW",
                 "OTEL_TRACE_SAMPLE_RATIO", "NVNM_READINESS_MAX_BLOCK_AGE",
                 "NVNM_TRUSTED_PROXY_HOPS"}
  BY <1>1 DEF Loads, loadCoreConfig, loadKeyStoreConfig, loadTelemetryConfig,
     loadTrustedProxyHops, Parses
<1>2. CASE k \in {"RPC_MAX_RETRIES", "RPC_INITIAL_BACKOFF", "RPC_MAX_BACKOFF", "RPC_RATE_LIMIT",
                 "RPC_RATE_BURST", "CIRCUIT_BREAKER_THRESHOLD", "CIRCUIT_BREAKER_TIMEOUT",
                 "MCP_RATE_LIMIT", "MCP_RATE_BURST"}
  BY <1>2 DEF Loads, loadResilienceConfig, loadMCPRateConfig, Parses
<1>3. CASE k \in {"MCP_ANON_RATE_LIMIT", "MCP_ANON_RATE_BURST", "MCP_SIGNER_WRITE_RATE",
                 "MCP_SIGNER_WRITE_WINDOW", "MCP_RETENTION_PURGE_INTERVAL"}
  BY <1>3 DEF Loads, loadKeylessConfig, loadSignerQuotaConfig, loadRetentionConfig, Parses
<1>4. CASE k \in {"NVNM_KEY_REQUEST_RATE_LIMIT", "NVNM_KEY_REQUEST_RATE_BURST",
                 "NVNM_KEY_REQUEST_MAX_BODY_BYTES"}
  BY <1>4 DEF Loads, loadKeyRequestConfig, Parses
<1>5. QED
  BY <1>1, <1>2, <1>3, <1>4, Defaults

(* Nothing that is set was read as something else.                         *)
LEMMA NothingMisread ==
  ASSUME NEW e, WellFormed(e), Loads(e), NEW k \in DOMAIN Default \cup Optional \cup Flags
  PROVE  e[k] # Garbage
<1>1. CASE k \in DOMAIN Default \ Named
  BY <1>1, Defaults, NumbersParse, ParsedNumber
<1>2. CASE k \in Named
  <2>1. e[k] \in {Unset, Empty, Blank} \cup STRING
    BY <1>2 DEF WellFormed, Variables, Named, Default, Flags, Peppers
  <2>2. QED
    BY <2>1, ServerConfigAssumption
<1>3. CASE k \in Flags
  <2>1. envBool(e, k) # Garbage
    BY <1>3 DEF Flags, Loads, loadFeatureFlags, loadKeylessConfig, loadSignerQuotaConfig,
       loadKeyRequestConfig, ParsesBool
  <2>2. QED
    BY <2>1, ServerConfigAssumption DEF envBool, Present
<1>4. CASE k \in Optional
  <2>1. Present(e, k) => e[k] # Garbage
    BY <1>4 DEF Optional, Loads, loadCoreConfig, loadKeylessConfig, loadRetentionConfig,
       loadSMTPConfig, ParsesIfSet
  <2>2. QED
    BY <2>1, ServerConfigAssumption DEF Present
<1>5. QED
  BY <1>1, <1>2, <1>3, <1>4

(* The limiters, the breaker and the retry loop get usable parameters.     *)
LEMMA UsableParameters ==
  ASSUME NEW e, WellFormed(e), Loads(e)
  PROVE  /\ \A k \in {"RPC_RATE_LIMIT", "MCP_RATE_LIMIT", "MCP_ANON_RATE_LIMIT"} :
               envOrDefault(e, k) = NaN \/ envOrDefault(e, k) > 0
         /\ \A k \in {"RPC_RATE_BURST", "MCP_RATE_BURST", "MCP_ANON_RATE_BURST",
                      "NVNM_TRUSTED_PROXY_HOPS", "CIRCUIT_BREAKER_THRESHOLD",
                      "CIRCUIT_BREAKER_TIMEOUT", "REQUEST_TIMEOUT"} :
               envOrDefault(e, k) > 0
         /\ envOrDefault(e, "RPC_MAX_RETRIES") >= 0
         /\ envBool(e, "MCP_KEYLESS_WRITES") => envOrDefault(e, "MCP_SIGNER_WRITE_RATE") >= 1
<1>1. \A k \in DOMAIN Default \ Named :
         /\ k \notin Floats => envOrDefault(e, k) \in Int
         /\ k \in Floats => envOrDefault(e, k) \in Int \cup {NaN}
  BY Defaults, NumbersParse, ParsedNumber
<1>2. 0 # NaN /\ 1 # NaN /\ \A x \in Int : x # NaN
  BY ServerConfigAssumption
<1>3. \A k \in {"RPC_RATE_LIMIT", "MCP_RATE_LIMIT", "MCP_ANON_RATE_LIMIT"} :
         /\ ~AtMost(envOrDefault(e, k), 0)
         /\ envOrDefault(e, k) \in Int \cup {NaN}
  BY <1>1, Defaults DEF Loads, Validate, validateResilience, Floats, Named
<1>4. \A k \in {"RPC_RATE_BURST", "MCP_RATE_BURST", "MCP_ANON_RATE_BURST",
                "CIRCUIT_BREAKER_THRESHOLD", "CIRCUIT_BREAKER_TIMEOUT"} :
         ~AtMost(envOrDefault(e, k), 0) /\ envOrDefault(e, k) \in Int
  BY <1>1, Defaults DEF Loads, Validate, validateResilience, Floats, Named
<1>5. /\ ~Below(envOrDefault(e, "NVNM_TRUSTED_PROXY_HOPS"), 1)
      /\ envOrDefault(e, "NVNM_TRUSTED_PROXY_HOPS") \in Int
  BY <1>1, Defaults DEF Loads, loadTrustedProxyHops, Floats, Named
<1>6. /\ ~Below(envOrDefault(e, "RPC_MAX_RETRIES"), 0)
      /\ envOrDefault(e, "RPC_MAX_RETRIES") \in Int
  BY <1>1, Defaults DEF Loads, Validate, validateResilience, Floats, Named
<1>7. envBool(e, "MCP_KEYLESS_WRITES") =>
         /\ ~Below(envOrDefault(e, "MCP_SIGNER_WRITE_RATE"), 1)
         /\ envOrDefault(e, "MCP_SIGNER_WRITE_RATE") \in Int
  BY <1>1, Defaults DEF Loads, Validate, validateKeyless, validateKeylessWrites, Floats, Named
<1>8. envOrDefault(e, "REQUEST_TIMEOUT") > 0
  BY DEF Loads, Validate
<1>9. QED
  BY <1>2, <1>3, <1>4, <1>5, <1>6, <1>7, <1>8 DEF AtMost, Below

(* The administrative trail outlives the ordinary one.                     *)
LEMMA GrantsKeptLonger ==
  ASSUME NEW e, WellFormed(e), Loads(e), Number(e, "MCP_WRITE_AUDIT_GRANT_ROLE_RETENTION") # 0
  PROVE  /\ Number(e, "MCP_WRITE_AUDIT_RETENTION") # 0
         /\ Number(e, "MCP_WRITE_AUDIT_GRANT_ROLE_RETENTION")
               >= Number(e, "MCP_WRITE_AUDIT_RETENTION")
<1>1. \A k \in Windows : Number(e, k) \in Int /\ Number(e, k) >= 0
  <2> SUFFICES ASSUME NEW k \in Windows PROVE Number(e, k) \in Int /\ Number(e, k) >= 0
    OBVIOUS
  <2>1. /\ Present(e, k) => e[k] \notin {Garbage, Blank}
        /\ Number(e, k) >= 0
    BY DEF Loads, loadKeylessConfig, loadRetentionConfig, ParsesIfSet
  <2>2. e[k] \in {Unset, Empty} \cup Int \cup {Blank, Garbage}
    BY DEF WellFormed, Variables, Optional, Windows, Flags, Peppers, Named, Texts, Legacy, Floats
  <2>3. QED
    BY <2>1, <2>2 DEF Number, Present
<1>2. RetentionEnabled(e)
  BY <1>1 DEF RetentionEnabled, Windows
<1>3. ~GrantWindowInverted(e)
  BY <1>2 DEF Loads, loadKeylessConfig, loadRetentionConfig, retentionValidate
<1>4. QED
  BY <1>1, <1>3 DEF GrantWindowInverted, Windows

(* What the later steps of run rely on: anonymous writes are audited and   *)
(* scoped, minted keys are mailed or logged, a shared store is peppered.   *)
LEMMA SettingsSound ==
  ASSUME NEW e, WellFormed(e), NEW t, Validate(e, t)
  PROVE  /\ Settings(e, t).writes => Settings(e, t).audit /\ ~envBool(e, "MCP_RELAY_ALLOW_ANY")
         /\ Settings(e, t).store = "postgres" => e["KEY_HMAC_PEPPER"] = "long"
         /\ Settings(e, t).transport = t
<1>1. /\ Settings(e, t).writes = envBool(e, "MCP_KEYLESS_WRITES")
      /\ Settings(e, t).audit = Present(e, "MCP_KEYLESS_PG_DSN")
      /\ Settings(e, t).transport = t
  BY DEF Settings
<1>2. Settings(e, t).store = "postgres" =>
         Backend(e) = "postgres" /\ envOrDefault(e, "AUTH_PROVIDER") # "fusionauth"
  BY DEF Settings
<1>3. Backend(e) = "postgres" /\ envOrDefault(e, "AUTH_PROVIDER") # "fusionauth"
         => Present(e, "KEY_HMAC_PEPPER")
  BY DEF Validate, validateAuth, validateKeyStore
<1>4. Present(e, "KEY_HMAC_PEPPER") => e["KEY_HMAC_PEPPER"] = "long"
  <2>1. e["KEY_HMAC_PEPPER"] \in {Unset, Empty, "short", "long"}
    BY DEF WellFormed, Variables, Peppers, Texts, Flags
  <2>2. e["KEY_HMAC_PEPPER"] # "short"
    BY DEF Validate, validatePepperStrength
  <2>3. QED
    BY <2>1, <2>2 DEF Present
<1>5. envBool(e, "MCP_KEYLESS_WRITES") =>
         Present(e, "MCP_KEYLESS_PG_DSN") /\ ~envBool(e, "MCP_RELAY_ALLOW_ANY")
  BY DEF Validate, validateKeyless, validateKeylessWrites
<1>6. QED
  BY <1>1, <1>2, <1>3, <1>4, <1>5

(* The environment that is validated is one the process was started with,  *)
(* and it was loaded; what run keeps of it after that passed Validate.     *)
ConfigInv ==
    /\ pc \in {"load", "flag"} => WellFormed(env)
    /\ pc = "flag" => Loads(env)
    /\ pc \notin {"load", "flag", "exited"} => (cfg.writes => cfg.audit)

(* Unless the keys are in Postgres, the validator is there when http is to *)
(* be served.                                                              *)
GuardInv ==
    pc \in After(3) /\ cfg.transport = "http" /\ cfg.store # "postgres" => validator

(* Only loadPostgresKeyStore counts keys.                                  *)
CountInv == pc \in {"count", "recount"} => cfg.store = "postgres"

(* Every step keeps both.                                                  *)
LEMMA ConfigStep == ConfigInv /\ GuardInv /\ CountInv /\ [Next]_vars => ConfigInv' /\ GuardInv' /\ CountInv'
<1> SUFFICES ASSUME ConfigInv, GuardInv, CountInv, [Next]_vars
             PROVE  ConfigInv' /\ GuardInv' /\ CountInv'
  OBVIOUS
<1> USE DEF ConfigInv, GuardInv, CountInv, After, Stage, Fail, Skip, Open
<1>1. CASE Load
  <2>1. /\ pc = "load" /\ cfg' = cfg
        /\ pc' = "exited" \/ (pc' = "flag" /\ env' = env /\ Loads(env))
    BY <1>1 DEF Load, Refuse
  <2>2. CASE pc' = "exited"
    BY <2>2
  <2>3. CASE pc' = "flag" /\ env' = env /\ Loads(env)
    BY <2>1, <2>3
  <2>4. QED
    BY <2>1, <2>2, <2>3
<1>2. ASSUME NEW flag \in FlagValues, ApplyFlag(flag) PROVE ConfigInv' /\ GuardInv' /\ CountInv'
  <2> DEFINE transport == IF flag = "" THEN envOrDefault(env, "MCP_TRANSPORT") ELSE flag
  <2>1. CASE Validate(env, transport)
    <3>1. pc = "flag" /\ pc' = "telemetry" /\ cfg' = Settings(env, transport)
      BY <1>2, <2>1 DEF ApplyFlag
    <3>2. WellFormed(env)
      BY <3>1
    <3> HIDE DEF transport
    <3>3. cfg'.writes => cfg'.audit
      BY <2>1, <3>1, <3>2, SettingsSound
    <3>4. QED
      BY <3>1, <3>3
  <2>2. CASE ~Validate(env, transport)
    <3>1. pc' = "exited"
      BY <1>2, <2>2 DEF ApplyFlag, Refuse
    <3>2. QED
      BY <3>1
  <2>3. QED
    BY <2>1, <2>2
<1> HIDE DEF Stage
<1>3. CASE Telemetry \/ AuthPool \/ Count \/ Evm \/ Pending
  BY <1>3 DEF Telemetry, AuthPool, Count, Evm, Pending, Quiet, Stage
<1>4. CASE AuthFusion \/ AuthKeys \/ Recount
  BY <1>4 DEF AuthFusion, AuthKeys, Recount, Stage
<1>5. CASE Audit \/ Limiters \/ KeyRequest \/ Serve \/ Eof \/ Shutdown \/ CloseAudit \/ Exit
  BY <1>5 DEF Audit, Limiters, KeyRequest, Serve, Eof, Shutdown, CloseAudit, Exit, Quiet, Stage
<1>6. CASE Health \/ StartPurge \/ StartAdmin \/ Drain \/ ListenerFails \/ HealthLate
  BY <1>6 DEF Health, StartPurge, StartAdmin, Drain, ListenerFails, HealthLate, Stage
<1>7. CASE Unwind
  BY <1>7 DEF Unwind, Release
<1>8. CASE Signal
  BY <1>8 DEF Signal
<1>9. CASE MainUnchanged
  BY <1>9 DEF MainUnchanged
<1>10. QED
  BY <1>1, <1>2, <1>3, <1>4, <1>5, <1>6, <1>7, <1>8, <1>9, MainUntouched DEF Boot, Stop

(* They hold at first.                                                     *)
LEMMA ConfigInit == Init => ConfigInv /\ GuardInv /\ CountInv
BY LifecycleAssumption DEF Init, ConfigInv, GuardInv, CountInv, After

(* Whatever environment the process is started with, a configuration that  *)
(* Load accepts is one the other parts can run with: for every text that   *)
(* the variables may hold, not only for the values a run enumerates        *)
(* (config.go:433-531).                                                    *)
THEOREM AcceptedConfigSound == Spec => []ConfigSound
<1>1. ConfigInv => ConfigSound
  <2> SUFFICES ASSUME ConfigInv, pc = "flag" PROVE ConfigSound
    BY DEF ConfigSound
  <2>1. WellFormed(env) /\ Loads(env)
    BY DEF ConfigInv
  <2> DEFINE t == envOrDefault(env, "MCP_TRANSPORT")
  <2>2. Validate(env, t)
    BY <2>1 DEF Loads
  <2>3. \A k \in DOMAIN Default \cup Optional \cup Flags : env[k] # Garbage
    BY <2>1, NothingMisread
  <2> HIDE DEF t
  <2>4. /\ Settings(env, t).writes =>
              Settings(env, t).audit /\ ~envBool(env, "MCP_RELAY_ALLOW_ANY")
        /\ Settings(env, t).store = "postgres" => env["KEY_HMAC_PEPPER"] = "long"
    BY <2>1, <2>2, SettingsSound
  <2>5. Settings(env, t).writes = envBool(env, "MCP_KEYLESS_WRITES")
    BY DEF Settings
  <2>6. Settings(env, t).writes => envOrDefault(env, "MCP_SIGNER_WRITE_RATE") >= 1
    BY <2>1, <2>5, UsableParameters
  <2>7. Settings(env, t).keyRequest =>
           \/ Present(env, "NVNM_SMTP_HOST") /\ Present(env, "NVNM_SMTP_FROM")
           \/ envBool(env, "NVNM_ALLOW_KEY_IN_LOGS")
    <3>1. Settings(env, t).keyRequest = envBool(env, "NVNM_KEY_REQUEST_ENABLED")
      BY DEF Settings
    <3>2. QED
      BY <2>1, <2>2, <3>1 DEF Validate, validateKeyRequestEmail, Loads, loadSMTPConfig
  <2>8. LET window(k) == IF Number(env, k) = 0 THEN 1000 ELSE Number(env, k)
        IN  Number(env, "MCP_WRITE_AUDIT_GRANT_ROLE_RETENTION") # 0 =>
                window("MCP_WRITE_AUDIT_GRANT_ROLE_RETENTION")
                    >= window("MCP_WRITE_AUDIT_RETENTION")
    BY <2>1, GrantsKeptLonger
  <2>9. QED
    BY <2>1, <2>3, <2>4, <2>6, <2>7, <2>8, UsableParameters DEF ConfigSound, t
<1>2. QED
  BY <1>1, ConfigInit, ConfigStep, PTL DEF Spec

(* In every life of the process, http is served only with its limiters,    *)
(* anonymous writes only with the audit database open, and, unless the     *)
(* keys are in Postgres, requests only behind a validator: with every      *)
(* other store auth.go:17-19 is right (main.go:373-535).                   *)
THEOREM ServedGuarded == Spec => []GuardsInPlace
<1>1. Init => OpenInv
  BY DEF Init, OpenInv, After
<1>2. OpenInv /\ ConfigInv /\ GuardInv => GuardsInPlace
  BY DEF OpenInv, ConfigInv, GuardInv, GuardsInPlace, After, Stage
<1>3. QED
  BY <1>1, <1>2, StackInit, StackStep, HealthStep, OpenStep, ConfigInit, ConfigStep, PTL DEF Spec
=============================================================================
