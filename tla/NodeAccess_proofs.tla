------------------------ MODULE NodeAccess_proofs --------------------------
(***************************************************************************)
(* Proofs about the two layers of the server's access to the node: the     *)
(* RPC client, for any number of concurrent calls, every limit on the      *)
(* retries and every threshold of the breaker; and the anchor tools, whose *)
(* calls are sequences of RPCs, for every registry table, page cap and     *)
(* request and however the chain moves between two RPCs.                   *)
(***************************************************************************)
EXTENDS RpcClient, AnchorTools, FiniteSetTheorems, WellFoundedInduction, TLAPS

-----------------------------------------------------------------------------
(* The RPC client.                                                         *)

(* The client starts with a closed breaker and no call under way.          *)
LEMMA InitInv == Init => RpcInv
<1> SUFFICES ASSUME Init
             PROVE  RpcInv
  OBVIOUS
<1>1. TypeOK
  <2>1. fresh \in [Calls -> BOOLEAN] /\ expired \in BOOLEAN
    BY DEF Init
  <2>2. QED
    BY <2>1, RpcAssumption DEF Init, TypeOK, Kinds, Weathers, Steps, Outcomes, Seen,
                                     MaxTries
<1>2. SendOnce /\ OneProbe /\ AttemptsInv /\ CleanInv
  BY DEF Init, SendOnce, OneProbe, AttemptsInv, CleanInv
<1>3. QED
  BY <1>1, <1>2 DEF RpcInv

(* No step of a call, of the breaker's timer or of the node breaks types.  *)
LEMMA TypeStep == RpcInv /\ [Next]_rpcVars => TypeOK'
<1> SUFFICES ASSUME RpcInv, [Next]_rpcVars
             PROVE  TypeOK'
  OBVIOUS
<1> USE RpcAssumption
    DEF RpcInv, TypeOK, Kinds, Weathers, Steps, Outcomes, Seen, MaxTries, breakerVars
<1>1. ASSUME NEW c \in Calls, NEW k \in Kinds, Start(c, k)
      PROVE  TypeOK'
  BY <1>1 DEF Start, Goto
<1>2. ASSUME NEW c \in Calls, LimiterAdmits(c)
      PROVE  TypeOK'
  BY <1>2 DEF LimiterAdmits, Goto
<1>3. ASSUME NEW c \in Calls, LimiterRefuses(c)
      PROVE  TypeOK'
  BY <1>3 DEF LimiterRefuses, Forget, Goto
<1>4. ASSUME NEW c \in Calls, Admit(c)
      PROVE  TypeOK'
  <2>1. fresh' \in [Calls -> BOOLEAN] /\ expired' \in BOOLEAN
    BY <1>4 DEF Admit, HalfOpens
  <2>2. QED
    BY <1>4, <2>1 DEF Admit, Goto
<1>5. ASSUME NEW c \in Calls, Shed(c)
      PROVE  TypeOK'
  BY <1>5 DEF Shed, Forget, Goto
<1>6. ASSUME NEW c \in Calls, Reply(c)
      PROVE  TypeOK'
  <2>1. PICK o \in Results(kind[c]) :
           /\ out' = [out EXCEPT ![c] = o]
           /\ seen' = Worst(o)
           /\ Goto(c, IF Retries(c, o) THEN "backoff" ELSE "verdict")
    BY <1>6 DEF Reply
  <2>2. o \in Outcomes
    BY <2>1 DEF Results
  <2>3. seen' \in Seen
    BY <2>1 DEF Worst, Seen
  <2>4. QED
    BY <1>6, <2>1, <2>2, <2>3 DEF Reply, Goto
<1>7. ASSUME NEW c \in Calls, BackoffEnds(c)
      PROVE  TypeOK'
  <2>1. tries[c] + 1 \in 0..MaxTries
    BY <1>7 DEF BackoffEnds, AttemptsInv
  <2>2. QED
    BY <1>7, <2>1 DEF BackoffEnds, Goto
<1>8. ASSUME NEW c \in Calls, BackoffCancelled(c)
      PROVE  TypeOK'
  BY <1>8 DEF BackoffCancelled, Goto
<1>9. ASSUME NEW c \in Calls, VerdictStale(c)
      PROVE  TypeOK'
  <2>1. fresh' \in [Calls -> BOOLEAN] /\ expired' \in BOOLEAN
    BY <1>9 DEF VerdictStale, SetState
  <2>2. breaker' \in {"closed", "open", "half"} /\ failures' \in 0..(Threshold - 1)
        /\ probes' \in {0, 1}
    BY <1>9 DEF VerdictStale, SetState
  <2>3. Forget(c) /\ UNCHANGED <<weather, seen>>
    BY <1>9 DEF VerdictStale
  <2>4. QED
    BY <2>1, <2>2, <2>3 DEF Forget, Goto
<1>10. ASSUME NEW c \in Calls, VerdictSuccess(c)
       PROVE  TypeOK'
  <2>1. fresh' \in [Calls -> BOOLEAN] /\ expired' \in BOOLEAN
    BY <1>10 DEF VerdictSuccess, SetState, StayInGeneration
  <2>2. QED
    BY <1>10, <2>1 DEF VerdictSuccess, SetState, StayInGeneration, Forget, Goto
<1>11. ASSUME NEW c \in Calls, VerdictFailure(c)
       PROVE  TypeOK'
  <2>1. fresh' \in [Calls -> BOOLEAN] /\ expired' \in BOOLEAN
    BY <1>11 DEF VerdictFailure, SetState, StayInGeneration
  <2>2. QED
    BY <1>11, <2>1 DEF VerdictFailure, SetState, StayInGeneration, Forget, Goto
<1>12. CASE Expire
  BY <1>12 DEF Expire, callVars
<1>13. ASSUME NEW w \in Weathers, Change(w)
       PROVE  TypeOK'
  BY <1>13 DEF Change, callVars
<1>14. CASE UNCHANGED rpcVars
  BY <1>14 DEF rpcVars, callVars
<1>15. QED
  BY <1>1, <1>2, <1>3, <1>4, <1>5, <1>6, <1>7, <1>8, <1>9, <1>10, <1>11, <1>12,
     <1>13, <1>14 DEF Next, Step

(* A call's attempts stay within its budget, and a send has one.           *)
LEMMA AttemptsStep == RpcInv /\ [Next]_rpcVars => SendOnce' /\ AttemptsInv'
<1> SUFFICES ASSUME RpcInv, [Next]_rpcVars
             PROVE  SendOnce' /\ AttemptsInv'
  OBVIOUS
<1> USE RpcAssumption
    DEF RpcInv, TypeOK, SendOnce, AttemptsInv, Kinds, Steps, MaxTries
<1>1. ASSUME NEW c \in Calls, NEW k \in Kinds, Start(c, k)
      PROVE  SendOnce' /\ AttemptsInv'
  BY <1>1 DEF Start, Goto
<1>2. ASSUME NEW c \in Calls, LimiterAdmits(c)
      PROVE  SendOnce' /\ AttemptsInv'
  BY <1>2 DEF LimiterAdmits, Goto
<1>3. ASSUME NEW c \in Calls, Forget(c)
      PROVE  SendOnce' /\ AttemptsInv'
  BY <1>3 DEF Forget, Goto
<1>4. ASSUME NEW c \in Calls, Admit(c)
      PROVE  SendOnce' /\ AttemptsInv'
  BY <1>4 DEF Admit, Goto
<1>5. ASSUME NEW c \in Calls, Reply(c)
      PROVE  SendOnce' /\ AttemptsInv'
  <2>1. PICK o \in Results(kind[c]) :
           Goto(c, IF Retries(c, o) THEN "backoff" ELSE "verdict")
    BY <1>5 DEF Reply
  <2>2. UNCHANGED <<kind, tries>> /\ pc[c] = "attempt"
    BY <1>5 DEF Reply
  <2>3. CASE Retries(c, o)
    BY <2>1, <2>2, <2>3 DEF Retries, Goto
  <2>4. CASE ~Retries(c, o)
    BY <2>1, <2>2, <2>4 DEF Goto
  <2>5. QED
    BY <2>3, <2>4
<1>6. ASSUME NEW c \in Calls, BackoffEnds(c)
      PROVE  SendOnce' /\ AttemptsInv'
  BY <1>6 DEF BackoffEnds, Goto
<1>7. ASSUME NEW c \in Calls, BackoffCancelled(c)
      PROVE  SendOnce' /\ AttemptsInv'
  BY <1>7 DEF BackoffCancelled, Goto
<1>8. CASE Expire \/ (\E w \in Weathers : Change(w)) \/ UNCHANGED rpcVars
  BY <1>8 DEF Expire, Change, rpcVars, callVars
<1>9. QED
  BY <1>1, <1>2, <1>3, <1>4, <1>5, <1>6, <1>7, <1>8
     DEF Next, Step, LimiterRefuses, Shed, VerdictStale, VerdictSuccess,
         VerdictFailure

(* The half-open slot is held by exactly the probe that is running.        *)
LEMMA ProbeStep == RpcInv /\ [Next]_rpcVars => OneProbe'
<1> SUFFICES ASSUME RpcInv, [Next]_rpcVars
             PROVE  OneProbe'
  OBVIOUS
<1> USE DEF RpcInv, TypeOK, OneProbe, Inside, Steps, breakerVars
<1>1. ASSUME NEW c \in Calls, NEW k \in Kinds, Start(c, k)
      PROVE  OneProbe'
  BY <1>1 DEF Start, Goto
<1>2. ASSUME NEW c \in Calls, LimiterAdmits(c) \/ LimiterRefuses(c) \/ Shed(c)
      PROVE  OneProbe'
  BY <1>2 DEF LimiterAdmits, LimiterRefuses, Shed, Forget, Goto
<1>3. ASSUME NEW c \in Calls, Admit(c)
      PROVE  OneProbe'
  <2>1. \A d \in Calls : fresh'[d] = (d = c \/ (fresh[d] /\ ~HalfOpens))
    BY <1>3 DEF Admit
  <2>2. \A d \in Calls : fresh'[d] => pc'[d] \in Inside
    BY <1>3, <2>1 DEF Admit, Goto
  <2>3. CASE breaker = "closed"
    BY <1>3, <2>2, <2>3 DEF Admit
  <2>4. CASE breaker # "closed"
    <3>1. breaker' = "half" /\ probes' = 1
      BY <1>3, <2>4 DEF Admit
    <3>2. HalfOpens \/ \A d \in Calls : ~fresh[d]
      BY <1>3, <2>4 DEF Admit, Admits
    <3>3. \A d \in Calls : fresh'[d] <=> d = c
      BY <2>1, <3>2
    <3>4. QED
      BY <2>2, <3>1, <3>3
  <2>5. QED
    BY <2>3, <2>4
<1>4. ASSUME NEW c \in Calls, Reply(c)
      PROVE  OneProbe'
  <2>1. PICK s \in {"backoff", "verdict"} : Goto(c, s)
    BY <1>4 DEF Reply
  <2>2. UNCHANGED <<breaker, probes, fresh>>
    BY <1>4 DEF Reply
  <2>3. QED
    BY <2>1, <2>2 DEF Goto
<1>5. ASSUME NEW c \in Calls, BackoffEnds(c) \/ BackoffCancelled(c)
      PROVE  OneProbe'
  BY <1>5 DEF BackoffEnds, BackoffCancelled, Goto
<1>6. ASSUME NEW c \in Calls, VerdictStale(c)
      PROVE  OneProbe'
  BY <1>6 DEF VerdictStale, Belongs, SetState, Forget, Goto
<1>7. ASSUME NEW c \in Calls, VerdictSuccess(c)
      PROVE  OneProbe'
  BY <1>7 DEF VerdictSuccess, Belongs, SetState, StayInGeneration, Forget, Goto
<1>8. ASSUME NEW c \in Calls, VerdictFailure(c)
      PROVE  OneProbe'
  BY <1>8 DEF VerdictFailure, Belongs, SetState, StayInGeneration, Forget, Goto
<1>9. CASE Expire \/ (\E w \in Weathers : Change(w)) \/ UNCHANGED rpcVars
  BY <1>9 DEF Expire, Change, rpcVars, callVars
<1>10. QED
  BY <1>1, <1>2, <1>3, <1>4, <1>5, <1>6, <1>7, <1>8, <1>9 DEF Next, Step

(* Until the first fault the breaker is closed, without a streak, and no   *)
(* call carries a result that would start one.                             *)
LEMMA CleanStep == RpcInv /\ [Next]_rpcVars => CleanInv'
<1> SUFFICES ASSUME RpcInv, [Next]_rpcVars, seen' = "answers"
             PROVE  /\ breaker' = "closed" /\ failures' = 0
                    /\ \A d \in Calls : pc'[d] = "verdict" => CountsAsSuccess(out'[d])
  BY DEF CleanInv, CountsAsSuccess
<1> DEFINE Goal == /\ breaker' = "closed" /\ failures' = 0
                   /\ \A d \in Calls : pc'[d] = "verdict" => CountsAsSuccess(out'[d])
<1> USE DEF RpcInv, TypeOK, CleanInv, CountsAsSuccess, Steps, breakerVars
<1>1. ASSUME NEW c \in Calls, NEW k \in Kinds, Start(c, k)
      PROVE  Goal
  BY <1>1 DEF Start, Goto
<1>2. ASSUME NEW c \in Calls, LimiterAdmits(c) \/ LimiterRefuses(c) \/ Shed(c)
      PROVE  Goal
  BY <1>2 DEF LimiterAdmits, LimiterRefuses, Shed, Forget, Goto
<1>3. ASSUME NEW c \in Calls, Admit(c)
      PROVE  Goal
  BY <1>3 DEF Admit, Goto
<1>4. ASSUME NEW c \in Calls, Reply(c)
      PROVE  Goal
  <2>1. PICK o \in Results(kind[c]) :
           /\ out' = [out EXCEPT ![c] = o]
           /\ seen' = Worst(o)
           /\ Goto(c, IF Retries(c, o) THEN "backoff" ELSE "verdict")
    BY <1>4 DEF Reply
  <2>2. o \in Outcomes
    BY <2>1 DEF Results, Outcomes
  <2>3. seen = "answers" /\ CountsAsSuccess(o)
    BY <2>1, <2>2 DEF Outcomes, Faults, Worst
  <2>4. QED
    BY <1>4, <2>1, <2>3 DEF Reply, Goto
<1>5. ASSUME NEW c \in Calls, BackoffEnds(c) \/ BackoffCancelled(c)
      PROVE  Goal
  BY <1>5 DEF BackoffEnds, BackoffCancelled, Goto
<1>6. ASSUME NEW c \in Calls, VerdictStale(c)
      PROVE  Goal
  BY <1>6 DEF VerdictStale, HalfOpens, Forget, Goto
<1>7. ASSUME NEW c \in Calls, VerdictSuccess(c)
      PROVE  Goal
  BY <1>7 DEF VerdictSuccess, StayInGeneration, Forget, Goto
<1>8. ASSUME NEW c \in Calls, VerdictFailure(c)
      PROVE  Goal
  BY <1>8 DEF VerdictFailure
<1>9. CASE Expire \/ (\E w \in Weathers : Change(w)) \/ UNCHANGED rpcVars
  BY <1>9 DEF Expire, Change, rpcVars, callVars
<1>10. QED
  BY <1>1, <1>2, <1>3, <1>4, <1>5, <1>6, <1>7, <1>8, <1>9 DEF Next, Step

(* The inductive invariant of the RPC client.                              *)
THEOREM Invariance == Spec => []RpcInv
<1>1. RpcInv /\ [Next]_rpcVars => RpcInv'
  BY TypeStep, AttemptsStep, ProbeStep, CleanStep DEF RpcInv
<1>2. QED
  BY InitInv, <1>1, PTL DEF Spec

(* The breaker and the calls are well typed; in particular no call makes   *)
(* more than MaxRetries + 1 attempts.                                      *)
THEOREM TypeCorrect == Spec => []TypeOK
<1>1. RpcInv => TypeOK
  BY DEF RpcInv
<1>2. QED
  BY Invariance, <1>1, PTL

(* SendRawTransaction hands a signed transaction to the node at most once. *)
THEOREM SendsAreNotRetried == Spec => []SendOnce
<1>1. RpcInv => SendOnce
  BY DEF RpcInv
<1>2. QED
  BY Invariance, <1>1, PTL

(* For any number of calls, the half-open breaker runs one probe and never *)
(* loses its slot, whatever late results of the outage come in.            *)
THEOREM OneProbeAtATime == Spec => []OneProbe
<1>1. RpcInv => OneProbe
  BY DEF RpcInv
<1>2. QED
  BY Invariance, <1>1, PTL

(* Callers cannot trip the breaker by asking for what the node refuses.    *)
THEOREM AnswersDoNotTrip == Spec => []AnswersNeverTrip
<1>1. RpcInv => AnswersNeverTrip
  BY DEF RpcInv, CleanInv, AnswersNeverTrip
<1>2. QED
  BY Invariance, <1>1, PTL

-----------------------------------------------------------------------------
(* Ascending sequences. *)

(* s lists the numbers of S, the smallest first.                           *)
Lists(s, S) ==
    /\ s \in Seq(Nat)
    /\ \A i, j \in 1..Len(s) : i < j => s[i] < s[j]
    /\ \A i \in 1..Len(s) : s[i] \in S
    /\ \A x \in S : \E i \in 1..Len(s) : s[i] = x

(* A set of naturals has a least element.                                  *)
LEMMA LeastExists ==
  ASSUME NEW S \in SUBSET Nat, S # {}
  PROVE  \E x \in S : \A y \in S : x <= y
<1> DEFINE R == {ss \in Nat \X Nat : ss[1] < ss[2]}
<1>1. IsWellFoundedOn(R, Nat)
  BY NatLessThanWellFounded DEF OpToRel
<1>2. PICK x \in S : \A y \in S : ~ (<<y, x>> \in R)
  <2> HIDE DEF R
  <2>1. QED
    BY <1>1, WFMin
<1>3. ASSUME NEW y \in S PROVE x <= y
  <2>1. ~(<<y, x>> \in R) /\ x \in Nat /\ y \in Nat
    BY <1>2
  <2>2. <<y, x>> \in Nat \X Nat /\ <<y, x>>[1] = y /\ <<y, x>>[2] = x
    BY <2>1
  <2>3. QED
    BY <2>1, <2>2
<1>4. QED
  BY <1>3

(* There are n numbers from 1 to n.                                        *)
LEMMA UpTo ==
  ASSUME NEW n \in Nat
  PROVE  IsFiniteSet(1..n) /\ Cardinality(1..n) = n
<1>1. IsFiniteSet(1..n) /\ Cardinality(1..n) = IF 1 > n THEN 0 ELSE n - 1 + 1
  BY FS_Interval
<1>2. QED
  BY <1>1

(* The places of a listing and the set it lists are in bijection.          *)
LEMMA ListsCount ==
  ASSUME NEW S, NEW s, Lists(s, S)
  PROVE  /\ IsFiniteSet(S) /\ Cardinality(S) = Len(s) /\ S \in SUBSET Nat
         /\ Len(s) \in Nat
<1>1. s \in Seq(Nat) /\ Len(s) \in Nat
  BY DEF Lists
<1> DEFINE f == [i \in 1..Len(s) |-> s[i]]
<1>2. f \in Bijection(1..Len(s), S)
  <2>1. f \in [1..Len(s) -> S]
    BY DEF Lists
  <2>2. \A x \in S : \E i \in 1..Len(s) : f[i] = x
    BY DEF Lists
  <2>3. ASSUME NEW i \in 1..Len(s), NEW j \in 1..Len(s), f[i] = f[j] PROVE i = j
    <3>1. s[i] = s[j] /\ s[i] \in Nat /\ s[j] \in Nat
      BY <1>1, <2>3
    <3>2. ~(i < j) /\ ~(j < i)
      BY <3>1 DEF Lists
    <3>3. QED
      BY <1>1, <3>2
  <2> HIDE DEF f
  <2>4. QED
    BY <2>1, <2>2, <2>3 DEF Bijection, Injection, Surjection, IsInjective
<1>3. IsFiniteSet(1..Len(s)) /\ Cardinality(1..Len(s)) = Len(s)
  <2>1. /\ IsFiniteSet(1..Len(s))
        /\ Cardinality(1..Len(s)) = IF 1 > Len(s) THEN 0 ELSE Len(s) - 1 + 1
    BY <1>1, FS_Interval
  <2>2. QED
    BY <1>1, <2>1
<1>4. ExistsBijection(1..Len(s), S)
  BY <1>2 DEF ExistsBijection
<1>5. IsFiniteSet(S) /\ Cardinality(S) = Len(s)
  BY <1>3, <1>4, FS_Bijection
<1>6. S \in SUBSET Nat
  BY <1>1 DEF Lists
<1>7. QED
  BY <1>1, <1>5, <1>6

(* Two listings of a set agree.                                            *)
LEMMA ListsBelow ==
  ASSUME NEW S, NEW s, NEW t, Lists(s, S), Lists(t, S), NEW j \in 1..Len(s), j \in 1..Len(t),
         \A i \in 1..Len(s) : i < j => s[i] = t[i], s[j] < t[j]
  PROVE  FALSE
<1>1. PICK m \in 1..Len(t) : t[m] = s[j]
  BY DEF Lists
<1>2. s \in Seq(Nat) /\ t \in Seq(Nat)
  BY DEF Lists
<1>3. Len(s) \in Nat /\ Len(t) \in Nat /\ s[j] \in Nat /\ t[j] \in Nat /\ t[m] \in Nat
  <2>1. \A q \in Seq(Nat) : Len(q) \in Nat /\ \A i \in 1..Len(q) : q[i] \in Nat
    OBVIOUS
  <2>2. QED
    BY <1>2, <2>1
<1>4. CASE m < j
  <2>1. m \in 1..Len(s)
    BY <1>3, <1>4
  <2>2. s[m] = t[m] /\ s[m] < s[j]
    BY <1>4, <2>1 DEF Lists
  <2>3. QED
    BY <1>1, <1>3, <2>2
<1>5. CASE m = j
  BY <1>1, <1>3, <1>5
<1>6. CASE j < m
  <2>1. t[j] < t[m]
    BY <1>6 DEF Lists
  <2>2. QED
    BY <1>1, <1>3, <2>1
<1>7. QED
  BY <1>3, <1>4, <1>5, <1>6

(* A set has one listing.                                                  *)
LEMMA ListsUnique ==
  ASSUME NEW S, NEW s, NEW t, Lists(s, S), Lists(t, S)
  PROVE  s = t
<1>1. Len(s) = Len(t) /\ Len(s) \in Nat /\ s \in Seq(Nat) /\ t \in Seq(Nat)
  BY ListsCount DEF Lists
<1> DEFINE D == {i \in 1..Len(s) : s[i] # t[i]}
<1>2. D = {}
  <2>1. SUFFICES ASSUME D # {} PROVE FALSE
    OBVIOUS
  <2>2. D \in SUBSET Nat
    BY <1>1
  <2>3. PICK j \in D : \A i \in D : j <= i
    <3> HIDE DEF D
    <3>1. QED
      BY <2>1, <2>2, LeastExists
  <2>4. j \in 1..Len(s) /\ j \in 1..Len(t) /\ s[j] # t[j] /\ s[j] \in Nat /\ t[j] \in Nat
    BY <1>1
  <2>5. \A i \in 1..Len(s) : i < j => s[i] = t[i]
    BY <1>1, <2>3, <2>4
  <2>6. \A i \in 1..Len(t) : i < j => t[i] = s[i]
    BY <1>1, <2>5
  <2>7. s[j] < t[j] \/ t[j] < s[j]
    BY <2>4
  <2> HIDE DEF D
  <2>8. QED
    BY <2>4, <2>5, <2>6, <2>7, ListsBelow
<1>3. \A i \in 1..Len(s) : s[i] = t[i]
  BY <1>2
<1>4. QED
  BY <1>1, <1>3

(* How many numbers of a set lie below another.                            *)
Rank(S, i) == Cardinality({k \in S : k < i})

(* The rank of a number grows with it and stays below the set's size.      *)
LEMMA RankOrder ==
  ASSUME NEW S \in SUBSET Nat, IsFiniteSet(S), NEW i \in S
  PROVE  /\ Rank(S, i) \in Nat /\ Rank(S, i) < Cardinality(S)
         /\ \A j \in S : i < j => Rank(S, i) < Rank(S, j)
<1> DEFINE B(x) == {k \in S : k < x}
<1>1. \A x : IsFiniteSet(B(x)) /\ Cardinality(B(x)) \in Nat
  <2>1. ASSUME NEW x PROVE IsFiniteSet(B(x)) /\ Cardinality(B(x)) \in Nat
    <3>1. B(x) \in SUBSET S
      OBVIOUS
    <3> HIDE DEF B
    <3>2. QED
      BY <3>1, FS_Subset, FS_CardinalityType
  <2>2. QED
    BY <2>1
<1>2. ASSUME NEW T, IsFiniteSet(T), B(i) \cup {i} \in SUBSET T
      PROVE  Cardinality(B(i)) < Cardinality(T)
  <2>1. i \notin B(i)
    OBVIOUS
  <2> HIDE DEF B
  <2>2. IsFiniteSet(B(i) \cup {i}) /\ Cardinality(B(i) \cup {i}) = Cardinality(B(i)) + 1
    BY <1>1, <2>1, FS_AddElement
  <2>3. Cardinality(B(i) \cup {i}) <= Cardinality(T)
    BY <1>2, FS_Subset
  <2>4. Cardinality(T) \in Nat
    BY <1>2, FS_CardinalityType
  <2>5. QED
    BY <1>1, <2>2, <2>3, <2>4
<1>3. Cardinality(B(i)) < Cardinality(S)
  <2>1. B(i) \cup {i} \in SUBSET S
    OBVIOUS
  <2> HIDE DEF B
  <2>2. QED
    BY <1>2, <2>1
<1>4. ASSUME NEW j \in S, i < j PROVE Cardinality(B(i)) < Cardinality(B(j))
  <2>1. B(i) \cup {i} \in SUBSET B(j)
    <3> SUFFICES ASSUME NEW k \in S, k < i \/ k = i PROVE k < j
      OBVIOUS
    <3>1. k \in Nat /\ i \in Nat /\ j \in Nat
      OBVIOUS
    <3>2. QED
      BY <1>4, <3>1
  <2> HIDE DEF B
  <2>2. QED
    BY <1>1, <1>2, <2>1
<1>5. QED
  BY <1>1, <1>3, <1>4 DEF Rank

(* InOrder lists every finite set of numbers.                              *)
LEMMA InOrderLists ==
  ASSUME NEW S \in SUBSET Nat, IsFiniteSet(S)
  PROVE  Lists(InOrder(S), S)
<1> DEFINE n == Cardinality(S)
           r == [i \in S |-> Rank(S, i)]
           s == InOrder(S)
<1>1. n \in Nat
  BY FS_CardinalityType
<1>2. \A i, j \in S : Rank(S, i) = Rank(S, j) => i = j
  <2>1. ASSUME NEW i \in S, NEW j \in S, Rank(S, i) = Rank(S, j) PROVE i = j
    <3>1. ~(i < j) /\ ~(j < i)
      BY <2>1, RankOrder
    <3>2. QED
      BY <3>1
  <2>2. QED
    BY <2>1
<1>3. \A j \in 1..n : \E i \in S : Rank(S, i) = j - 1
  <2> DEFINE T == 0..(n - 1)
  <2>1. IsFiniteSet(T) /\ Cardinality(T) = n
    <3>1. IsFiniteSet(0..(n - 1)) /\ Cardinality(0..(n - 1)) = IF 0 > n - 1 THEN 0 ELSE (n - 1) - 0 + 1
      <4> HIDE DEF n
      <4>1. n - 1 \in Int /\ 0 \in Int
        BY <1>1
      <4>2. QED
        BY <4>1, FS_Interval
    <3> HIDE DEF n
    <3>2. QED
      BY <1>1, <3>1
  <2>2. r \in [S -> T]
    <3>1. \A i \in S : Rank(S, i) \in T
      BY <1>1, RankOrder
    <3>2. QED
      BY <3>1
  <2>3. r \in Injection(S, T)
    BY <1>2, <2>2 DEF Injection, IsInjective
  <2> HIDE DEF r, T
  <2>4. r \in Surjection(S, T)
    BY <2>1, <2>3, FS_Injection
  <2>5. \A x \in T : \E i \in S : r[i] = x
    BY <2>4 DEF Surjection
  <2>6. QED
    BY <1>1, <2>5 DEF r, T
<1>4. \A j \in 1..n : s[j] \in S /\ Rank(S, s[j]) = j - 1
  <2> SUFFICES ASSUME NEW j \in 1..n PROVE s[j] \in S /\ Rank(S, s[j]) = j - 1
    OBVIOUS
  <2>1. s[j] = CHOOSE i \in S : Rank(S, i) = j - 1
    BY DEF InOrder, Rank
  <2>2. \E i \in S : Rank(S, i) = j - 1
    BY <1>3
  <2> HIDE DEF s, n
  <2>3. QED
    BY <2>1, <2>2
<1>5. DOMAIN s = 1..n
  BY DEF InOrder
<1>6. s \in Seq(Nat) /\ Len(s) = n
  <2> DEFINE c(j) == CHOOSE i \in S : Cardinality({k \in S : k < i}) = j - 1
  <2>1. s = [j \in 1..n |-> c(j)]
    BY DEF InOrder
  <2>2. \A j \in 1..n : c(j) \in Nat
    BY <1>4, <2>1
  <2> HIDE DEF s, n, c
  <2>3. s \in [1..n -> Nat]
    BY <2>1, <2>2
  <2>4. QED
    BY <1>1, <2>3
<1> HIDE DEF s, n, r
<1>7. ASSUME NEW i \in 1..n, NEW j \in 1..n, i < j PROVE s[i] < s[j]
  <2>1. s[i] \in S /\ s[j] \in S /\ Rank(S, s[i]) = i - 1 /\ Rank(S, s[j]) = j - 1
    BY <1>4
  <2>2. ~(s[j] < s[i])
    <3>1. s[j] < s[i] => Rank(S, s[j]) < Rank(S, s[i])
      BY <2>1, RankOrder
    <3>2. QED
      BY <1>1, <1>7, <2>1, <3>1
  <2>3. s[i] # s[j]
    BY <1>1, <1>7, <2>1
  <2>4. s[i] \in Nat /\ s[j] \in Nat
    BY <2>1
  <2>5. QED
    BY <2>2, <2>3, <2>4
<1>8. ASSUME NEW x \in S PROVE \E i \in 1..n : s[i] = x
  <2>1. Rank(S, x) \in Nat /\ Rank(S, x) < n
    BY RankOrder DEF n
  <2>2. Rank(S, x) + 1 \in 1..n
    BY <1>1, <2>1
  <2>3. s[Rank(S, x) + 1] \in S /\ Rank(S, s[Rank(S, x) + 1]) = Rank(S, x)
    BY <1>4, <2>1, <2>2
  <2>4. QED
    BY <1>2, <2>2, <2>3
<1>9. QED
  BY <1>4, <1>6, <1>7, <1>8 DEF Lists, s

(* A set has one listing.                                                  *)
LEMMA ListsIs ==
  ASSUME NEW S, NEW s, Lists(s, S)
  PROVE  s = InOrder(S)
<1>1. IsFiniteSet(S) /\ S \in SUBSET Nat
  BY ListsCount
<1>2. Lists(InOrder(S), S)
  BY <1>1, InOrderLists
<1>3. QED
  BY <1>2, ListsUnique

(* Sequences that agree everywhere are equal.                              *)
LEMMA SeqEq ==
  ASSUME NEW X, NEW s \in Seq(X), NEW t \in Seq(X), Len(s) = Len(t),
         \A i \in 1..Len(t) : s[i] = t[i]
  PROVE  s = t
OBVIOUS

(* What the windows of a sequence are.                                     *)
LEMMA FirstIs ==
  ASSUME NEW X, NEW s \in Seq(X), NEW n \in Nat
  PROVE  /\ First(n, s) \in Seq(X)
         /\ Len(First(n, s)) = IF n < Len(s) THEN n ELSE Len(s)
         /\ \A i \in 1..Len(First(n, s)) : First(n, s)[i] = s[i]
BY DEF First

(* The window from a place on.                                             *)
LEMMA FromIs ==
  ASSUME NEW X, NEW s \in Seq(X), NEW n \in Nat
  PROVE  /\ From(n, s) \in Seq(X)
         /\ Len(From(n, s)) = IF n < Len(s) THEN Len(s) - n ELSE 0
         /\ \A i \in 1..Len(From(n, s)) : From(n, s)[i] = s[n + i]
BY DEF From

(* A listing of larger numbers is appended.                                *)
LEMMA ListsConcat ==
  ASSUME NEW S, NEW T, NEW s, NEW t, Lists(s, S), Lists(t, T),
         \A x \in S, y \in T : x < y
  PROVE  Lists(s \o t, S \cup T)
<1> DEFINE u == s \o t
           m == Len(s)
<1>1. s \in Seq(Nat) /\ t \in Seq(Nat) /\ u \in Seq(Nat) /\ Len(u) = m + Len(t)
      /\ m \in Nat /\ Len(t) \in Nat
  BY DEF Lists
<1>2. \A i \in 1..m : u[i] = s[i] /\ i \in 1..Len(u)
  BY <1>1
<1>3. \A i \in 1..Len(t) : u[m + i] = t[i] /\ m + i \in 1..Len(u)
  BY <1>1
<1>4. \A i \in 1..Len(u) : i \in 1..m \/ (i - m \in 1..Len(t) /\ u[i] = t[i - m])
  BY <1>1
<1> HIDE DEF u, m
<1>5. \A i \in 1..Len(u) : u[i] \in S \cup T
  BY <1>2, <1>4 DEF Lists, m
<1>6. ASSUME NEW x \in S \cup T PROVE \E i \in 1..Len(u) : u[i] = x
  <2>1. CASE x \in S
    BY <1>2, <2>1 DEF Lists, m
  <2>2. CASE x \in T
    <3>1. PICK i \in 1..Len(t) : t[i] = x
      BY <2>2 DEF Lists
    <3>2. QED
      BY <1>3, <3>1
  <2>3. QED
    BY <2>1, <2>2
<1>7. ASSUME NEW i \in 1..Len(u), NEW j \in 1..Len(u), i < j PROVE u[i] < u[j]
  <2>1. CASE i \in 1..m /\ j \in 1..m
    BY <1>2, <1>7, <2>1 DEF Lists, m
  <2>2. CASE i \in 1..m /\ j \notin 1..m
    <3>1. u[i] \in S
      BY <1>2, <2>2 DEF Lists, m
    <3>2. u[j] \in T
      BY <1>4, <2>2 DEF Lists
    <3>3. QED
      BY <3>1, <3>2
  <2>3. CASE i \notin 1..m
    <3>1. i - m \in 1..Len(t) /\ u[i] = t[i - m]
      BY <1>4, <2>3
    <3>2. j \notin 1..m
      BY <1>1, <1>7, <2>3
    <3>3. j - m \in 1..Len(t) /\ u[j] = t[j - m] /\ i - m < j - m
      BY <1>1, <1>4, <1>7, <3>2
    <3>4. QED
      BY <3>1, <3>3 DEF Lists
  <2>4. QED
    BY <2>1, <2>2, <2>3
<1>8. QED
  BY <1>1, <1>5, <1>6, <1>7 DEF Lists, u

(* The start of a listing lists what is smaller than the number after it.  *)
LEMMA ListsFirst ==
  ASSUME NEW S, NEW s, Lists(s, S), NEW n \in Nat, n < Len(s)
  PROVE  Lists(First(n, s), {x \in S : x < s[n + 1]}) /\ s[n + 1] \in S
<1> DEFINE u == First(n, s)
<1>1. s \in Seq(Nat) /\ Len(s) \in Nat
  BY DEF Lists
<1>2. u \in Seq(Nat) /\ Len(u) = n /\ \A i \in 1..n : u[i] = s[i] /\ i \in 1..Len(s)
  BY <1>1, FirstIs
<1>3. n + 1 \in 1..Len(s)
  BY <1>1
<1> HIDE DEF u
<1>4. \A i, j \in 1..n : i < j => u[i] < u[j]
  BY <1>2 DEF Lists
<1>5. \A i \in 1..n : u[i] \in S /\ u[i] < s[n + 1]
  <2> SUFFICES ASSUME NEW i \in 1..n PROVE u[i] \in S /\ u[i] < s[n + 1]
    OBVIOUS
  <2>1. i < n + 1
    OBVIOUS
  <2>2. QED
    BY <1>2, <1>3, <2>1 DEF Lists
<1>6. ASSUME NEW x \in S, x < s[n + 1] PROVE \E i \in 1..n : u[i] = x
  <2>1. PICK i \in 1..Len(s) : s[i] = x
    BY DEF Lists
  <2>2. s[i] \in Nat /\ s[n + 1] \in Nat
    BY <1>1, <1>3
  <2>3. ~(n + 1 < i) /\ i # n + 1
    <3>1. n + 1 < i => s[n + 1] < s[i]
      BY <1>3 DEF Lists
    <3>2. QED
      BY <1>6, <2>1, <2>2, <3>1
  <2>4. i \in 1..n
    BY <1>1, <2>3
  <2>5. QED
    BY <1>2, <2>1, <2>4
<1>7. s[n + 1] \in S
  BY <1>3 DEF Lists
<1>8. QED
  BY <1>2, <1>4, <1>5, <1>6, <1>7 DEF Lists, u

(* What is kept of a listing lists what is kept of the set.                *)
LEMMA KeepLists ==
  ASSUME NEW S, NEW s, NEW M, Lists(s, S)
  PROVE  Lists(Keep(s, M), S \cap M)
<1> DEFINE I == {i \in DOMAIN s : s[i] \in M}
           a == InOrder(I)
           u == Keep(s, M)
<1>1. s \in Seq(Nat) /\ Len(s) \in Nat /\ DOMAIN s = 1..Len(s)
  BY DEF Lists
<1>2. Lists(a, I)
  <2>1. I \in SUBSET Nat /\ I \in SUBSET (1..Len(s))
    BY <1>1
  <2>2. IsFiniteSet(1..Len(s))
    BY <1>1, FS_Interval
  <2> HIDE DEF I
  <2>3. QED
    BY <2>1, <2>2, FS_Subset, InOrderLists
<1>3. a \in Seq(Nat) /\ Len(a) \in Nat /\ DOMAIN a = 1..Len(a)
      /\ \A j \in 1..Len(a) : a[j] \in 1..Len(s) /\ s[a[j]] \in M
  BY <1>1, <1>2 DEF Lists
<1>4. u = [j \in 1..Len(a) |-> s[a[j]]]
  BY <1>3 DEF Keep
<1> HIDE DEF a, u
<1>5. u \in Seq(Nat) /\ Len(u) = Len(a) /\ \A j \in 1..Len(a) : u[j] = s[a[j]]
  <2>1. u \in [1..Len(a) -> Nat]
    BY <1>1, <1>3, <1>4
  <2>2. QED
    BY <1>3, <1>4, <2>1
<1>6. \A i, j \in 1..Len(u) : i < j => u[i] < u[j]
  <2> SUFFICES ASSUME NEW i \in 1..Len(a), NEW j \in 1..Len(a), i < j PROVE s[a[i]] < s[a[j]]
    BY <1>5
  <2>1. a[i] < a[j]
    BY <1>2 DEF Lists
  <2>2. QED
    BY <1>3, <2>1 DEF Lists
<1>7. \A i \in 1..Len(u) : u[i] \in S \cap M
  BY <1>3, <1>5 DEF Lists
<1>8. ASSUME NEW x \in S \cap M PROVE \E i \in 1..Len(u) : u[i] = x
  <2>1. PICK k \in 1..Len(s) : s[k] = x
    BY DEF Lists
  <2>2. k \in I
    BY <1>1, <2>1
  <2> HIDE DEF I
  <2>3. PICK j \in 1..Len(a) : a[j] = k
    BY <1>2, <2>2 DEF Lists
  <2>4. QED
    BY <1>5, <2>1, <2>3
<1>9. QED
  BY <1>5, <1>6, <1>7, <1>8 DEF Lists, u
-----------------------------------------------------------------------------
(* What the operators of the tools return. *)

Names == NameClasses \cup {Hole}

(* The registries of a table are finitely many, and InOrder lists them.    *)
LEMMA LiveIs ==
  ASSUME NEW t \in Seq(Names), NEW k \in Nat
  PROVE  /\ Live(t, k) \in SUBSET (1..Len(t)) /\ Live(t, k) \in SUBSET Nat
         /\ IsFiniteSet(Live(t, k))
         /\ Lists(InOrder(Live(t, k)), Live(t, k))
<1>1. Live(t, k) \in SUBSET (1..Len(t)) /\ Live(t, k) \in SUBSET Nat /\ Len(t) \in Nat
  BY DEF Live
<1>2. IsFiniteSet(1..Len(t))
  BY <1>1, FS_Interval
<1>3. IsFiniteSet(Live(t, k))
  BY <1>1, <1>2, FS_Subset
<1>4. QED
  BY <1>1, <1>3, InOrderLists

(* The ids the precompile lists are those of the registries; so is the     *)
(* last one.                                                               *)
LEMMA IdsIs ==
  ASSUME NEW t \in Seq(Names)
  PROVE  /\ Lists(Ids(t), Live(t, 0)) /\ Ids(t) \in Seq(Nat) /\ Len(Ids(t)) \in Nat
         /\ Ids(t) # << >> => Last(Ids(t)) \in Nat /\ Last(Ids(t)) \in Live(t, 0)
<1>1. Lists(Ids(t), Live(t, 0))
  BY LiveIs DEF Ids
<1>2. Ids(t) \in Seq(Nat) /\ Len(Ids(t)) \in Nat
  BY <1>1 DEF Lists
<1>3. ASSUME Ids(t) # << >> PROVE Last(Ids(t)) \in Nat /\ Last(Ids(t)) \in Live(t, 0)
  <2>1. Len(Ids(t)) \in 1..Len(Ids(t))
    BY <1>2, <1>3
  <2>2. QED
    BY <1>1, <1>2, <2>1 DEF Lists, Last
<1>4. QED
  BY <1>1, <1>2, <1>3

(* Filtering the rows of a walk leaves rows.                               *)
LEMMA KeepIs ==
  ASSUME NEW s \in Seq(Nat), NEW M
  PROVE  Keep(s, M) \in Seq(Nat) /\ Len(Keep(s, M)) \in Nat
<1> DEFINE I == {i \in DOMAIN s : s[i] \in M}
           a == InOrder(I)
<1>1. Len(s) \in Nat /\ DOMAIN s = 1..Len(s)
  OBVIOUS
<1>2. Lists(a, I)
  <2>1. I \in SUBSET Nat /\ I \in SUBSET (1..Len(s))
    BY <1>1
  <2>2. IsFiniteSet(1..Len(s))
    BY <1>1, FS_Interval
  <2> HIDE DEF I
  <2>3. QED
    BY <2>1, <2>2, FS_Subset, InOrderLists
<1>3. Len(a) \in Nat /\ DOMAIN a = 1..Len(a) /\ \A j \in 1..Len(a) : s[a[j]] \in Nat
  BY <1>1, <1>2 DEF Lists
<1>4. Keep(s, M) = [j \in 1..Len(a) |-> s[a[j]]]
  BY <1>3 DEF Keep
<1> HIDE DEF a
<1>5. QED
  BY <1>3, <1>4

(* The rows that a page is taken from: the window by offset, or the rest of *)
(* the table from the cursor on.                                           *)
Rest(key, offset) == IF key = 0 THEN From(offset, Ids(table)) ELSE InOrder(Live(table, key))

(* What a page is taken from is a sequence of ids.                         *)
LEMMA RestIs ==
  ASSUME ToolsTypeOK, NEW key \in Nat, NEW offset \in Nat
  PROVE  Rest(key, offset) \in Seq(Nat) /\ Len(Rest(key, offset)) \in Nat
<1>1. Ids(table) \in Seq(Nat)
  BY IdsIs DEF ToolsTypeOK, Names
<1>2. From(offset, Ids(table)) \in Seq(Nat)
  BY <1>1, FromIs
<1>3. InOrder(Live(table, key)) \in Seq(Nat)
  BY LiveIs DEF ToolsTypeOK, Names, Lists
<1>4. QED
  BY <1>2, <1>3 DEF Rest

(* A page of the chain has room for a row.                                 *)
LEMMA LimitIs ==
  ASSUME ToolsTypeOK, NEW limit \in Nat
  PROVE  Least(resolveLimit(limit), cap) \in Nat \ {0}
BY ToolsAssumption DEF ToolsTypeOK, Least, resolveLimit

(* A page is the first rows of the rest, and its cursor the row that       *)
(* follows, if there is one.                                               *)
LEMMA PageRows ==
  ASSUME ToolsTypeOK, NEW key \in Nat, NEW offset \in Nat, NEW limit \in Nat
  PROVE  LET p == GetRegistries(key, offset, limit)
             r == Rest(key, offset)
             n == Least(resolveLimit(limit), cap)
         IN  /\ p.next \in Nat /\ p.rows = First(n, r)
             /\ n < Len(r) => p.next = r[n + 1]
             /\ ~(n < Len(r)) => p.next = 0
             /\ Len(p.rows) = IF n < Len(r) THEN n ELSE Len(r)
<1> DEFINE p == GetRegistries(key, offset, limit)
           r == Rest(key, offset)
           n == Least(resolveLimit(limit), cap)
<1>1. n \in Nat \ {0}
  BY LimitIs
<1>2. r \in Seq(Nat) /\ Len(r) \in Nat
  BY RestIs
<1>3. p = [rows |-> First(n, r), next |-> IF Len(r) > n THEN r[n + 1] ELSE 0,
           total |-> IF counts /\ key = 0 THEN Len(Ids(table)) ELSE 0]
  BY DEF GetRegistries, Page, Rest, resolveLimit
<1> HIDE DEF p, r, n
<1>4. First(n, r) \in Seq(Nat) /\ Len(First(n, r)) = IF n < Len(r) THEN n ELSE Len(r)
  BY <1>1, <1>2, FirstIs
<1>5. Len(r) > n => r[n + 1] \in Nat
  BY <1>1, <1>2
<1>6. QED
  BY <1>1, <1>2, <1>3, <1>4, <1>5 DEF p, r, n

(* A page is well typed, and it carries a count only where the chain       *)
(* reports one.                                                            *)
LEMMA PageIs ==
  ASSUME ToolsTypeOK, NEW key \in Nat, NEW offset \in Nat, NEW limit \in Nat
  PROVE  LET p == GetRegistries(key, offset, limit)
         IN  /\ p.rows \in Seq(Nat) /\ p.next \in Nat /\ p.total \in Nat
             /\ p.total = IF counts /\ key = 0 THEN Len(Ids(table)) ELSE 0
<1> DEFINE p == GetRegistries(key, offset, limit)
           n == Least(resolveLimit(limit), cap)
<1>1. p.next \in Nat /\ p.rows = First(n, Rest(key, offset))
  BY PageRows
<1>2. p.rows \in Seq(Nat)
  <2>1. n \in Nat /\ Rest(key, offset) \in Seq(Nat)
    BY LimitIs, RestIs
  <2> HIDE DEF p, n
  <2>2. QED
    BY <1>1, <2>1, FirstIs
<1>3. p.total = IF counts /\ key = 0 THEN Len(Ids(table)) ELSE 0
  BY DEF GetRegistries, Page
<1>4. Len(Ids(table)) \in Nat
  BY IdsIs DEF ToolsTypeOK, Names
<1>5. QED
  BY <1>1, <1>2, <1>3, <1>4

(* A resolved limit is positive.                                           *)
LEMMA ResolveIs ==
  ASSUME NEW limit \in Nat
  PROVE  resolveLimit(limit) \in Nat /\ resolveLimit(limit) > 0
         /\ (limit < Wrap => resolveLimit(limit) < Wrap)
BY ToolsAssumption DEF resolveLimit

(* A window of the matches is a sequence of ids, even where offset + limit *)
(* wraps.                                                                  *)
LEMMA WindowType ==
  ASSUME NEW s \in Seq(Nat), NEW offset \in Nat, NEW limit \in Nat
  PROVE  pageRegistries(s, offset, limit) \in Seq(Nat)
<1> DEFINE end == (offset + limit) % Wrap
           m == IF end < offset THEN Len(s) ELSE Least(end, Len(s))
<1>1. end \in Nat /\ m \in Nat /\ m <= Len(s) /\ Len(s) \in Nat
  BY ToolsAssumption DEF Least
<1>2. pageRegistries(s, offset, limit) = IF offset >= Len(s) THEN << >> ELSE SubSeq(s, offset + 1, m)
  BY DEF pageRegistries
<1> HIDE DEF end, m
<1>3. QED
  BY <1>1, <1>2

(* The buffer is a fifth of the estimate: nothing wraps.                    *)
LEMMA BufferIs ==
  ASSUME NEW e \in Estimates
  PROVE  /\ applyGasBuffer(e) \in Nat /\ e \in Nat
         /\ applyGasBuffer(e) = e + e \div 5
<1>1. e \in Nat /\ 20 * e < Wrap /\ Wrap \in Nat \ {0}
  BY ToolsAssumption
<1>2. (e * 20) % Wrap = 20 * e
  <2> DEFINE y == e * 20
  <2>1. y \in Nat /\ y < Wrap /\ y = 20 * e
    BY <1>1
  <2> HIDE DEF y
  <2>2. y % Wrap = y
    BY <1>1, <2>1
  <2>3. QED
    BY <2>1, <2>2 DEF y
<1>3. (20 * e) \div 100 = e \div 5
  BY <1>1
<1> DEFINE x == e + e \div 5
<1>4. x \in Nat /\ x <= 20 * e
  BY <1>1
<1>5. x % Wrap = x
  <2> HIDE DEF x
  <2>1. x < Wrap
    BY <1>1, <1>4
  <2>2. QED
    BY <1>1, <1>4, <2>1
<1>6. applyGasBuffer(e) = x % Wrap
  BY <1>2, <1>3 DEF applyGasBuffer
<1>7. QED
  BY <1>1, <1>4, <1>5, <1>6

(* Among rows of which just one is flagged, that one is the latest.        *)
LEMMA LatestFlagged ==
  ASSUME NEW rows, NEW at \in SUBSET Nat, NEW w \in at, rows[w].isLatest,
         \A i \in at : rows[i].isLatest => i = w
  PROVE  LatestAmong(rows, at) = rows[w].index
<1> DEFINE flagged == {i \in at : rows[i].isLatest}
<1>1. flagged = {w}
  OBVIOUS
<1>2. (CHOOSE i \in flagged : \A j \in flagged : i <= j) = w
  <2> HIDE DEF flagged
  <2>1. w \in flagged /\ \A j \in flagged : w <= j
    BY <1>1
  <2>2. \A i \in flagged : i = w
    BY <1>1
  <2>3. QED
    BY <2>1, <2>2
<1>3. flagged # {}
  BY <1>1
<1>4. QED
  BY <1>2, <1>3 DEF LatestAmong

(* Among rows of which none is flagged, the highest index is the latest.   *)
LEMMA LatestHighest ==
  ASSUME NEW rows, NEW at, NEW v \in Nat, \A i \in at : ~rows[i].isLatest,
         {rows[i].index : i \in at} \cup {0} = 0..v
  PROVE  LatestAmong(rows, at) = v
<1> DEFINE S == {rows[i].index : i \in at} \cup {0}
<1>1. LatestAmong(rows, at) = Max(S)
  BY DEF LatestAmong
<1>2. S = 0..v
  OBVIOUS
<1> HIDE DEF S
<1>3. v \in S /\ \A y \in S : v >= y
  BY <1>2
<1>4. \A x \in S : (\A y \in S : x >= y) => x = v
  BY <1>2
<1>5. QED
  BY <1>1, <1>3, <1>4 DEF Max

(* Rows in front shift the others.                                         *)
LEMMA InFront ==
  ASSUME NEW R, NEW f \in Seq(R), NEW e \in Seq(R)
  PROVE  /\ DOMAIN (f \o e) = 1..(Len(f) + Len(e)) /\ Len(f) \in Nat /\ Len(e) \in Nat
         /\ \A i \in 1..Len(f) : (f \o e)[i] = f[i]
         /\ \A i \in 1..(Len(f) + Len(e)) :
               i \in 1..Len(f) \/ (i - Len(f) \in 1..Len(e) /\ (f \o e)[i] = e[i - Len(f)])
<1> DEFINE u == f \o e
           m == Len(f)
<1>1. u \in Seq(R) /\ Len(u) = m + Len(e) /\ m \in Nat /\ Len(e) \in Nat
  OBVIOUS
<1>2. \A i \in 1..m : u[i] = f[i]
  BY <1>1
<1>3. \A i \in 1..Len(u) : i \in 1..m \/ (i - m \in 1..Len(e) /\ u[i] = e[i - m])
  BY <1>1
<1>4. DOMAIN u = 1..Len(u)
  BY <1>1
<1>5. QED
  BY <1>1, <1>2, <1>3, <1>4

(* Of the rows that stand for every version, the last one is flagged.      *)
LEMMA EveryIs ==
  ASSUME ToolsTypeOK
  PROVE  LET v == account.version
             e == EveryVersion(TRUE)
         IN  /\ e \in Seq([mine : BOOLEAN, index : Nat, isLatest : BOOLEAN]) /\ Len(e) = v
             /\ DOMAIN e = 1..v
             /\ \A i \in 1..v : e[i].mine /\ e[i].index = i /\ (e[i].isLatest <=> i = v)
<1> DEFINE v == account.version
           e == EveryVersion(TRUE)
           R == [mine : BOOLEAN, index : Nat, isLatest : BOOLEAN]
<1>1. v \in Nat
  BY DEF ToolsTypeOK, Accounts
<1>2. e = [i \in 1..v |-> Row(TRUE, i, TRUE /\ i = v)]
  BY DEF EveryVersion
<1> HIDE DEF e, v
<1>3. DOMAIN e = 1..v /\ \A i \in 1..v : e[i] = Row(TRUE, i, TRUE /\ i = v)
  BY <1>2, Zenon
<1>4. ASSUME NEW i \in 1..v
      PROVE  e[i] \in R /\ e[i].mine /\ e[i].index = i /\ (e[i].isLatest <=> i = v)
  <2>1. i \in Nat
    BY <1>1
  <2>2. CASE i = v
    <3>1. (TRUE /\ i = v) = TRUE
      BY <2>2
    <3>2. e[i] = Row(TRUE, i, TRUE)
      BY <1>3, <3>1, Zenon
    <3>3. QED
      BY <2>1, <2>2, <3>2 DEF Row
  <2>3. CASE i # v
    <3>1. (TRUE /\ i = v) = FALSE
      BY <2>3
    <3>2. e[i] = Row(TRUE, i, FALSE)
      BY <1>3, <3>1, Zenon
    <3>3. QED
      BY <2>1, <2>3, <3>2 DEF Row
  <2>4. QED
    BY <2>2, <2>3
<1>5. e = [i \in 1..v |-> e[i]]
  BY <1>2, <1>3, Zenon
<1>6. e \in [1..v -> R]
  BY <1>4, <1>5, Zenon
<1>7. e \in Seq(R) /\ Len(e) = v
  <2> HIDE DEF R
  <2>1. QED
    BY <1>1, <1>6
<1>8. QED
  BY <1>3, <1>4, <1>7 DEF e, v

(* The rows of the records view name the latest version, whichever of its   *)
(* forms the view answers in, and no version when there is none.           *)
LEMMA LatestIs ==
  ASSUME ToolsTypeOK, NEW style \in VersionStyles
  PROVE  latestRecordIndex(Versions(style)) = account.version
<1> DEFINE v == account.version
           rows == Versions(style)
           own == {i \in DOMAIN rows : rows[i].mine /\ rows[i].index # 0}
<1>1. v \in Nat
  BY DEF ToolsTypeOK, Accounts
<1>2. latestRecordIndex(rows) = LatestAmong(rows, own)
  BY DEF latestRecordIndex
<1>3. SUFFICES LatestAmong(rows, own) = v
  BY <1>2
<1>4. CASE style = "latest" /\ v = 0
  <2>1. rows = << >>
    BY <1>4 DEF Versions
  <2>2. own = {}
    BY <2>1
  <2>3. {rows[i].index : i \in own} \cup {0} = 0..v
    BY <1>1, <1>4, <2>2
  <2> HIDE DEF rows, own
  <2>4. QED
    BY <1>1, <2>2, <2>3, LatestHighest
<1>5. CASE style = "latest" /\ v # 0
  <2>1. rows = <<[mine |-> TRUE, index |-> v, isLatest |-> TRUE]>>
    BY <1>5 DEF Versions, Row
  <2>2. DOMAIN rows = {1} /\ rows[1].isLatest /\ rows[1].index = v /\ rows[1].mine
    BY <2>1
  <2>3. own = {1}
    BY <1>5, <2>2
  <2> HIDE DEF rows, own
  <2>4. LatestAmong(rows, own) = rows[1].index
    BY <2>2, <2>3, LatestFlagged
  <2>5. QED
    BY <2>2, <2>4
<1>6. CASE style = "all"
  <2>1. rows = EveryVersion(TRUE)
    BY <1>6 DEF Versions
  <2>2. DOMAIN rows = 1..v /\ \A i \in 1..v : rows[i].mine /\ rows[i].index = i
    BY <2>1, EveryIs
  <2>3. \A i \in 1..v : rows[i].isLatest <=> i = v
    BY <2>1, EveryIs
  <2>4. own = 1..v
    BY <1>1, <2>2
  <2> HIDE DEF rows, own
  <2>5. CASE v = 0
    <3>1. {rows[i].index : i \in own} \cup {0} = 0..v /\ \A i \in own : ~rows[i].isLatest
      BY <1>1, <2>4, <2>5
    <3>2. QED
      BY <1>1, <3>1, LatestHighest
  <2>6. CASE v # 0
    <3>1. v \in own /\ rows[v].isLatest /\ rows[v].index = v /\ own \in SUBSET Nat
      BY <1>1, <2>2, <2>3, <2>4, <2>6
    <3>2. \A i \in own : rows[i].isLatest => i = v
      BY <2>3, <2>4
    <3>3. LatestAmong(rows, own) = rows[v].index
      BY <3>1, <3>2, LatestFlagged
    <3>4. QED
      BY <3>1, <3>3
  <2>7. QED
    BY <2>5, <2>6
<1>7. CASE style = "unflagged"
  <2>1. rows = [i \in 1..v |-> [mine |-> TRUE, index |-> i, isLatest |-> FALSE]]
    BY <1>7 DEF Versions, EveryVersion, Row
  <2>2. DOMAIN rows = 1..v /\ \A i \in 1..v : rows[i].mine /\ rows[i].index = i /\ ~rows[i].isLatest
    BY <2>1
  <2>3. own = 1..v
    BY <1>1, <2>2
  <2> HIDE DEF rows, own
  <2>4. {rows[i].index : i \in own} \cup {0} = 0..v /\ \A i \in own : ~rows[i].isLatest
    BY <1>1, <2>2, <2>3
  <2>5. QED
    BY <1>1, <2>4, LatestHighest
<1>8. CASE style = "mixed"
  <2> DEFINE e == EveryVersion(TRUE)
             f == <<Row(FALSE, v + 1, TRUE), Row(TRUE, 0, TRUE)>>
             R == [mine : BOOLEAN, index : Nat, isLatest : BOOLEAN]
  <2>1. rows = f \o e
    BY <1>8 DEF Versions
  <2>3. e \in Seq(R) /\ Len(e) = v
    BY EveryIs
  <2>4. Len(f) = 2 /\ ~f[1].mine /\ f[2].index = 0
        /\ f \in Seq(R)
    BY <1>1 DEF Row
  <2>5. \A i \in 1..v : e[i].mine /\ e[i].index = i /\ (e[i].isLatest <=> i = v)
    BY EveryIs
  <2> HIDE DEF e, f, rows, v, R
  <2>6. /\ DOMAIN rows = 1..(Len(f) + Len(e))
        /\ \A i \in 1..Len(f) : rows[i] = f[i]
        /\ \A i \in 1..(Len(f) + Len(e)) :
              i \in 1..Len(f) \/ (i - Len(f) \in 1..Len(e) /\ rows[i] = e[i - Len(f)])
    BY <2>1, <2>3, <2>4, InFront, Zenon
  <2>7. /\ DOMAIN rows = 1..(2 + v) /\ \A i \in 1..2 : rows[i] = f[i]
        /\ \A i \in 1..(2 + v) : i \in 1..2 \/ (i - 2 \in 1..v /\ rows[i] = e[i - 2])
    BY <2>3, <2>4, <2>6, Zenon
  <2>8. /\ DOMAIN rows = 1..(v + 2) /\ rows[1] = f[1] /\ rows[2] = f[2]
        /\ \A i \in 3..(v + 2) : rows[i] = e[i - 2] /\ i - 2 \in 1..v
    BY <1>1, <2>7
  <2>9. own = 3..(v + 2)
    <3>1. \A i \in 3..(v + 2) : rows[i].mine /\ rows[i].index # 0
      BY <1>1, <2>5, <2>8
    <3>2. \A i \in 1..(v + 2) : i = 1 \/ i = 2 \/ i \in 3..(v + 2)
      BY <1>1
    <3>3. ~rows[1].mine /\ rows[2].index = 0
      BY <2>4, <2>8
    <3>4. 3..(v + 2) \subseteq DOMAIN rows
      BY <1>1, <2>8
    <3>5. QED
      BY <2>8, <3>1, <3>2, <3>3, <3>4
  <2> HIDE DEF own
  <2>10. CASE v = 0
    <3>1. {rows[i].index : i \in own} \cup {0} = 0..v /\ \A i \in own : ~rows[i].isLatest
      BY <1>1, <2>9, <2>10
    <3>2. QED
      BY <1>1, <3>1, LatestHighest
  <2>11. CASE v # 0
    <3> DEFINE w == v + 2
    <3>1. w \in own /\ w - 2 = v /\ own \in SUBSET Nat /\ v \in 1..v
      BY <1>1, <2>9, <2>11
    <3>2. rows[w] = e[v]
      BY <2>8, <2>9, <3>1
    <3>3. rows[w].isLatest /\ rows[w].index = v
      BY <2>5, <3>1, <3>2
    <3>4. \A i \in own : rows[i].isLatest => i = w
      BY <1>1, <2>5, <2>8, <2>9
    <3> HIDE DEF w
    <3>5. LatestAmong(rows, own) = rows[w].index
      BY <3>1, <3>3, <3>4, LatestFlagged
    <3>6. QED
      BY <3>3, <3>5
  <2>12. QED
    BY <2>10, <2>11
<1>9. QED
  BY <1>4, <1>5, <1>6, <1>7, <1>8 DEF VersionStyles

(* Every answer has the form of its kind.                                  *)
LEMMA ErrorIs ==
  ASSUME NEW k \in ErrorKinds
  PROVE  Error(k) \in Answers /\ Error(k).kind = "error"
BY DEF Error, Answers

(* The answer of a listing has the form of its kind.                       *)
LEMMA ListedIs ==
  ASSUME NEW rows \in Seq(Nat), NEW next \in Nat, NEW total \in Nat, NEW exact \in BOOLEAN
  PROVE  LET l == Listed(rows, next, total, exact)
         IN  /\ l \in Answers /\ l.kind = "rows" /\ l.rows = rows /\ l.next = next
             /\ l.total = total /\ l.exact = exact /\ l.truncated = FALSE
BY DEF Listed, Answers

(* So have both forms of a prepared transaction.                           *)
LEMMA TxIs ==
  ASSUME NEW tx \in Txs, NEW tip \in Nat
  PROVE  /\ Legacy(tx) \in Answers /\ Legacy(tx).kind = "tx"
         /\ Dynamic(tx, tip) \in Answers /\ Dynamic(tx, tip).kind = "tx"
<1>1. maxFee(tx.price, tip) \in Nat /\ tx.price \in Nat
  BY DEF Txs, maxFee
<1>2. QED
  BY <1>1 DEF Legacy, Dynamic, Answers

-----------------------------------------------------------------------------
(* Types. *)

(* Which tools reach a step, and what a call still has to spend there.      *)
Flow ==
    call.pc # "none" =>
      /\ call.pc = "peek" => call.in.tool = "scan" /\ call.pages = 0
      /\ call.pc = "fetch" =>
           /\ call.pages < MaxPages /\ call.in.tool \in {"list", "scan"}
           /\ call.in.tool = "list" => Len(call.rows) < resolveLimit(call.in.limit)
      /\ call.pc = "total" => call.in.tool = "list"
      /\ call.pc = "lookup" => call.in.tool \notin {"list", "scan"} \cup PrepareTools
      /\ call.pc \in {"index", "nonce", "price", "gas", "tip"} => call.in.tool \in PrepareTools
      /\ call.pc = "index" => call.in.tool = "update_status" /\ call.in.index = 0

(* Each tool's first RPC.                                                  *)
LEMMA FirstStepIs ==
  ASSUME NEW in \in Inputs
  PROVE  /\ FirstStep(in) \in {"peek", "fetch", "index", "nonce", "lookup"}
         /\ FirstStep(in) = "peek" <=> in.tool = "scan"
         /\ FirstStep(in) = "fetch" <=> in.tool = "list"
         /\ FirstStep(in) = "index" <=> in.tool = "update_status" /\ in.index = 0
         /\ FirstStep(in) \in {"index", "nonce"} <=> in.tool \in PrepareTools
<1>1. in.tool \in Tools
  BY DEF Inputs
<1>2. CASE in.tool = "scan"
  <2>1. FirstStep(in) = "peek"
    BY <1>2 DEF FirstStep, PrepareTools
  <2>2. QED
    BY <1>2, <2>1 DEF PrepareTools
<1>3. CASE in.tool = "list"
  <2>1. FirstStep(in) = "fetch"
    BY <1>3 DEF FirstStep, PrepareTools
  <2>2. QED
    BY <1>3, <2>1 DEF PrepareTools
<1>4. CASE in.tool \in PrepareTools
  <2>1. CASE in.tool = "update_status" /\ in.index = 0
    <3>1. FirstStep(in) = "index"
      BY <1>4, <2>1 DEF FirstStep, PrepareTools
    <3>2. QED
      BY <1>4, <2>1, <3>1 DEF PrepareTools
  <2>2. CASE ~(in.tool = "update_status" /\ in.index = 0)
    <3>1. FirstStep(in) = "nonce"
      BY <1>4, <2>2 DEF FirstStep, PrepareTools
    <3>2. QED
      BY <1>4, <2>2, <3>1 DEF PrepareTools
  <2>3. QED
    BY <2>1, <2>2
<1>5. CASE in.tool \notin PrepareTools \cup {"list", "scan"}
  <2>1. FirstStep(in) = "lookup"
    BY <1>5 DEF FirstStep, PrepareTools
  <2>2. QED
    BY <1>5, <2>1 DEF PrepareTools
<1>6. QED
  BY <1>2, <1>3, <1>4, <1>5

(* A call as it is entered: nothing read, and refused or at its first RPC. *)
LEMMA EnteredIs ==
  ASSUME ToolsTypeOK, NEW in \in Inputs
  PROVE  LET c == Entered(in)
         IN  /\ c \in ToolCalls
             /\ c.in = in /\ c.rows = << >> /\ c.cursor = in.key /\ c.pages = 0 /\ c.total = 0
             /\ c.tx.index = in.index /\ c.more = TRUE
             /\ c.began = [size |-> Len(table), account |-> account]
             /\ c.out.kind = "error"
             /\ c.pc = "done" \/ (c.pc = FirstStep(in) /\ Refusal(in) = "")
<1> DEFINE c == [in |-> in, pc |-> FirstStep(in), out |-> Error("none"), rows |-> << >>,
                 cursor |-> in.key, pages |-> 0, more |-> TRUE, total |-> 0, highest |-> 0,
                 tx |-> [index |-> in.index, nonce |-> 0, price |-> 0, gas |-> 0, estimate |-> 0],
                 began |-> [size |-> Len(table), account |-> account]]
<1>1. c \in ToolCalls
  <2>1. FirstStep(in) \in {"peek", "fetch", "index", "nonce", "lookup"}
    BY FirstStepIs
  <2>2. in.key \in Nat /\ in.index \in Nat /\ 0 \in 0..MaxPages
    BY ToolsAssumption DEF Inputs
  <2>3. Len(table) \in Nat /\ account \in Accounts
    BY DEF ToolsTypeOK
  <2>4. Error("none") \in Answers
    BY ErrorIs DEF ErrorKinds
  <2>5. << >> \in Seq(Nat)
    OBVIOUS
  <2>6. [index |-> in.index, nonce |-> 0, price |-> 0, gas |-> 0, estimate |-> 0] \in Txs
    BY <2>2 DEF Txs
  <2>7. [size |-> Len(table), account |-> account] \in [size : Nat, account : Accounts]
    BY <2>3
  <2>8. QED
    BY <2>1, <2>2, <2>4, <2>5, <2>6, <2>7 DEF ToolCalls
<1>2. ASSUME NEW k \in ErrorKinds
      PROVE  LET d == [c EXCEPT !.pc = "done", !.out = Error(k)]
             IN  /\ d \in ToolCalls /\ d.in = in /\ d.rows = << >> /\ d.cursor = in.key
                 /\ d.pages = 0 /\ d.total = 0 /\ d.tx.index = in.index /\ d.more = TRUE
                 /\ d.began = [size |-> Len(table), account |-> account]
                 /\ d.out.kind = "error" /\ d.pc = "done"
  <2>1. Error(k) \in Answers /\ Error(k).kind = "error"
    BY ErrorIs
  <2>2. [c EXCEPT !.pc = "done", !.out = Error(k)] \in ToolCalls
    BY <1>1, <2>1 DEF ToolCalls
  <2>3. QED
    BY <2>1, <2>2
<1>3. /\ c.in = in /\ c.rows = << >> /\ c.cursor = in.key /\ c.pages = 0 /\ c.total = 0
      /\ c.tx.index = in.index /\ c.more = TRUE /\ c.pc = FirstStep(in)
      /\ c.began = [size |-> Len(table), account |-> account]
      /\ c.out.kind = "error"
  <2>1. c.out = Error("none")
    OBVIOUS
  <2>2. c.out.kind = "error"
    BY <2>1 DEF Error
  <2>3. QED
    BY <2>2
<1>4. CASE Refusal(in) # ""
  <2>1. Refusal(in) \in ErrorKinds
    BY <1>4 DEF Refusal, ErrorKinds
  <2>2. Entered(in) = [c EXCEPT !.pc = "done", !.out = Error(Refusal(in))]
    BY <1>4 DEF Entered
  <2> HIDE DEF c
  <2>3. QED
    BY <1>2, <2>1, <2>2
<1>5. CASE Refusal(in) = ""
  <2>1. Entered(in) = Building(c)
    BY <1>5 DEF Entered
  <2>2. \/ Building(c) = c
        \/ Building(c) = [c EXCEPT !.pc = "done", !.out = Error("invalid")]
    BY DEF Building
  <2>3. CASE Building(c) = c
    <3>1. Entered(in) = c
      BY <2>1, <2>3
    <3> HIDE DEF c
    <3>2. QED
      BY <1>1, <1>3, <1>5, <3>1
  <2>4. CASE Building(c) = [c EXCEPT !.pc = "done", !.out = Error("invalid")]
    <3>1. "invalid" \in ErrorKinds
      BY DEF ErrorKinds
    <3> HIDE DEF c
    <3>2. Entered(in) = [c EXCEPT !.pc = "done", !.out = Error("invalid")]
      BY <2>1, <2>4
    <3>3. QED
      BY <1>2, <3>1, <3>2
  <2>5. QED
    BY <2>2, <2>3, <2>4
<1>6. QED
  BY <1>4, <1>5

(* A step that answers leaves the rest of the call as it was.               *)
LEMMA FinishIs ==
  ASSUME call \in ToolCalls, NEW ans \in Answers, Finish(ans)
  PROVE  /\ call' \in ToolCalls /\ call'.pc = "done" /\ call'.out = ans
         /\ call'.in = call.in /\ call'.rows = call.rows /\ call'.cursor = call.cursor
         /\ call'.pages = call.pages /\ call'.more = call.more /\ call'.total = call.total
         /\ call'.tx = call.tx /\ call'.began = call.began
<1>1. call' = [call EXCEPT !.pc = "done", !.out = ans]
  BY DEF Finish
<1>2. call' \in ToolCalls
  BY <1>1 DEF ToolCalls
<1>3. QED
  BY <1>1, <1>2 DEF ToolCalls

(* What a page changes in a call.                                          *)
LEMMA AfterPageIs ==
  ASSUME NEW c \in ToolCalls, c.pages < MaxPages, NEW page,
         page.rows \in Seq(Nat), page.next \in Nat, page.total \in Nat
  PROVE  LET d == AfterPage(c, page)
         IN  /\ d \in ToolCalls /\ d.in = c.in /\ d.pc = c.pc /\ d.out = c.out /\ d.tx = c.tx
             /\ d.began = c.began /\ d.highest = c.highest
             /\ d.rows = c.rows \o page.rows /\ d.cursor = page.next /\ d.pages = c.pages + 1
             /\ d.more = (page.next # 0)
             /\ d.total = IF page.total > c.total THEN page.total ELSE c.total
<1> DEFINE rows == c.rows \o page.rows
           more == page.next # 0
           total == IF page.total > c.total THEN page.total ELSE c.total
           next == page.next
           pages == c.pages + 1
<1>1. c.rows \in Seq(Nat) /\ c.pages \in 0..MaxPages /\ c.total \in Nat
  BY DEF ToolCalls
<1>2. rows \in Seq(Nat) /\ more \in BOOLEAN /\ total \in Nat /\ next \in Nat /\ pages \in 0..MaxPages
  <2>1. rows \in Seq(Nat)
    BY <1>1
  <2>2. MaxPages \in Nat
    BY ToolsAssumption
  <2>3. pages \in 0..MaxPages
    BY <1>1, <2>2
  <2>4. total \in Nat /\ next \in Nat /\ more \in BOOLEAN
    BY <1>1
  <2>5. QED
    BY <2>1, <2>3, <2>4
<1>3. AfterPage(c, page) = [c EXCEPT !.rows = rows, !.cursor = next, !.pages = pages,
                                     !.more = more, !.total = total]
  BY DEF AfterPage
<1> HIDE DEF rows, more, total, next, pages
<1> DEFINE d == [c EXCEPT !.rows = rows, !.cursor = next, !.pages = pages, !.more = more,
                          !.total = total]
<1>4. d \in ToolCalls
  BY <1>2 DEF ToolCalls
<1>5. /\ d.in = c.in /\ d.pc = c.pc /\ d.out = c.out /\ d.tx = c.tx /\ d.began = c.began
      /\ d.highest = c.highest /\ d.rows = rows /\ d.cursor = next /\ d.pages = pages
      /\ d.more = more /\ d.total = total
  BY <1>2 DEF ToolCalls
<1> HIDE DEF d
<1>6. AfterPage(c, page) = d
  BY <1>3 DEF d
<1>7. QED
  BY <1>4, <1>5, <1>6, Zenon DEF rows, more, total, next, pages

(* The answer of a walk by name, in the form of its kind.                  *)
LEMMA FoundIs ==
  ASSUME NEW c \in ToolCalls, NEW cut \in BOOLEAN
  PROVE  LET f == Found(c, cut)
             hits == Keep(c.rows, matching(table, c.in.match))
         IN  /\ f \in Answers /\ f.kind = "rows" /\ f.truncated = cut
             /\ f.total = Len(hits)
             /\ f.rows = pageRegistries(hits, c.in.offset, resolveLimit(c.in.limit))
<1> DEFINE hits == Keep(c.rows, matching(table, c.in.match))
           rows == pageRegistries(hits, c.in.offset, resolveLimit(c.in.limit))
<1>1. c.rows \in Seq(Nat) /\ c.in.offset \in Nat /\ c.in.limit \in Nat
  BY DEF ToolCalls, Inputs
<1>2. hits \in Seq(Nat) /\ Len(hits) \in Nat
  BY <1>1, KeepIs
<1>3. rows \in Seq(Nat)
  <2> HIDE DEF hits
  <2>1. QED
    BY <1>1, <1>2, WindowType, ResolveIs
<1>4. Found(c, cut) = [kind |-> "rows", rows |-> rows, next |-> 0, total |-> Len(hits),
                       exact |-> ~cut, truncated |-> cut]
  BY DEF Found
<1> HIDE DEF rows, hits
<1>5. (~cut) \in BOOLEAN
  OBVIOUS
<1>6. Found(c, cut) \in Answers
  BY <1>2, <1>3, <1>4, <1>5 DEF Answers
<1>7. QED
  BY <1>4, <1>6 DEF rows, hits

(* What a fetch of the listing leaves: the rows of one page more, and the   *)
(* loop goes on, or the total is known, or it is to be looked up.           *)
LEMMA FetchListIs ==
  ASSUME ToolsTypeOK, Flow, FetchList
  PROVE  \E asked \in Nat \ {0} :
           LET p == GetRegistries(call.cursor, call.in.offset, asked)
           IN  /\ asked = Least(resolveLimit(call.in.limit) - Len(call.rows), PageSize)
               /\ p.rows \in Seq(Nat) /\ p.next \in Nat /\ p.total \in Nat
               /\ call' \in ToolCalls /\ call'.in = call.in /\ call'.began = call.began
               /\ call'.rows = call.rows \o p.rows /\ call'.cursor = p.next
               /\ call'.pages = call.pages + 1 /\ call'.more = (p.next # 0)
               /\ call'.total = IF p.total > call.total THEN p.total ELSE call.total
               /\ \/ call'.pc = "fetch" /\ Fetching(call') /\ session' = session
                  \/ call'.pc = "total" /\ ~Fetching(call') /\ session' = session
                  \/ /\ call'.pc = "done" /\ ~Fetching(call') /\ Knows(call')
                     /\ call'.out = Listed(call'.rows, call'.cursor,
                                           IF call'.total > 0 THEN call'.total
                                           ELSE call'.in.offset + Len(call'.rows), TRUE)
                     /\ session' = [session EXCEPT !.seen = @ \o call'.rows,
                                                   !.whole = call'.cursor = 0]
<1> DEFINE asked == Least(resolveLimit(call.in.limit) - Len(call.rows), PageSize)
           p == GetRegistries(call.cursor, call.in.offset, asked)
           c == AfterPage(call, p)
           known == IF c.total > 0 THEN c.total ELSE c.in.offset + Len(c.rows)
           ans == Listed(c.rows, c.cursor, known, TRUE)
<1>1. call \in ToolCalls /\ call.pc = "fetch" /\ call.in.tool = "list"
  BY DEF FetchList, ToolsTypeOK, NoCall
<1>2. call.pages < MaxPages /\ Len(call.rows) < resolveLimit(call.in.limit)
  BY <1>1 DEF Flow
<1>3. /\ call.cursor \in Nat /\ call.in.offset \in Nat /\ call.in.limit \in Nat
      /\ Len(call.rows) \in Nat
  BY <1>1 DEF ToolCalls, Inputs
<1>4. asked \in Nat \ {0}
  <2>1. resolveLimit(call.in.limit) \in Nat /\ PageSize \in Nat \ {0}
    BY <1>3, ResolveIs, ToolsAssumption
  <2>2. QED
    BY <1>2, <1>3, <2>1 DEF Least
<1>5. p.rows \in Seq(Nat) /\ p.next \in Nat /\ p.total \in Nat
  <2> HIDE DEF asked
  <2>1. QED
    BY <1>3, <1>4, PageIs
<1> HIDE DEF asked, p
<1>6. /\ c \in ToolCalls /\ c.in = call.in /\ c.pc = "fetch" /\ c.began = call.began
      /\ c.rows = call.rows \o p.rows /\ c.cursor = p.next /\ c.pages = call.pages + 1
      /\ c.more = (p.next # 0) /\ c.total = IF p.total > call.total THEN p.total ELSE call.total
  BY <1>1, <1>2, <1>5, AfterPageIs
<1>7. \/ Fetching(c) /\ call' = c /\ session' = session
      \/ /\ ~Fetching(c) /\ Knows(c) /\ call' = [c EXCEPT !.pc = "done", !.out = ans]
         /\ session' = [session EXCEPT !.seen = @ \o c.rows, !.whole = c.cursor = 0]
      \/ ~Fetching(c) /\ call' = [c EXCEPT !.pc = "total"] /\ session' = session
  BY DEF FetchList, Collected, asked, p
<1>8. ans \in Answers
  <2>1. c.rows \in Seq(Nat) /\ c.cursor \in Nat /\ c.total \in Nat /\ c.in.offset \in Nat
    BY <1>6 DEF ToolCalls, Inputs
  <2>2. known \in Nat
    BY <2>1
  <2> HIDE DEF known, c
  <2>3. QED
    BY <2>1, <2>2, ListedIs
<1> HIDE DEF c, ans
<1>9. CASE Fetching(c) /\ call' = c /\ session' = session
  BY <1>4, <1>5, <1>6, <1>9 DEF asked, p
<1>10. CASE ~Fetching(c) /\ call' = [c EXCEPT !.pc = "total"] /\ session' = session
  <2>1. /\ call' \in ToolCalls /\ call'.pc = "total" /\ call'.in = c.in /\ call'.began = c.began
        /\ call'.rows = c.rows /\ call'.cursor = c.cursor /\ call'.pages = c.pages
        /\ call'.more = c.more /\ call'.total = c.total
    BY <1>6, <1>10 DEF ToolCalls
  <2>2. ~Fetching(call')
    BY <1>10, <2>1 DEF Fetching
  <2>3. /\ call'.in = call.in /\ call'.began = call.began
        /\ call'.rows = call.rows \o p.rows /\ call'.cursor = p.next
        /\ call'.pages = call.pages + 1 /\ call'.more = (p.next # 0)
        /\ call'.total = IF p.total > call.total THEN p.total ELSE call.total
    BY <1>6, <2>1, Zenon
  <2>4. QED
    BY <1>4, <1>5, <1>10, <2>1, <2>2, <2>3 DEF asked, p
<1>11. CASE /\ ~Fetching(c) /\ Knows(c) /\ call' = [c EXCEPT !.pc = "done", !.out = ans]
            /\ session' = [session EXCEPT !.seen = @ \o c.rows, !.whole = c.cursor = 0]
  <2>1. /\ call' \in ToolCalls /\ call'.pc = "done" /\ call'.in = c.in /\ call'.began = c.began
        /\ call'.rows = c.rows /\ call'.cursor = c.cursor /\ call'.pages = c.pages
        /\ call'.more = c.more /\ call'.total = c.total /\ call'.out = ans
    BY <1>6, <1>8, <1>11 DEF ToolCalls
  <2>2. ~Fetching(call') /\ Knows(call')
    BY <1>11, <2>1 DEF Fetching, Knows
  <2>3. call'.out = Listed(call'.rows, call'.cursor,
                           IF call'.total > 0 THEN call'.total
                           ELSE call'.in.offset + Len(call'.rows), TRUE)
    BY <2>1 DEF ans
  <2>4. session' = [session EXCEPT !.seen = @ \o call'.rows, !.whole = call'.cursor = 0]
    BY <1>11, <2>1
  <2>5. QED
    BY <1>4, <1>5, <1>6, <2>1, <2>2, <2>3, <2>4 DEF asked, p
<1>12. QED
  BY <1>7, <1>9, <1>10, <1>11

(* A page of a walk by name goes on, ends the table or uses the pages up.  *)
LEMMA FetchScanIs ==
  ASSUME ToolsTypeOK, Flow, FetchScan
  PROVE  LET p == GetRegistries(call.cursor, 0, PageSize)
         IN  /\ p.rows \in Seq(Nat) /\ p.next \in Nat /\ p.total \in Nat
             /\ call' \in ToolCalls /\ call'.in = call.in /\ call'.began = call.began
             /\ call'.rows = call.rows \o p.rows /\ call'.cursor = p.next
             /\ call'.pages = call.pages + 1
             /\ \/ call'.pc = "fetch" /\ p.next # 0 /\ call'.pages < MaxPages
                \/ /\ call'.pc = "done" /\ p.next = 0
                   /\ \E cut \in BOOLEAN : call'.out = Found(call', cut)
                \/ call'.pc = "done" /\ call'.out = Found(call', TRUE)
<1> DEFINE p == GetRegistries(call.cursor, 0, PageSize)
           c == AfterPage(call, p)
           cut == Len(c.rows) < c.highest
<1>1. call \in ToolCalls /\ call.pc = "fetch" /\ call.in.tool = "scan"
  BY DEF FetchScan, ToolsTypeOK, NoCall
<1>2. call.pages < MaxPages
  BY <1>1 DEF Flow
<1>3. call.cursor \in Nat /\ 0 \in Nat /\ PageSize \in Nat
  BY <1>1, ToolsAssumption DEF ToolCalls
<1>4. p.rows \in Seq(Nat) /\ p.next \in Nat /\ p.total \in Nat
  BY <1>3, PageIs
<1> HIDE DEF p
<1>5. /\ c \in ToolCalls /\ c.in = call.in /\ c.pc = "fetch" /\ c.began = call.began
      /\ c.rows = call.rows \o p.rows /\ c.cursor = p.next /\ c.pages = call.pages + 1
      /\ c.more = (p.next # 0)
  BY <1>1, <1>2, <1>4, AfterPageIs
<1>6. call' = IF ~c.more THEN [c EXCEPT !.pc = "done", !.out = Found(c, cut)]
              ELSE IF c.pages = MaxPages THEN [c EXCEPT !.pc = "done", !.out = Found(c, TRUE)]
              ELSE c
  BY DEF FetchScan, p
<1>7. cut \in BOOLEAN /\ TRUE \in BOOLEAN
  OBVIOUS
<1> HIDE DEF c, cut
<1>8. ASSUME NEW b \in BOOLEAN, call' = [c EXCEPT !.pc = "done", !.out = Found(c, b)]
      PROVE  /\ call' \in ToolCalls /\ call'.in = c.in /\ call'.began = c.began
             /\ call'.rows = c.rows /\ call'.cursor = c.cursor /\ call'.pages = c.pages
             /\ call'.pc = "done" /\ call'.out = Found(call', b)
  <2>1. Found(c, b) \in Answers
    BY <1>5, FoundIs
  <2>2. /\ call' \in ToolCalls /\ call'.in = c.in /\ call'.began = c.began
        /\ call'.rows = c.rows /\ call'.cursor = c.cursor /\ call'.pages = c.pages
        /\ call'.pc = "done" /\ call'.out = Found(c, b)
    BY <1>5, <1>8, <2>1 DEF ToolCalls
  <2>3. Found(call', b) = Found(c, b)
    BY <2>2 DEF Found
  <2>4. QED
    BY <2>2, <2>3
<1>9. CASE ~c.more
  <2>1. call' = [c EXCEPT !.pc = "done", !.out = Found(c, cut)]
    BY <1>6, <1>9
  <2>2. p.next = 0
    BY <1>5, <1>9
  <2>3. QED
    BY <1>4, <1>5, <1>7, <1>8, <2>1, <2>2 DEF p
<1>10. CASE c.more /\ c.pages = MaxPages
  <2>1. call' = [c EXCEPT !.pc = "done", !.out = Found(c, TRUE)]
    BY <1>6, <1>10
  <2>2. QED
    BY <1>4, <1>5, <1>7, <1>8, <2>1 DEF p
<1>11. CASE c.more /\ c.pages # MaxPages
  <2>1. call' = c
    BY <1>6, <1>11
  <2>2. c.pages < MaxPages
    BY <1>2, <1>5, <1>11, ToolsAssumption DEF ToolCalls
  <2>3. p.next # 0
    BY <1>5, <1>11
  <2>4. QED
    BY <1>4, <1>5, <2>1, <2>2, <2>3 DEF p
<1>12. QED
  BY <1>9, <1>10, <1>11

(* The state of a listing that a page of the client's session leads to.     *)
LEMMA NextPageIs ==
  ASSUME ToolsTypeOK, NEW byOffset \in BOOLEAN, NextPage(byOffset)
  PROVE  LET in == IF byOffset
                   THEN [call.in EXCEPT !.offset = @ + resolveLimit(call.in.limit)]
                   ELSE [call.in EXCEPT !.key = call.out.next, !.offset = 0]
         IN  /\ call \in ToolCalls /\ call.in \in Inputs /\ call.out \in Answers
             /\ call.out.next \in Nat
             /\ in \in Inputs /\ in.tool = "list" /\ in.limit = call.in.limit
             /\ in.key = IF byOffset THEN call.in.key ELSE call.out.next
             /\ in.offset = IF byOffset THEN call.in.offset + resolveLimit(call.in.limit) ELSE 0
             /\ call' = Entered(in)
<1>1. call \in ToolCalls /\ call.out.kind = "rows" /\ call.in.tool = "list"
  BY DEF NextPage, ToolsTypeOK, NoCall
<1>2. call.in \in Inputs /\ call.out \in Answers
  BY <1>1 DEF ToolCalls
<1>3. call.out.next \in Nat
  BY <1>1, <1>2 DEF Answers
<1>4. CASE byOffset
  <2> DEFINE o == call.in.offset + resolveLimit(call.in.limit)
             in == [call.in EXCEPT !.offset = o]
  <2>1. o \in Nat
    BY <1>2, ResolveIs DEF Inputs
  <2>2. call' = Entered(in)
    BY <1>4 DEF NextPage
  <2> HIDE DEF o
  <2>3. in \in Inputs /\ in.tool = "list" /\ in.limit = call.in.limit /\ in.key = call.in.key
        /\ in.offset = o
    BY <1>1, <1>2, <2>1 DEF Inputs
  <2>4. QED
    BY <1>1, <1>2, <1>3, <1>4, <2>2, <2>3 DEF o
<1>5. CASE ~byOffset
  <2> DEFINE in == [call.in EXCEPT !.key = call.out.next, !.offset = 0]
  <2>1. call' = Entered(in)
    BY <1>5 DEF NextPage
  <2>2. in \in Inputs /\ in.tool = "list" /\ in.limit = call.in.limit /\ in.key = call.out.next
        /\ in.offset = 0
    BY <1>1, <1>2, <1>3 DEF Inputs
  <2>3. QED
    BY <1>1, <1>2, <1>3, <1>5, <2>1, <2>2
<1>6. QED
  BY <1>4, <1>5

(* A call that has just been entered is at its first step.                  *)
LEMMA EnteredFlow ==
  ASSUME ToolsTypeOK, NEW in \in Inputs, call' = Entered(in)
  PROVE  call' \in ToolCalls /\ Flow'
<1> DEFINE c == Entered(in)
<1>1. /\ c \in ToolCalls /\ c.in = in /\ c.rows = << >> /\ c.pages = 0
      /\ c.pc = "done" \/ c.pc = FirstStep(in)
  BY EnteredIs
<1> HIDE DEF c
<1>2. in.limit \in Nat /\ Len(c.rows) < resolveLimit(in.limit) /\ 0 < MaxPages
  <2>1. in.limit \in Nat /\ Len(c.rows) = 0
    BY <1>1 DEF Inputs
  <2>2. resolveLimit(in.limit) \in Nat /\ resolveLimit(in.limit) > 0
    BY <2>1, ResolveIs
  <2>3. 0 < MaxPages
    BY ToolsAssumption
  <2>4. QED
    BY <2>1, <2>2, <2>3
<1>3. CASE c.pc = "done"
  BY <1>1, <1>3 DEF Flow, c
<1>4. CASE c.pc = FirstStep(in)
  <2>1. /\ c.pc = "peek" => in.tool = "scan"
        /\ c.pc = "fetch" => in.tool = "list"
        /\ c.pc \in {"index", "nonce"} => in.tool \in PrepareTools
        /\ c.pc = "index" => in.tool = "update_status" /\ in.index = 0
        /\ c.pc = "lookup" => in.tool \notin {"list", "scan"} \cup PrepareTools
        /\ c.pc \in {"peek", "fetch", "index", "nonce", "lookup"}
    BY <1>4, FirstStepIs
  <2>2. call' = c
    BY DEF c
  <2>3. QED
    BY <1>1, <1>2, <2>1, <2>2 DEF Flow
<1>5. QED
  BY <1>1, <1>3, <1>4

(* A step of a preparation changes the transaction and nothing else.       *)
LEMMA TxStep ==
  ASSUME call \in ToolCalls, NEW tx \in Txs, NEW at \in {"nonce", "price", "gas", "tip"},
         call' = [call EXCEPT !.pc = at, !.tx = tx]
  PROVE  /\ call' \in ToolCalls /\ call'.pc = at /\ call'.tx = tx /\ call'.in = call.in
         /\ call'.began = call.began /\ call'.out = call.out
BY DEF ToolCalls

(* A call that is done is at no RPC.                                       *)
LEMMA FinishFlow ==
  ASSUME call \in ToolCalls, NEW ans \in Answers, Finish(ans)
  PROVE  call' \in ToolCalls /\ Flow'
<1>1. call' \in ToolCalls /\ call'.pc = "done"
  BY FinishIs
<1>2. QED
  BY <1>1 DEF Flow

(* Resolving the version goes on to the nonce, or refuses the sender.       *)
LEMMA ResolveIndexIs ==
  ASSUME ToolsTypeOK, Flow, ResolveIndex
  PROVE  /\ call \in ToolCalls /\ call' \in ToolCalls /\ call'.in = call.in
         /\ call'.began = call.began
         /\ \/ call'.pc = "done" /\ call'.out.kind = "error"
            \/ call'.pc = "nonce" /\ call'.tx.index = account.version /\ account.version # 0
<1>1. call \in ToolCalls /\ call.pc = "index"
  BY DEF ResolveIndex, ToolsTypeOK, NoCall
<1>2. IF account.version = 0 THEN Finish(Error("not_found"))
      ELSE call' = Building([call EXCEPT !.pc = "nonce", !.tx.index = account.version])
  <2>1. PICK style \in VersionStyles :
            LET index == latestRecordIndex(Versions(style))
            IN  IF index = 0 THEN Finish(Error("not_found"))
                ELSE call' = Building([call EXCEPT !.pc = "nonce", !.tx.index = index])
    BY DEF ResolveIndex
  <2>2. latestRecordIndex(Versions(style)) = account.version
    BY LatestIs
  <2>3. QED
    BY <2>1, <2>2
<1>3. CASE account.version = 0
  <2>1. Error("not_found") \in Answers /\ Error("not_found").kind = "error"
    BY ErrorIs DEF ErrorKinds
  <2>2. QED
    BY <1>1, <1>2, <1>3, <2>1, FinishIs
<1>4. CASE account.version # 0
  <2> DEFINE v == account.version
             tx == [call.tx EXCEPT !.index = v]
             d == [call EXCEPT !.pc = "nonce", !.tx = tx]
             e == [d EXCEPT !.pc = "done", !.out = Error("invalid")]
  <2>2. [call EXCEPT !.pc = "nonce", !.tx.index = v] = d
    BY <1>1 DEF ToolCalls
  <2>3. tx \in Txs /\ tx.index = v
    BY <1>1 DEF ToolsTypeOK, Accounts, ToolCalls, Txs
  <2> HIDE DEF tx
  <2>4. d \in ToolCalls /\ d.pc = "nonce" /\ d.tx = tx /\ d.in = call.in /\ d.began = call.began
    BY <1>1, <2>3 DEF ToolCalls
  <2> HIDE DEF d
  <2>5. Error("invalid") \in Answers /\ Error("invalid").kind = "error"
    BY ErrorIs DEF ErrorKinds
  <2>6. e \in ToolCalls /\ e.pc = "done" /\ e.in = d.in /\ e.began = d.began /\ e.out = Error("invalid")
    BY <2>4, <2>5 DEF ToolCalls
  <2>7. call' = d \/ call' = e
    BY <1>2, <1>4, <2>2 DEF Building
  <2> HIDE DEF e
  <2>8. QED
    BY <1>1, <1>4, <2>3, <2>4, <2>5, <2>6, <2>7
<1>5. QED
  BY <1>3, <1>4

(* The estimate completes a type-0 transaction and goes on to the tip else. *)
LEMMA EstimateGasIs ==
  ASSUME ToolsTypeOK, EstimateGas
  PROVE  \E e \in Estimates :
           LET tx == [call.tx EXCEPT !.gas = applyGasBuffer(e), !.estimate = e]
           IN  /\ call \in ToolCalls /\ call' \in ToolCalls /\ call'.in = call.in
               /\ call'.began = call.began /\ tx \in Txs /\ call'.tx = tx
               /\ tx.index = call.tx.index /\ tx.nonce = call.tx.nonce /\ tx.price = call.tx.price
               /\ tx.gas = e + e \div 5 /\ tx.estimate = e
               /\ \/ call'.pc = "done" /\ call'.out = Legacy(tx)
                  \/ call'.pc = "tip" /\ call'.out = call.out
<1>1. call \in ToolCalls /\ call.pc = "gas"
  BY DEF EstimateGas, ToolsTypeOK, NoCall
<1>2. PICK e \in Estimates :
          LET tx == [call.tx EXCEPT !.gas = applyGasBuffer(e), !.estimate = e]
          IN  call' = IF call.in.legacy
                      THEN [call EXCEPT !.pc = "done", !.tx = tx, !.out = Legacy(tx)]
                      ELSE [call EXCEPT !.pc = "tip", !.tx = tx]
  BY DEF EstimateGas
<1> DEFINE gas == applyGasBuffer(e)
           tx == [call.tx EXCEPT !.gas = gas, !.estimate = e]
<1>3. gas \in Nat /\ e \in Nat /\ gas = e + e \div 5
  BY BufferIs
<1> HIDE DEF gas
<1>4. /\ tx \in Txs /\ tx.index = call.tx.index /\ tx.nonce = call.tx.nonce
      /\ tx.price = call.tx.price /\ tx.gas = gas /\ tx.estimate = e
  BY <1>1, <1>3 DEF ToolCalls, Txs
<1>5. \/ call' = [call EXCEPT !.pc = "done", !.tx = tx, !.out = Legacy(tx)]
      \/ call' = [call EXCEPT !.pc = "tip", !.tx = tx]
  BY <1>2 DEF gas
<1> HIDE DEF tx
<1>6. CASE call' = [call EXCEPT !.pc = "done", !.tx = tx, !.out = Legacy(tx)]
  <2>1. Legacy(tx) \in Answers
    BY <1>4, TxIs
  <2>2. /\ call' \in ToolCalls /\ call'.pc = "done" /\ call'.out = Legacy(tx) /\ call'.tx = tx
        /\ call'.in = call.in /\ call'.began = call.began
    BY <1>1, <1>4, <1>6, <2>1 DEF ToolCalls
  <2>3. QED
    BY <1>1, <1>3, <1>4, <2>2 DEF tx, gas
<1>7. CASE call' = [call EXCEPT !.pc = "tip", !.tx = tx]
  <2>1. /\ call' \in ToolCalls /\ call'.pc = "tip" /\ call'.out = call.out /\ call'.tx = tx
        /\ call'.in = call.in /\ call'.began = call.began
    BY <1>1, <1>4, <1>7, TxStep
  <2>2. QED
    BY <1>1, <1>3, <1>4, <2>1 DEF tx, gas
<1>8. QED
  BY <1>5, <1>6, <1>7

(* The tip of a type-2 transaction is positive, whether the node quotes    *)
(* one, quotes none or fails.                                              *)
LEMMA TipIs ==
  ASSUME ToolsTypeOK, SuggestGasTipCap \/ TipFails
  PROVE  /\ call \in ToolCalls /\ call.pc = "tip"
         /\ \E tip \in Nat \ {0} : Finish(Dynamic(call.tx, tip)) /\ Dynamic(call.tx, tip) \in Answers
<1>1. call \in ToolCalls /\ call.pc = "tip"
  BY DEF SuggestGasTipCap, TipFails, ToolsTypeOK, NoCall
<1>2. \E tip \in Nat \ {0} : Finish(Dynamic(call.tx, tip))
  <2>1. CASE SuggestGasTipCap
    <3>1. PICK tip \in Tips : Finish(Dynamic(call.tx, IF tip <= 0 THEN DefaultTip ELSE tip))
      BY <2>1 DEF SuggestGasTipCap
    <3>2. (IF tip <= 0 THEN DefaultTip ELSE tip) \in Nat \ {0}
      BY ToolsAssumption
    <3>3. QED
      BY <3>1, <3>2
  <2>2. CASE TipFails
    BY <2>2, ToolsAssumption DEF TipFails
  <2>3. QED
    BY <2>1, <2>2
<1>3. call.tx \in Txs
  BY <1>1 DEF ToolCalls
<1>4. QED
  BY <1>1, <1>2, <1>3, TxIs

(* A call that was begun is well typed.                                    *)
LEMMA CallOpen ==
  ASSUME ToolsTypeOK, call.pc # "none"
  PROVE  call \in ToolCalls
BY DEF ToolsTypeOK, NoCall

(* The peek at the highest id answers for an empty table, and starts the    *)
(* walk else.                                                              *)
LEMMA PeekIs ==
  ASSUME ToolsTypeOK, Flow, PeekHighest \/ PeekHighestFails
  PROVE  /\ call \in ToolCalls /\ call' \in ToolCalls /\ call.pc = "peek" /\ call.in.tool = "scan"
         /\ call'.in = call.in /\ call'.began = call.began /\ call'.rows = call.rows
         /\ call'.cursor = call.cursor /\ call'.pages = call.pages
         /\ call.pages = 0
         /\ \/ call'.pc = "fetch"
            \/ call'.pc = "done" /\ Ids(table) = << >> /\ call'.out = Found(call, FALSE)
<1>1. call \in ToolCalls /\ call.pc = "peek"
  <2>1. call.pc = "peek"
    BY DEF PeekHighest, PeekHighestFails
  <2>2. QED
    BY <2>1, CallOpen
<1>2. call.in.tool = "scan" /\ call.pages = 0
  BY <1>1 DEF Flow
<1>3. CASE PeekHighest /\ Ids(table) = << >>
  <2>1. Finish(Found(call, FALSE))
    BY <1>3 DEF PeekHighest
  <2>2. Found(call, FALSE) \in Answers
    BY <1>1, FoundIs
  <2>3. QED
    BY <1>1, <1>2, <1>3, <2>1, <2>2, FinishIs
<1>4. CASE PeekHighest /\ Ids(table) # << >>
  <2> DEFINE h == Last(Ids(table))
  <2>1. h \in Nat
    BY <1>4, IdsIs DEF ToolsTypeOK, Names
  <2>2. call' = [call EXCEPT !.pc = "fetch", !.highest = h]
    BY <1>4 DEF PeekHighest
  <2> HIDE DEF h
  <2>3. /\ call' \in ToolCalls /\ call'.pc = "fetch" /\ call'.in = call.in
        /\ call'.began = call.began /\ call'.rows = call.rows /\ call'.cursor = call.cursor
        /\ call'.pages = call.pages
    BY <1>1, <2>1, <2>2 DEF ToolCalls
  <2>4. QED
    BY <1>1, <1>2, <2>3
<1>5. CASE PeekHighestFails
  <2>1. call' = [call EXCEPT !.pc = "fetch"]
    BY <1>5 DEF PeekHighestFails
  <2>2. /\ call' \in ToolCalls /\ call'.pc = "fetch" /\ call'.in = call.in
        /\ call'.began = call.began /\ call'.rows = call.rows /\ call'.cursor = call.cursor
        /\ call'.pages = call.pages
    BY <1>1, <2>1 DEF ToolCalls
  <2>3. QED
    BY <1>1, <1>2, <2>2
<1>6. QED
  BY <1>3, <1>4, <1>5

(* A lookup of one row, and the failure of a call, answer at once.          *)
LEMMA LookupIs ==
  ASSUME ToolsTypeOK, Flow, GetRegistry \/ RegistriesByID \/ GetRecords
  PROVE  /\ call \in ToolCalls /\ call.in.tool \notin {"list", "scan"} \cup PrepareTools
         /\ \E ans \in Answers : Finish(ans) /\ ans.kind # "tx"
<1>1. call \in ToolCalls /\ call.pc = "lookup"
  <2>1. call.pc = "lookup"
    BY DEF GetRegistry, RegistriesByID, GetRecords
  <2>2. QED
    BY <2>1, CallOpen
<1>2. call.in.tool \notin {"list", "scan"} \cup PrepareTools
  BY <1>1 DEF Flow
<1>3. <<call.in.index>> \in Seq(Nat) /\ << >> \in Seq(Nat)
  BY <1>1 DEF ToolCalls, Inputs
<1>4. /\ \A rows \in {<< >>, <<call.in.index>>} :
           Listed(rows, 0, 0, TRUE) \in Answers /\ Listed(rows, 0, 0, TRUE).kind = "rows"
      /\ Error("not_found") \in Answers /\ Error("not_found").kind = "error"
  <2>1. "not_found" \in ErrorKinds
    BY DEF ErrorKinds
  <2>2. ASSUME NEW rows \in {<< >>, <<call.in.index>>}
        PROVE  Listed(rows, 0, 0, TRUE) \in Answers /\ Listed(rows, 0, 0, TRUE).kind = "rows"
    <3>1. rows \in Seq(Nat)
      BY <1>3
    <3>2. QED
      BY <3>1 DEF Listed, Answers
  <2>3. Error("not_found") \in Answers /\ Error("not_found").kind = "error"
    BY <2>1, ErrorIs
  <2>4. QED
    BY <2>2, <2>3
<1>5. \/ Finish(Error("not_found"))
      \/ \E rows \in {<< >>, <<call.in.index>>} : Finish(Listed(rows, 0, 0, TRUE))
  BY DEF GetRegistry, RegistriesByID, GetRecords
<1>6. QED
  BY <1>1, <1>2, <1>4, <1>5

(* A failed RPC ends the call with an error.                               *)
LEMMA FailsIs ==
  ASSUME ToolsTypeOK, Fails
  PROVE  call \in ToolCalls /\ \E ans \in Answers : Finish(ans) /\ ans.kind = "error"
<1>1. call \in ToolCalls
  BY DEF Fails, ToolsTypeOK, NoCall
<1>2. PICK k \in Reported(call.pc) : Finish(Error(k))
  BY DEF Fails
<1>3. k \in ErrorKinds
  BY DEF Reported, ErrorKinds
<1>4. QED
  BY <1>1, <1>2, <1>3, ErrorIs

(* The lookup of the total answers with the rows of the call.               *)
LEMMA TotalIs ==
  ASSUME ToolsTypeOK, Flow, PeekTotal \/ PeekTotalFails
  PROVE  /\ call \in ToolCalls /\ call.pc = "total" /\ call.in.tool = "list"
         /\ \E total \in Nat, exact \in BOOLEAN :
              /\ Finish(Listed(call.rows, call.cursor, total, exact))
              /\ Listed(call.rows, call.cursor, total, exact) \in Answers
              /\ total = IF exact THEN IF Ids(table) = << >> THEN 0 ELSE Last(Ids(table))
                                  ELSE call.in.offset + Len(call.rows)
         /\ session' = [session EXCEPT !.seen = @ \o call.rows, !.whole = call.cursor = 0]
<1>1. call \in ToolCalls /\ call.pc = "total"
  <2>1. call.pc = "total"
    BY DEF PeekTotal, PeekTotalFails
  <2>2. QED
    BY <2>1, CallOpen
<1>2. call.in.tool = "list"
  BY <1>1 DEF Flow
<1>3. session' = [session EXCEPT !.seen = @ \o call.rows, !.whole = call.cursor = 0]
  BY DEF PeekTotal, PeekTotalFails, Collected
<1>4. call.rows \in Seq(Nat) /\ call.cursor \in Nat /\ call.in.offset \in Nat /\ Len(call.rows) \in Nat
  BY <1>1 DEF ToolCalls, Inputs
<1>5. CASE PeekTotal
  <2> DEFINE total == IF Ids(table) = << >> THEN 0 ELSE Last(Ids(table))
  <2>1. Finish(Listed(call.rows, call.cursor, total, TRUE))
    BY <1>5 DEF PeekTotal
  <2>2. total \in Nat
    BY IdsIs DEF ToolsTypeOK, Names
  <2> HIDE DEF total
  <2>3. Listed(call.rows, call.cursor, total, TRUE) \in Answers
    BY <1>4, <2>2, ListedIs
  <2>4. QED
    BY <1>1, <1>2, <1>3, <2>1, <2>2, <2>3 DEF total
<1>6. CASE PeekTotalFails
  <2> DEFINE total == call.in.offset + Len(call.rows)
  <2>1. Finish(Listed(call.rows, call.cursor, total, FALSE))
    BY <1>6 DEF PeekTotalFails
  <2>2. total \in Nat
    BY <1>4
  <2> HIDE DEF total
  <2>3. Listed(call.rows, call.cursor, total, FALSE) \in Answers
    BY <1>4, <2>2, ListedIs
  <2>4. QED
    BY <1>1, <1>2, <1>3, <2>1, <2>2, <2>3 DEF total
<1>7. QED
  BY <1>5, <1>6

(* Every step preserves the types and the order of the RPCs.               *)
LEMMA ToolsTypeStep == ToolsTypeOK /\ Flow /\ [ToolsNext]_toolVars => ToolsTypeOK' /\ Flow'
<1> SUFFICES ASSUME ToolsTypeOK, Flow, [ToolsNext]_toolVars
             PROVE  ToolsTypeOK' /\ Flow'
  OBVIOUS
<1> DEFINE Rest0 == /\ table' \in Seq(NameClasses \cup {Hole}) /\ cap' \in Nat \ {0}
                    /\ counts' \in BOOLEAN /\ abi' \in BOOLEAN /\ account' \in Accounts
                    /\ session' \in Sessions
                    /\ moves' \in 0..MaxMoves /\ fails' \in 0..MaxFails
<1>0. ASSUME Rest0, call' \in ToolCalls PROVE ToolsTypeOK'
  BY <1>0 DEF ToolsTypeOK
<1>a. ASSUME UNCHANGED chain, session' \in Sessions, moves' = moves,
             fails' = fails \/ (fails < MaxFails /\ fails' = fails + 1)
      PROVE  Rest0
  BY <1>a, ToolsAssumption DEF ToolsTypeOK, chain
<1>b. ASSUME NEW in \in Inputs PROVE Opened(in) \in Sessions
  <2>1. in.key \in Nat /\ in.offset \in Nat /\ Len(table) \in Nat /\ << >> \in Seq(Nat)
    BY DEF ToolsTypeOK, Inputs
  <2>2. NoSession \in Sessions
    BY <2>1 DEF NoSession, Sessions
  <2>3. QED
    BY <2>1, <2>2 DEF Opened, Sessions
<1>c. ASSUME NEW rows \in Seq(Nat), NEW next \in Nat,
             session' = [session EXCEPT !.seen = @ \o rows, !.whole = next = 0]
      PROVE  session' \in Sessions
  <2> DEFINE got == session.seen \o rows
             whole == next = 0
  <2>1. got \in Seq(Nat) /\ whole \in BOOLEAN
    BY DEF ToolsTypeOK, Sessions
  <2>2. session' = [session EXCEPT !.seen = got, !.whole = whole]
    BY <1>c
  <2> HIDE DEF got, whole
  <2>3. QED
    BY <2>1, <2>2 DEF ToolsTypeOK, Sessions
<1>d. session \in Sessions
  BY DEF ToolsTypeOK
<1> HIDE DEF Rest0
<1>1. CASE \E in \in Requests : Begin(in)
  <2>1. PICK in \in Requests : Begin(in)
    BY <1>1
  <2>2. in \in Inputs
    BY ToolsAssumption
  <2>3. call' = Entered(in) /\ session' = Opened(in) /\ UNCHANGED <<chain, moves, fails>>
    BY <2>1 DEF Begin
  <2>4. QED
    BY <1>0, <1>a, <1>b, <2>2, <2>3, EnteredFlow
<1>2. CASE FetchList
  <2>1. UNCHANGED <<chain, moves, fails>>
    BY <1>2 DEF FetchList
  <2>2. /\ call' \in ToolCalls /\ call'.in = call.in
        /\ \/ call'.pc = "fetch" /\ Fetching(call') /\ session' = session
           \/ call'.pc = "total" /\ session' = session
           \/ /\ call'.pc = "done"
              /\ session' = [session EXCEPT !.seen = @ \o call'.rows, !.whole = call'.cursor = 0]
    BY <1>2, FetchListIs
  <2>3. call'.rows \in Seq(Nat) /\ call'.cursor \in Nat
    BY <2>2 DEF ToolCalls
  <2>4. session' \in Sessions
    BY <1>c, <1>d, <2>2, <2>3
  <2>5. call.in.tool = "list"
    BY <1>2 DEF FetchList
  <2>6. Flow'
    BY <2>2, <2>5 DEF Flow, Fetching
  <2>7. QED
    BY <1>0, <1>a, <2>1, <2>2, <2>4, <2>6
<1>3. CASE PeekTotal \/ PeekTotalFails
  <2>1. UNCHANGED <<chain, moves>> /\ (fails' = fails \/ (fails < MaxFails /\ fails' = fails + 1))
    BY <1>3 DEF PeekTotal, PeekTotalFails
  <2>2. /\ call \in ToolCalls
        /\ \E ans \in Answers : Finish(ans)
        /\ session' = [session EXCEPT !.seen = @ \o call.rows, !.whole = call.cursor = 0]
    BY <1>3, TotalIs
  <2>3. call.rows \in Seq(Nat) /\ call.cursor \in Nat
    BY <2>2 DEF ToolCalls
  <2>4. session' \in Sessions
    BY <1>c, <2>2, <2>3
  <2>5. QED
    BY <1>0, <1>a, <2>1, <2>2, <2>4, FinishFlow
<1>4. CASE NextPage(TRUE) \/ NextPage(FALSE)
  <2>1. PICK b \in BOOLEAN : NextPage(b)
    BY <1>4
  <2>2. UNCHANGED <<chain, moves, fails>> /\ session' = [session EXCEPT !.byOffset = @ \/ b]
    BY <2>1 DEF NextPage
  <2>3. session' \in Sessions
    <3> DEFINE x == session.byOffset \/ b
    <3>1. x \in BOOLEAN
      OBVIOUS
    <3>2. session' = [session EXCEPT !.byOffset = x]
      BY <2>2
    <3> HIDE DEF x
    <3>3. QED
      BY <1>d, <3>1, <3>2 DEF Sessions
  <2>4. \E in \in Inputs : call' = Entered(in)
    BY <2>1, NextPageIs
  <2>5. QED
    BY <1>0, <1>a, <2>2, <2>3, <2>4, EnteredFlow
<1>5. CASE PeekHighest \/ PeekHighestFails
  <2>1. /\ UNCHANGED <<chain, session, moves>>
        /\ fails' = fails \/ (fails < MaxFails /\ fails' = fails + 1)
    BY <1>5 DEF PeekHighest, PeekHighestFails
  <2>2. /\ call' \in ToolCalls /\ call'.in = call.in /\ call'.pages = 0 /\ call.in.tool = "scan"
        /\ call'.pc \in {"fetch", "done"}
    BY <1>5, PeekIs
  <2>3. Flow'
    BY <2>2, ToolsAssumption DEF Flow
  <2>4. QED
    BY <1>0, <1>a, <1>d, <2>1, <2>2, <2>3
<1>6. CASE FetchScan
  <2>1. UNCHANGED <<chain, session, moves, fails>> /\ call.in.tool = "scan"
    BY <1>6 DEF FetchScan
  <2>2. /\ call' \in ToolCalls /\ call'.in = call.in
        /\ (call'.pc = "fetch" /\ call'.pages < MaxPages) \/ call'.pc = "done"
    BY <1>6, FetchScanIs
  <2>3. Flow'
    BY <2>1, <2>2 DEF Flow
  <2>4. QED
    BY <1>0, <1>a, <1>d, <2>1, <2>2, <2>3
<1>7. CASE GetRegistry \/ RegistriesByID \/ GetRecords
  <2>1. UNCHANGED <<chain, session, moves, fails>>
    BY <1>7 DEF GetRegistry, RegistriesByID, GetRecords
  <2>2. QED
    BY <1>0, <1>a, <1>d, <1>7, <2>1, LookupIs, FinishFlow
<1>8. CASE ResolveIndex
  <2>1. UNCHANGED <<chain, session, moves, fails>> /\ call.pc = "index"
    BY <1>8 DEF ResolveIndex
  <2>2. /\ call' \in ToolCalls /\ call'.in = call.in /\ call'.pc \in {"done", "nonce"}
    BY <1>8, ResolveIndexIs
  <2>3. Flow'
    BY <2>1, <2>2 DEF Flow
  <2>4. QED
    BY <1>0, <1>a, <1>d, <2>1, <2>2, <2>3
<1>9. CASE PendingNonceAt
  <2> DEFINE tx == [call.tx EXCEPT !.nonce = account.nonce]
  <2>1. UNCHANGED <<chain, session, moves, fails>> /\ call.pc = "nonce" /\ call \in ToolCalls
    BY <1>9, CallOpen DEF PendingNonceAt
  <2>2. tx \in Txs /\ call' = [call EXCEPT !.pc = "price", !.tx = tx]
    BY <1>9, <2>1 DEF PendingNonceAt, ToolsTypeOK, Accounts, ToolCalls, Txs
  <2> HIDE DEF tx
  <2>3. call' \in ToolCalls /\ call'.in = call.in /\ call'.pc = "price"
    BY <2>1, <2>2, TxStep
  <2>4. Flow'
    BY <2>1, <2>3 DEF Flow
  <2>5. QED
    BY <1>0, <1>a, <1>d, <2>1, <2>3, <2>4
<1>10. CASE SuggestGasPrice
  <2> DEFINE tx == [call.tx EXCEPT !.price = account.price]
  <2>1. UNCHANGED <<chain, session, moves, fails>> /\ call.pc = "price" /\ call \in ToolCalls
    BY <1>10, CallOpen DEF SuggestGasPrice
  <2>2. tx \in Txs /\ call' = [call EXCEPT !.pc = "gas", !.tx = tx]
    BY <1>10, <2>1, ToolsAssumption DEF SuggestGasPrice, ToolsTypeOK, Accounts, ToolCalls, Txs
  <2> HIDE DEF tx
  <2>3. call' \in ToolCalls /\ call'.in = call.in /\ call'.pc = "gas"
    BY <2>1, <2>2, TxStep
  <2>4. Flow'
    BY <2>1, <2>3 DEF Flow
  <2>5. QED
    BY <1>0, <1>a, <1>d, <2>1, <2>3, <2>4
<1>11. CASE EstimateGas
  <2>1. UNCHANGED <<chain, session, moves, fails>> /\ call.pc = "gas"
    BY <1>11 DEF EstimateGas
  <2>2. call' \in ToolCalls /\ call'.in = call.in /\ call'.pc \in {"done", "tip"}
    BY <1>11, EstimateGasIs
  <2>3. Flow'
    BY <2>1, <2>2 DEF Flow
  <2>4. QED
    BY <1>0, <1>a, <1>d, <2>1, <2>2, <2>3
<1>12. CASE SuggestGasTipCap \/ TipFails
  <2>1. /\ UNCHANGED <<chain, session, moves>>
        /\ fails' = fails \/ (fails < MaxFails /\ fails' = fails + 1)
    BY <1>12 DEF SuggestGasTipCap, TipFails
  <2>2. QED
    BY <1>0, <1>a, <1>d, <1>12, <2>1, TipIs, FinishFlow
<1>13. CASE Fails
  <2>1. /\ UNCHANGED <<chain, session, moves>>
        /\ fails' = fails \/ (fails < MaxFails /\ fails' = fails + 1)
    BY <1>13 DEF Fails
  <2>2. QED
    BY <1>0, <1>a, <1>d, <1>13, <2>1, FailsIs, FinishFlow
<1>14. CASE ChainMoves
  <2>1. UNCHANGED <<cap, counts, abi, call, session, fails>> /\ moves' = moves + 1 /\ moves < MaxMoves
        /\ call.pc # "none"
    BY <1>14 DEF ChainMoves
  <2>2. \/ (\E n \in NameClasses, gap \in BOOLEAN : AddRegistry(n, gap))
        \/ AccountMoves
    BY <1>14 DEF ChainMoves
  <2>3. table' \in Seq(NameClasses \cup {Hole})
    <3>1. CASE \E n \in NameClasses, gap \in BOOLEAN : AddRegistry(n, gap)
      <4>1. PICK n \in NameClasses, gap \in BOOLEAN : AddRegistry(n, gap)
        BY <3>1
      <4> DEFINE new == IF gap THEN <<Hole, n>> ELSE <<n>>
      <4>2. <<Hole, n>> \in Seq(NameClasses \cup {Hole}) /\ <<n>> \in Seq(NameClasses \cup {Hole})
        OBVIOUS
      <4>3. new \in Seq(NameClasses \cup {Hole})
        BY <4>2
      <4>4. table' = table \o new
        BY <4>1 DEF AddRegistry
      <4> HIDE DEF new
      <4>5. QED
        BY <4>3, <4>4 DEF ToolsTypeOK
    <3>2. CASE AccountMoves
      BY <3>2 DEF AccountMoves, ToolsTypeOK
    <3>3. QED
      BY <2>2, <3>1, <3>2
  <2>4. account' \in Accounts
    <3>1. CASE \E n \in NameClasses, gap \in BOOLEAN : AddRegistry(n, gap)
      BY <3>1 DEF AddRegistry, ToolsTypeOK
    <3>2. CASE AccountMoves
      BY <3>2 DEF AccountMoves, ToolsTypeOK, Accounts
    <3>3. QED
      BY <2>2, <3>1, <3>2
  <2>5. Rest0
    BY <2>1, <2>3, <2>4, ToolsAssumption DEF Rest0, ToolsTypeOK
  <2>6. call' \in ToolCalls /\ Flow'
    BY <2>1, CallOpen DEF Flow
  <2>7. QED
    BY <1>0, <2>5, <2>6
<1>15. CASE UNCHANGED toolVars
  BY <1>15 DEF toolVars, chain, ToolsTypeOK, Flow
<1>16. QED
  BY <1>1, <1>2, <1>3, <1>4, <1>5, <1>6, <1>7, <1>8, <1>9, <1>10, <1>11, <1>12, <1>13, <1>14, <1>15
     DEF ToolsNext

(* They hold when the server starts.                                       *)
LEMMA ToolsTypeInit == ToolsInit => ToolsTypeOK /\ Flow
<1> SUFFICES ASSUME ToolsInit PROVE ToolsTypeOK /\ Flow
  OBVIOUS
<1>1. call.pc = "none"
  BY DEF ToolsInit, NoCall
<1>2. session \in Sessions
  BY DEF ToolsInit, NoSession, Sessions
<1>3. account \in Accounts
  BY DEF ToolsInit, Accounts
<1>4. QED
  BY <1>1, <1>2, <1>3, ToolsAssumption DEF ToolsInit, ToolsTypeOK, Flow

-----------------------------------------------------------------------------
(* The steps of a call. *)

(* A step that starts no call and is not the chain's.                       *)
InCall ==
    \/ FetchList \/ PeekTotal \/ PeekTotalFails
    \/ PeekHighest \/ PeekHighestFails \/ FetchScan
    \/ GetRegistry \/ RegistriesByID \/ GetRecords
    \/ ResolveIndex \/ PendingNonceAt \/ SuggestGasPrice \/ EstimateGas
    \/ SuggestGasTipCap \/ TipFails \/ Fails

(* The nonce is the account's at that moment.                              *)
LEMMA NonceIs ==
  ASSUME ToolsTypeOK, PendingNonceAt
  PROVE  /\ call \in ToolCalls /\ call' \in ToolCalls /\ call'.in = call.in
         /\ call'.began = call.began /\ call.pc = "nonce" /\ call'.pc = "price"
         /\ call'.tx.index = call.tx.index /\ call'.tx.nonce = account.nonce
<1> DEFINE tx == [call.tx EXCEPT !.nonce = account.nonce]
<1>1. call.pc = "nonce" /\ call \in ToolCalls
  BY CallOpen DEF PendingNonceAt
<1>2. /\ tx \in Txs /\ tx.index = call.tx.index /\ tx.nonce = account.nonce
      /\ call' = [call EXCEPT !.pc = "price", !.tx = tx]
  BY <1>1 DEF PendingNonceAt, ToolsTypeOK, Accounts, ToolCalls, Txs
<1> HIDE DEF tx
<1>3. QED
  BY <1>1, <1>2, TxStep

(* The price step leaves nonce and version alone.                          *)
LEMMA PriceIs ==
  ASSUME ToolsTypeOK, SuggestGasPrice
  PROVE  /\ call \in ToolCalls /\ call' \in ToolCalls /\ call'.in = call.in
         /\ call'.began = call.began /\ call.pc = "price" /\ call'.pc = "gas"
         /\ call'.tx.index = call.tx.index /\ call'.tx.nonce = call.tx.nonce
<1> DEFINE tx == [call.tx EXCEPT !.price = account.price]
<1>1. call.pc = "price" /\ call \in ToolCalls
  BY CallOpen DEF SuggestGasPrice
<1>2. /\ tx \in Txs /\ tx.index = call.tx.index /\ tx.nonce = call.tx.nonce
      /\ call' = [call EXCEPT !.pc = "gas", !.tx = tx]
  BY <1>1, ToolsAssumption DEF SuggestGasPrice, ToolsTypeOK, Accounts, ToolCalls, Txs
<1> HIDE DEF tx
<1>3. QED
  BY <1>1, <1>2, TxStep

(* A step within a call changes neither the chain nor what the call was    *)
(* asked.                                                                  *)
LEMMA InCallIs ==
  ASSUME ToolsTypeOK, Flow, InCall
  PROVE  /\ call \in ToolCalls /\ call' \in ToolCalls /\ call'.in = call.in
         /\ call'.began = call.began /\ call.pc # "none" /\ call.pc # "done"
         /\ UNCHANGED <<table, cap, counts, account>>
         /\ moves' = moves
<1>1. UNCHANGED <<table, cap, counts, account, moves>>
  <2>1. UNCHANGED chain
    BY DEF InCall, FetchList, PeekTotal, PeekTotalFails, PeekHighest, PeekHighestFails, FetchScan,
           GetRegistry, RegistriesByID, GetRecords, ResolveIndex, PendingNonceAt,
           SuggestGasPrice, EstimateGas, SuggestGasTipCap, TipFails, Fails
  <2>2. moves' = moves
    BY DEF InCall, FetchList, PeekTotal, PeekTotalFails, PeekHighest, PeekHighestFails, FetchScan,
           GetRegistry, RegistriesByID, GetRecords, ResolveIndex, PendingNonceAt,
           SuggestGasPrice, EstimateGas, SuggestGasTipCap, TipFails, Fails
  <2>3. QED
    BY <2>1, <2>2 DEF chain
<1>2. call.pc # "none" /\ call.pc # "done"
  BY DEF InCall, FetchList, PeekTotal, PeekTotalFails, PeekHighest, PeekHighestFails, FetchScan,
         GetRegistry, RegistriesByID, GetRecords, ResolveIndex, PendingNonceAt,
         SuggestGasPrice, EstimateGas, SuggestGasTipCap, TipFails, Fails
<1>3. call \in ToolCalls
  BY <1>2, CallOpen
<1>4. CASE \E ans \in Answers : Finish(ans)
  BY <1>1, <1>2, <1>3, <1>4, FinishIs
<1>5. CASE FetchList
  BY <1>1, <1>2, <1>3, <1>5, FetchListIs
<1>6. CASE PeekTotal \/ PeekTotalFails
  <2>1. \E ans \in Answers : Finish(ans)
    BY <1>6, TotalIs
  <2>2. QED
    BY <1>4, <2>1
<1>7. CASE PeekHighest \/ PeekHighestFails
  BY <1>1, <1>2, <1>3, <1>7, PeekIs
<1>8. CASE FetchScan
  BY <1>1, <1>2, <1>3, <1>8, FetchScanIs
<1>9. CASE GetRegistry \/ RegistriesByID \/ GetRecords
  BY <1>4, <1>9, LookupIs
<1>10. CASE ResolveIndex
  BY <1>1, <1>2, <1>3, <1>10, ResolveIndexIs
<1>11. CASE PendingNonceAt \/ SuggestGasPrice
  BY <1>1, <1>2, <1>3, <1>11, NonceIs, PriceIs
<1>12. CASE EstimateGas
  BY <1>1, <1>2, <1>3, <1>12, EstimateGasIs
<1>13. CASE SuggestGasTipCap \/ TipFails
  BY <1>4, <1>13, TipIs
<1>14. CASE Fails
  BY <1>4, <1>14, FailsIs
<1>15. QED
  BY <1>5, <1>6, <1>7, <1>8, <1>9, <1>10, <1>11, <1>12, <1>13, <1>14 DEF InCall

(* The kinds of steps.                                                     *)
LEMMA StepKinds ==
  ASSUME [ToolsNext]_toolVars
  PROVE  \/ \E in \in Requests : Begin(in)
         \/ \E b \in BOOLEAN : NextPage(b)
         \/ InCall
         \/ ChainMoves
         \/ UNCHANGED toolVars
BY DEF ToolsNext, InCall

(* A session is opened, or goes on, with a call that has read nothing.      *)
LEMMA EnterIs ==
  ASSUME ToolsTypeOK, (\E in \in Requests : Begin(in)) \/ (\E b \in BOOLEAN : NextPage(b))
  PROVE  \E in \in Inputs : call' = Entered(in) /\ UNCHANGED <<table, cap, counts, account, moves>>
<1>1. UNCHANGED <<chain, moves>>
  BY DEF Begin, NextPage
<1>2. UNCHANGED <<table, cap, counts, account, moves>>
  BY <1>1 DEF chain
<1>3. CASE \E in \in Requests : Begin(in)
  BY <1>2, <1>3, ToolsAssumption DEF Begin
<1>4. CASE \E b \in BOOLEAN : NextPage(b)
  BY <1>2, <1>4, NextPageIs
<1>5. QED
  BY <1>3, <1>4

(* The chain only grows: no id is taken back, no version, no nonce.         *)
LEMMA ChainGrows ==
  ASSUME ToolsTypeOK, ChainMoves
  PROVE  /\ UNCHANGED <<cap, counts, call, session>>
         /\ Len(table) \in Nat /\ Len(table') \in Nat /\ Len(table) <= Len(table')
         /\ Len(table') <= Len(table) + 2 /\ moves' = moves + 1 /\ moves < MaxMoves
         /\ \A i \in 1..Len(table) : table'[i] = table[i]
         /\ table' \in Seq(Names)
         /\ account.nonce <= account'.nonce /\ account.version <= account'.version
         /\ account'.nonce \in Nat /\ account'.version \in Nat
         /\ call.pc # "none"
         /\ call.pc = "done" => call.in.tool = "list" /\ call.out.kind = "rows" /\ call.out.next # 0
<1>1. /\ UNCHANGED <<cap, counts, call, session>> /\ moves' = moves + 1 /\ moves < MaxMoves
      /\ call.pc # "none"
      /\ call.pc = "done" => call.in.tool = "list" /\ call.out.kind = "rows" /\ call.out.next # 0
  BY DEF ChainMoves
<1>2. table \in Seq(Names) /\ account \in Accounts
  BY DEF ToolsTypeOK, Names
<1>3. CASE \E n \in NameClasses, gap \in BOOLEAN : AddRegistry(n, gap)
  <2>1. PICK n \in NameClasses, gap \in BOOLEAN : AddRegistry(n, gap)
    BY <1>3
  <2> DEFINE new == IF gap THEN <<Hole, n>> ELSE <<n>>
  <2>2. /\ <<Hole, n>> \in Seq(Names) /\ <<n>> \in Seq(Names)
        /\ Len(<<Hole, n>>) = 2 /\ Len(<<n>>) = 1
    BY DEF Names
  <2>3. new \in Seq(Names) /\ Len(new) <= 2
    BY <2>2
  <2>4. table' = table \o new /\ account' = account
    BY <2>1 DEF AddRegistry
  <2> HIDE DEF new
  <2>5. QED
    BY <1>1, <1>2, <2>3, <2>4 DEF Accounts
<1>4. CASE AccountMoves
  <2>1. table' = table
    BY <1>4 DEF AccountMoves
  <2>2. account.nonce <= account'.nonce /\ account.version <= account'.version
        /\ account'.nonce \in Nat /\ account'.version \in Nat
    BY <1>2, <1>4 DEF AccountMoves, Accounts
  <2>3. QED
    BY <1>1, <1>2, <2>1, <2>2
<1>5. QED
  BY <1>3, <1>4 DEF ChainMoves

-----------------------------------------------------------------------------
(* What a preparation has read is what the chain held since the call began. *)

Past ==
    call.pc # "none" =>
      /\ call.began.size <= Len(table)
      /\ call.began.account.nonce <= account.nonce
      /\ call.began.account.version <= account.version

Indexed ==
    call.pc \in {"nonce", "price", "gas", "tip"} /\ call.in.tool = "update_status" =>
      IF call.in.index # 0 THEN call.tx.index = call.in.index
      ELSE call.tx.index \in 1..account.version /\ call.tx.index >= call.began.account.version

Nonced ==
    call.pc \in {"price", "gas", "tip"} =>
      call.tx.nonce \in call.began.account.nonce..account.nonce

Buffered == call.pc = "tip" => call.tx.gas = call.tx.estimate + call.tx.estimate \div 5

PrepInv == Past /\ Indexed /\ Nonced /\ Buffered /\ PreparedUsable

(* A call that ends without a transaction, or never prepares one.           *)
LEMMA PrepQuiet ==
  ASSUME call \in ToolCalls, Past', call'.pc \in {"peek", "fetch", "total", "lookup", "index", "done"},
         call'.pc = "done" => call'.out.kind # "tx"
  PROVE  PrepInv'
BY DEF PrepInv, Indexed, Nonced, Buffered, PreparedUsable, Answered

(* A call that is entered has prepared nothing yet.                        *)
LEMMA PrepEnter ==
  ASSUME ToolsTypeOK, NEW in \in Inputs, call' = Entered(in), UNCHANGED <<table, account>>
  PROVE  PrepInv'
<1> DEFINE c == Entered(in)
<1>1. /\ c \in ToolCalls /\ c.in = in /\ c.tx.index = in.index /\ c.out.kind = "error"
      /\ c.began = [size |-> Len(table), account |-> account]
      /\ c.pc = "done" \/ c.pc = FirstStep(in)
  BY EnteredIs
<1> HIDE DEF c
<1>2. c.began.size = Len(table) /\ c.began.account = account
  BY <1>1
<1>3. call' = c
  BY DEF c
<1>4. account \in Accounts /\ Len(table) \in Nat
  BY DEF ToolsTypeOK
<1>5. Past'
  BY <1>2, <1>3, <1>4 DEF Past, Accounts
<1>6. c.pc \notin {"price", "gas", "tip"} /\ (c.pc = "nonce" /\ in.tool = "update_status" => in.index # 0)
  BY <1>1, FirstStepIs
<1>7. QED
  BY <1>1, <1>3, <1>5, <1>6 DEF PrepInv, Indexed, Nonced, Buffered, PreparedUsable, Answered

(* Every step preserves what is known of a preparation.                    *)
LEMMA PrepStep ==
  ASSUME ToolsTypeOK, Flow, PrepInv, [ToolsNext]_toolVars
  PROVE  PrepInv'
<1>1. CASE (\E in \in Requests : Begin(in)) \/ (\E b \in BOOLEAN : NextPage(b))
  BY <1>1, EnterIs, PrepEnter
<1>2. CASE InCall
  <2>1. /\ call \in ToolCalls /\ call' \in ToolCalls /\ call'.in = call.in
        /\ call'.began = call.began /\ call.pc # "none"
        /\ table' = table /\ account' = account /\ account \in Accounts
    BY <1>2, InCallIs DEF ToolsTypeOK
  <2>2. Past'
    BY <2>1 DEF PrepInv, Past
  <2>3. ASSUME NEW ans \in Answers, Finish(ans), ans.kind # "tx" PROVE PrepInv'
    <3>1. call'.pc = "done" /\ call'.out = ans
      BY <2>1, <2>3, FinishIs
    <3>2. QED
      BY <2>1, <2>2, <2>3, <3>1, PrepQuiet
  <2>4. CASE FetchList
    <3>1. \/ call'.pc \in {"fetch", "total"}
          \/ \E rows, next, total : call'.pc = "done" /\ call'.out = Listed(rows, next, total, TRUE)
      <4>1. \/ call'.pc \in {"fetch", "total"}
            \/ /\ call'.pc = "done"
               /\ call'.out = Listed(call'.rows, call'.cursor,
                                     IF call'.total > 0 THEN call'.total
                                     ELSE call'.in.offset + Len(call'.rows), TRUE)
        BY <2>4, FetchListIs
      <4>2. QED
        BY <4>1
    <3>2. call'.pc \in {"fetch", "total"} \/ (call'.pc = "done" /\ call'.out.kind = "rows")
      <4>1. \A rows, next, total, exact : Listed(rows, next, total, exact).kind = "rows"
        BY DEF Listed
      <4>2. QED
        BY <3>1, <4>1
    <3>3. QED
      BY <2>1, <2>2, <3>2, PrepQuiet
  <2>5. CASE PeekTotal \/ PeekTotalFails
    <3>1. PICK total \in Nat, exact \in BOOLEAN :
              /\ Finish(Listed(call.rows, call.cursor, total, exact))
              /\ Listed(call.rows, call.cursor, total, exact) \in Answers
      BY <2>5, TotalIs
    <3>2. Listed(call.rows, call.cursor, total, exact).kind = "rows"
      BY DEF Listed
    <3>3. QED
      BY <2>3, <3>1, <3>2
  <2>6. CASE PeekHighest \/ PeekHighestFails
    <3>1. \/ call'.pc = "fetch"
          \/ call'.pc = "done" /\ call'.out = Found(call, FALSE)
      BY <2>6, PeekIs
    <3>2. Found(call, FALSE).kind = "rows"
      BY DEF Found
    <3>3. QED
      BY <2>1, <2>2, <3>1, <3>2, PrepQuiet
  <2>7. CASE FetchScan
    <3>1. \/ call'.pc = "fetch"
          \/ call'.pc = "done" /\ \E cut \in BOOLEAN : call'.out = Found(call', cut)
      BY <2>7, FetchScanIs
    <3>2. \A cut \in BOOLEAN : Found(call', cut).kind = "rows"
      BY DEF Found
    <3>3. QED
      BY <2>1, <2>2, <3>1, <3>2, PrepQuiet
  <2>8. CASE GetRegistry \/ RegistriesByID \/ GetRecords
    BY <2>3, <2>8, LookupIs
  <2>9. CASE ResolveIndex
    <3>1. CASE call'.pc = "done" /\ call'.out.kind = "error"
      BY <2>1, <2>2, <3>1, PrepQuiet
    <3>2. CASE call'.pc = "nonce" /\ call'.tx.index = account.version /\ account.version # 0
      <4>0. call.in.index = 0
        BY <2>1, <2>9 DEF ResolveIndex, Flow
      <4>1. Indexed'
        BY <2>1, <3>2, <4>0 DEF PrepInv, Past, Indexed, Accounts
      <4>2. QED
        BY <2>2, <3>2, <4>1 DEF PrepInv, Nonced, Buffered, PreparedUsable, Answered
    <3>3. QED
      BY <2>9, <3>1, <3>2, ResolveIndexIs
  <2>10. CASE PendingNonceAt
    <3>1. /\ call.pc = "nonce" /\ call'.pc = "price"
          /\ call'.tx.index = call.tx.index /\ call'.tx.nonce = account.nonce
      BY <2>10, NonceIs
    <3>2. Indexed'
      BY <2>1, <3>1 DEF PrepInv, Indexed
    <3>3. Nonced'
      BY <2>1, <3>1 DEF PrepInv, Past, Nonced, ToolCalls, Accounts
    <3>4. QED
      BY <2>2, <3>1, <3>2, <3>3 DEF PrepInv, Buffered, PreparedUsable, Answered
  <2>11. CASE SuggestGasPrice
    <3>1. /\ call.pc = "price" /\ call'.pc = "gas"
          /\ call'.tx.index = call.tx.index /\ call'.tx.nonce = call.tx.nonce
      BY <2>11, PriceIs
    <3>2. Indexed' /\ Nonced'
      BY <2>1, <3>1 DEF PrepInv, Indexed, Nonced
    <3>3. QED
      BY <2>2, <3>1, <3>2 DEF PrepInv, Buffered, PreparedUsable, Answered
  <2>12. CASE EstimateGas
    <3>0. call.pc = "gas"
      BY <2>12 DEF EstimateGas
    <3>1. PICK tx \in Txs :
               /\ call'.tx = tx /\ tx.index = call.tx.index /\ tx.nonce = call.tx.nonce
               /\ tx.gas = tx.estimate + tx.estimate \div 5
               /\ \/ call'.pc = "done" /\ call'.out = Legacy(tx)
                  \/ call'.pc = "tip"
      BY <2>12, EstimateGasIs
    <3>2. CASE call'.pc = "tip"
      <4>1. Indexed' /\ Nonced' /\ Buffered'
        BY <2>1, <3>0, <3>1, <3>2 DEF PrepInv, Indexed, Nonced, Buffered
      <4>2. QED
        BY <2>2, <3>2, <4>1 DEF PrepInv, PreparedUsable, Answered
    <3>3. CASE call'.pc = "done" /\ call'.out = Legacy(tx)
      <4>1. call'.out.tx = tx /\ call'.out.type = 0 /\ call'.out.fee = tx.price
        BY <3>3 DEF Legacy
      <4>2. PreparedUsable'
        BY <2>1, <3>0, <3>1, <3>3, <4>1 DEF PrepInv, Indexed, Nonced, PreparedUsable
      <4>3. QED
        BY <2>2, <3>3, <4>2 DEF PrepInv, Indexed, Nonced, Buffered
    <3>4. QED
      BY <3>1, <3>2, <3>3
  <2>13. CASE SuggestGasTipCap \/ TipFails
    <3>1. PICK tip \in Nat \ {0} : Finish(Dynamic(call.tx, tip)) /\ Dynamic(call.tx, tip) \in Answers
      BY <2>13, TipIs
    <3>2. call.pc = "tip"
      BY <2>13, TipIs
    <3>3. call'.pc = "done" /\ call'.out = Dynamic(call.tx, tip)
      BY <2>1, <3>1, FinishIs
    <3>4. call'.out.tx = call.tx /\ call'.out.type = 2 /\ call'.out.tip = tip
          /\ call'.out.fee = maxFee(call.tx.price, tip)
      BY <3>3 DEF Dynamic
    <3>5. call.tx.price \in Nat
      BY <2>1 DEF ToolCalls, Txs
    <3>6. maxFee(call.tx.price, tip) >= tip /\ maxFee(call.tx.price, tip) >= 2 * call.tx.price
      BY <3>5 DEF maxFee
    <3>7. PreparedUsable'
      BY <2>1, <3>2, <3>3, <3>4, <3>6 DEF PrepInv, Indexed, Nonced, Buffered, PreparedUsable
    <3>8. QED
      BY <2>2, <3>3, <3>7 DEF PrepInv, Indexed, Nonced, Buffered
  <2>14. CASE Fails
    BY <2>3, <2>14, FailsIs
  <2>15. QED
    BY <1>2, <2>4, <2>5, <2>6, <2>7, <2>8, <2>9, <2>10, <2>11, <2>12, <2>13, <2>14 DEF InCall
<1>3. CASE ChainMoves
  <2>1. /\ call' = call /\ call.pc # "none"
        /\ Len(table) \in Nat /\ Len(table') \in Nat /\ Len(table) <= Len(table')
        /\ account.nonce <= account'.nonce /\ account.version <= account'.version
        /\ account'.nonce \in Nat /\ account'.version \in Nat
        /\ call.pc = "done" => call.out.kind = "rows"
    BY <1>3, ChainGrows
  <2>2. /\ call \in ToolCalls /\ account.nonce \in Nat /\ account.version \in Nat
        /\ call.began.account.nonce \in Nat /\ call.began.account.version \in Nat
        /\ call.began.size \in Nat
    BY <2>1, CallOpen DEF ToolsTypeOK, ToolCalls, Accounts
  <2>3. Past'
    BY <2>1, <2>2 DEF PrepInv, Past
  <2>4. Indexed'
    BY <2>1, <2>2 DEF PrepInv, Indexed
  <2>5. Nonced'
    BY <2>1, <2>2 DEF PrepInv, Nonced
  <2>6. Buffered'
    BY <2>1 DEF PrepInv, Buffered
  <2>7. PreparedUsable'
    BY <2>1 DEF PreparedUsable, Answered
  <2>8. QED
    BY <2>3, <2>4, <2>5, <2>6, <2>7 DEF PrepInv
<1>4. CASE UNCHANGED toolVars
  BY <1>4 DEF toolVars, chain, PrepInv, Past, Indexed, Nonced, Buffered, PreparedUsable, Answered
<1>5. QED
  BY <1>1, <1>2, <1>3, <1>4, StepKinds

-----------------------------------------------------------------------------
(* Tables that grow, and the pages read from them. *)

(* The registries of t from id k on that lie before the cursor c.           *)
Cut(t, k, c) == {i \in Live(t, k) : c # 0 => i < c}

(* A piece of the table is a finite set of registries, and InOrder lists   *)
(* it.                                                                     *)
LEMMA CutIs ==
  ASSUME NEW t \in Seq(Names), NEW k \in Nat, NEW c \in Nat
  PROVE  /\ Cut(t, k, c) \in SUBSET Live(t, k) /\ Cut(t, k, c) \in SUBSET (1..Len(t))
         /\ Cut(t, k, c) \in SUBSET Nat
         /\ IsFiniteSet(Cut(t, k, c)) /\ Lists(InOrder(Cut(t, k, c)), Cut(t, k, c))
         /\ Cut(t, k, 0) = Live(t, k)
<1>1. Cut(t, k, c) \in SUBSET Live(t, k) /\ Cut(t, k, 0) = Live(t, k)
  BY DEF Cut
<1>2. Live(t, k) \in SUBSET (1..Len(t)) /\ Live(t, k) \in SUBSET Nat /\ IsFiniteSet(Live(t, k))
  BY LiveIs
<1>3. IsFiniteSet(Cut(t, k, c)) /\ Cut(t, k, c) \in SUBSET Nat
  BY <1>1, <1>2, FS_Subset
<1>4. QED
  BY <1>1, <1>2, <1>3, InOrderLists

(* An earlier table is the beginning of the present one.                   *)
LEMMA TableIs ==
  ASSUME table \in Seq(Names), NEW n \in 0..Len(table)
  PROVE  /\ Table(n) \in Seq(Names) /\ Len(Table(n)) = n
         /\ \A i \in 1..n : Table(n)[i] = table[i]
         /\ Table(Len(table)) = table
         /\ \A k \in Nat : Live(Table(n), k) = {i \in Live(table, k) : i <= n}
<1>1. /\ Table(n) \in Seq(Names) /\ Len(Table(n)) = n /\ \A i \in 1..n : Table(n)[i] = table[i]
  BY DEF Table
<1>2. Table(Len(table)) = table
  BY DEF Table
<1>3. DOMAIN Table(n) = 1..n /\ DOMAIN table = 1..Len(table) /\ Len(table) \in Nat
  BY <1>1
<1>4. ASSUME NEW k \in Nat PROVE Live(Table(n), k) = {i \in Live(table, k) : i <= n}
  BY <1>1, <1>3 DEF Live
<1>5. QED
  BY <1>1, <1>2, <1>4

(* Growing does not change what the table was.                             *)
LEMMA TableGrows ==
  ASSUME table \in Seq(Names), table' \in Seq(Names), Len(table) <= Len(table'),
         \A i \in 1..Len(table) : table'[i] = table[i], NEW n \in 0..Len(table)
  PROVE  Table(n)' = Table(n) /\ n \in 0..Len(table')
<1> DEFINE a == SubSeq(table, 1, n)
           b == SubSeq(table', 1, n)
<1>1. a \in Seq(Names) /\ Len(a) = n /\ \A i \in 1..n : a[i] = table[i]
  OBVIOUS
<1>2. b \in Seq(Names) /\ Len(b) = n /\ \A i \in 1..n : b[i] = table'[i]
  OBVIOUS
<1> HIDE DEF a, b
<1>3. \A i \in 1..n : a[i] = b[i]
  BY <1>1, <1>2
<1>4. a = b
  BY <1>1, <1>2, <1>3
<1>5. Table(n) = a /\ Table(n)' = b
  BY DEF Table, a, b
<1>6. QED
  BY <1>4, <1>5

(* Below an id that a table has, its extensions have nothing new.           *)
LEMMA CutStable ==
  ASSUME NEW t \in Seq(Names), NEW u \in Seq(Names), Len(t) <= Len(u),
         \A i \in 1..Len(t) : u[i] = t[i], NEW k \in Nat, NEW c \in 1..Len(t)
  PROVE  Cut(u, k, c) = Cut(t, k, c) /\ (c \in Live(t, k) <=> c \in Live(u, k))
<1>1. DOMAIN t = 1..Len(t) /\ DOMAIN u = 1..Len(u) /\ Len(t) \in Nat /\ Len(u) \in Nat /\ c # 0
  OBVIOUS
<1>2. ASSUME NEW i, i < c \/ i = c PROVE i \in Live(t, k) <=> i \in Live(u, k)
  <2>1. i \in Live(t, k) => i \in Live(u, k)
    BY <1>1 DEF Live
  <2>2. ASSUME i \in Live(u, k) PROVE i \in Live(t, k)
    <3>1. i \in 1..Len(t)
      BY <1>1, <1>2, <2>2 DEF Live
    <3>2. QED
      BY <1>1, <2>2, <3>1 DEF Live
  <2>3. QED
    BY <2>1, <2>2
<1>3. QED
  BY <1>1, <1>2 DEF Cut

(* The window from the start is everything.                                *)
LEMMA FromZero ==
  ASSUME NEW s \in Seq(Nat)
  PROVE  From(0, s) = s
<1>1. /\ From(0, s) \in Seq(Nat) /\ Len(From(0, s)) = Len(s)
      /\ \A i \in 1..Len(s) : From(0, s)[i] = s[i]
  BY FromIs
<1> HIDE DEF From
<1>2. QED
  BY <1>1

(* A window that is wide enough is everything.                             *)
LEMMA FirstAll ==
  ASSUME NEW s \in Seq(Nat), NEW n \in Nat, n >= Len(s)
  PROVE  First(n, s) = s
<1>1. /\ First(n, s) \in Seq(Nat) /\ Len(First(n, s)) = Len(s)
      /\ \A i \in 1..Len(s) : First(n, s)[i] = s[i]
  BY FirstIs
<1> HIDE DEF First
<1>2. QED
  BY <1>1

(* A page read by cursor, or from the start, lists the registries from the  *)
(* cursor on up to the next one; that one exists, unless the table ended.   *)
LEMMA PageCut ==
  ASSUME ToolsTypeOK, NEW key \in Nat, NEW offset \in Nat, NEW limit \in Nat,
         key = 0 => offset = 0
  PROVE  LET p == GetRegistries(key, offset, limit)
         IN  /\ p.next \in Nat /\ Lists(p.rows, Cut(table, key, p.next))
             /\ p.next # 0 => p.next \in Live(table, key)
<1> DEFINE p == GetRegistries(key, offset, limit)
           r == Rest(key, offset)
           n == Least(resolveLimit(limit), cap)
<1>1. /\ n \in Nat \ {0} /\ r \in Seq(Nat) /\ Len(r) \in Nat
      /\ p.next \in Nat /\ p.rows = First(n, r)
      /\ (n < Len(r) => p.next = r[n + 1]) /\ (~(n < Len(r)) => p.next = 0)
  <2>1. n \in Nat \ {0} /\ r \in Seq(Nat) /\ Len(r) \in Nat
    BY LimitIs, RestIs
  <2>2. p.next \in Nat /\ p.rows = First(n, r)
    BY PageRows
  <2>3. (n < Len(r) => p.next = r[n + 1]) /\ (~(n < Len(r)) => p.next = 0)
    BY PageRows
  <2>4. QED
    BY <2>1, <2>2, <2>3
<1>2. Lists(r, Live(table, key))
  <2>1. table \in Seq(Names)
    BY DEF ToolsTypeOK, Names
  <2>2. CASE key = 0
    BY <2>1, <2>2, IdsIs, FromZero DEF Rest
  <2>3. CASE key # 0
    BY <2>1, <2>3, LiveIs DEF Rest
  <2>4. QED
    BY <2>2, <2>3
<1>3. Live(table, key) \in SUBSET (1..Len(table))
  BY LiveIs DEF ToolsTypeOK, Names
<1> HIDE DEF p, r, n
<1>4. CASE n < Len(r)
  <2>1. p.next = r[n + 1] /\ n \in Nat /\ n < Len(r)
    BY <1>1, <1>4
  <2>2. Lists(p.rows, {x \in Live(table, key) : x < p.next}) /\ p.next \in Live(table, key)
    <3>1. Lists(First(n, r), {x \in Live(table, key) : x < r[n + 1]}) /\ r[n + 1] \in Live(table, key)
      BY <1>2, <2>1, ListsFirst
    <3>2. QED
      BY <1>1, <2>1, <3>1
  <2>3. p.next # 0
    BY <1>3, <2>2
  <2>4. {x \in Live(table, key) : x < p.next} = Cut(table, key, p.next)
    BY <2>3 DEF Cut
  <2>5. QED
    BY <1>1, <2>2, <2>4 DEF p
<1>5. CASE ~(n < Len(r))
  <2>1. p.next = 0 /\ p.rows = r
    BY <1>1, <1>5, FirstAll
  <2>2. Cut(table, key, p.next) = Live(table, key)
    BY <2>1 DEF Cut
  <2>3. QED
    BY <1>2, <2>1, <2>2 DEF p
<1>6. QED
  BY <1>4, <1>5

-----------------------------------------------------------------------------
(* The listing by name. *)

(* The window of the matches is the caller's, though offset + limit wraps.  *)
LEMMA WindowIs ==
  ASSUME NEW s \in Seq(Nat), NEW offset \in Nat, NEW limit \in Nat,
         Len(s) < Wrap, offset < Wrap, limit < Wrap
  PROVE  pageRegistries(s, offset, limit) = First(limit, From(offset, s))
<1> DEFINE end == (offset + limit) % Wrap
           m == IF end < offset THEN Len(s) ELSE Least(end, Len(s))
           w == pageRegistries(s, offset, limit)
           t == From(offset, s)
           v == First(limit, t)
<1>1. Wrap \in Nat \ {0} /\ Len(s) \in Nat
  BY ToolsAssumption
<1>2. /\ t \in Seq(Nat) /\ Len(t) = IF offset < Len(s) THEN Len(s) - offset ELSE 0
      /\ \A i \in 1..Len(t) : t[i] = s[offset + i]
  BY FromIs
<1> HIDE DEF t
<1>3. /\ v \in Seq(Nat) /\ Len(v) = IF limit < Len(t) THEN limit ELSE Len(t)
      /\ \A i \in 1..Len(v) : v[i] = t[i]
  BY <1>2, FirstIs
<1> HIDE DEF v
<1>4. CASE offset >= Len(s)
  <2>1. w = << >>
    BY <1>4 DEF pageRegistries
  <2>2. Len(v) = 0
    BY <1>1, <1>2, <1>3, <1>4
  <2>3. v = << >>
    BY <1>3, <2>2
  <2>4. QED
    BY <2>1, <2>3 DEF v, t
<1>5. CASE offset < Len(s)
  <2>1. w = SubSeq(s, offset + 1, m)
    <3>1. w = IF offset >= Len(s) THEN << >> ELSE SubSeq(s, offset + 1, m)
      BY DEF pageRegistries
    <3>2. ~(offset >= Len(s))
      BY <1>1, <1>5
    <3> HIDE DEF w, m
    <3>3. QED
      BY <3>1, <3>2, Zenon
  <2>2. m \in Nat /\ m <= Len(s) /\ m = offset + Len(v)
    <3>1. CASE offset + limit < Wrap
      <4> DEFINE x == offset + limit
      <4>1. x \in Nat /\ x < Wrap
        BY <3>1
      <4>2. x % Wrap = x
        <5> HIDE DEF x
        <5>1. QED
          BY <1>1, <4>1
      <4>3. end = x
        BY <4>2
      <4>4. ~(x < offset)
        OBVIOUS
      <4>5. m = IF x < Len(s) THEN x ELSE Len(s)
        <5> HIDE DEF x, end
        <5>1. QED
          BY <4>3, <4>4 DEF Least
      <4> DEFINE ls == Len(s)
                 lv == Len(v)
      <4>6. Len(t) = ls - offset
        BY <1>1, <1>2, <1>5
      <4>7. lv = IF limit < ls - offset THEN limit ELSE ls - offset
        BY <1>3, <4>6
      <4>8. ls \in Nat /\ offset < ls /\ m = IF x < ls THEN x ELSE ls
        BY <1>1, <1>5, <4>5
      <4> HIDE DEF ls, lv, m
      <4>9. m \in Nat /\ m <= ls /\ m = offset + lv
        BY <4>7, <4>8
      <4>10. QED
        BY <4>9 DEF ls, lv
    <3>2. CASE ~(offset + limit < Wrap)
      <4> DEFINE x == offset + limit - Wrap
      <4>1. x \in Nat /\ x < Wrap /\ x < offset
        BY <1>1, <3>2
      <4>2. x % Wrap = x
        <5> HIDE DEF x
        <5>1. QED
          BY <1>1, <4>1
      <4>3. (x + Wrap) % Wrap = x % Wrap
        <5> HIDE DEF x
        <5>1. QED
          BY <1>1, <4>1
      <4>4. x + Wrap = offset + limit
        BY <1>1
      <4>5. end = x
        BY <4>2, <4>3, <4>4
      <4>6. m = Len(s)
        BY <4>1, <4>5
      <4>7. Len(v) = Len(s) - offset
        BY <1>1, <1>2, <1>3, <1>5, <3>2
      <4>8. QED
        BY <1>1, <1>5, <4>6, <4>7
    <3>3. QED
      BY <3>1, <3>2
  <2> HIDE DEF m
  <2>3. Len(w) = Len(v) /\ w \in Seq(Nat) /\ \A i \in 1..Len(v) : w[i] = s[offset + i]
    <3> DEFINE l == Len(v)
    <3>1. v \in Seq(Nat)
      BY <1>3
    <3>2. l \in Nat /\ m \in Nat /\ m <= Len(s) /\ m = offset + l
      BY <2>2, <3>1
    <3>3. w = SubSeq(s, offset + 1, offset + l)
      BY <2>1, <3>2
    <3> HIDE DEF l, w
    <3>4. /\ SubSeq(s, offset + 1, offset + l) \in Seq(Nat)
          /\ Len(SubSeq(s, offset + 1, offset + l)) = l
          /\ \A i \in 1..l : SubSeq(s, offset + 1, offset + l)[i] = s[offset + i]
      BY <1>1, <3>2
    <3>5. QED
      BY <3>3, <3>4 DEF l
  <2> HIDE DEF w
  <2>4. \A i \in 1..Len(v) : v[i] = s[offset + i]
    <3>1. Len(t) \in Nat /\ Len(v) \in Nat /\ Len(v) <= Len(t)
      <4>1. t \in Seq(Nat) /\ v \in Seq(Nat) /\ Len(v) = IF limit < Len(t) THEN limit ELSE Len(t)
        BY <1>2, <1>3
      <4>2. QED
        BY <4>1
    <3>2. \A i \in 1..Len(v) : i \in 1..Len(t)
      BY <3>1
    <3>3. QED
      BY <1>2, <1>3, <3>2
  <2>5. w = v
    <3>1. v \in Seq(Nat) /\ \A i \in 1..Len(v) : w[i] = v[i]
      BY <1>3, <2>3, <2>4
    <3>2. w \in Seq(Nat) /\ Len(w) = Len(v)
      BY <2>3
    <3>3. QED
      BY <3>1, <3>2, SeqEq
  <2>6. QED
    BY <2>5 DEF w, v, t
<1>6. QED
  BY <1>1, <1>4, <1>5

(* An answer drawn from all the rows of the table is complete.              *)
LEMMA FoundComplete ==
  ASSUME ToolsTypeOK, NEW c \in ToolCalls, NEW cut \in BOOLEAN, Lists(c.rows, Live(table, 0)),
         Len(table) < Wrap, c.in.offset < Wrap, c.in.limit < Wrap
  PROVE  LET hits == InOrder(matching(Table(Len(table)), c.in.match))
             f == Found(c, cut)
         IN  f.total = Len(hits) /\ f.rows = First(resolveLimit(c.in.limit), From(c.in.offset, hits))
<1> DEFINE M == matching(table, c.in.match)
           h == Keep(c.rows, M)
<1>1. table \in Seq(Names) /\ Len(table) \in 0..Len(table)
  BY DEF ToolsTypeOK, Names
<1>2. Table(Len(table)) = table
  BY <1>1, TableIs
<1>3. Live(table, 0) \cap M = M /\ M \in SUBSET (1..Len(table))
  <2>1. DOMAIN table = 1..Len(table)
    BY <1>1
  <2>2. M \in SUBSET (1..Len(table)) /\ \A i \in M : table[i] # Hole
    BY <2>1 DEF matching
  <2>3. \A i \in M : i \in Live(table, 0)
    <3> HIDE DEF M
    <3>1. QED
      BY <2>1, <2>2 DEF Live
  <2>4. QED
    BY <2>2, <2>3
<1>4. Lists(h, M)
  <2>1. Lists(h, Live(table, 0) \cap M)
    BY KeepLists
  <2> HIDE DEF M, h
  <2>2. QED
    BY <1>3, <2>1
<1> HIDE DEF h
<1>5. h = InOrder(M)
  <2> HIDE DEF M
  <2>1. QED
    BY <1>4, ListsIs
<1>6. h \in Seq(Nat) /\ Len(h) < Wrap
  <2>1. IsFiniteSet(1..Len(table)) /\ Cardinality(1..Len(table)) = Len(table)
    BY <1>1, UpTo
  <2> HIDE DEF M
  <2>2. Cardinality(M) <= Len(table)
    <3> DEFINE U == 1..Len(table)
    <3>1. M \in SUBSET U /\ IsFiniteSet(U) /\ Cardinality(U) = Len(table)
      BY <1>3, <2>1
    <3> HIDE DEF U
    <3>2. Cardinality(M) <= Cardinality(U)
      BY <3>1, FS_Subset
    <3>3. QED
      BY <3>1, <3>2
  <2>3. Len(h) = Cardinality(M) /\ Len(h) \in Nat
    BY <1>4, ListsCount
  <2>4. QED
    BY <1>1, <1>4, <2>2, <2>3, ToolsAssumption DEF Lists
<1>7. c.in.offset \in Nat /\ c.in.limit \in Nat
  BY DEF ToolCalls, Inputs
<1>8. resolveLimit(c.in.limit) \in Nat /\ resolveLimit(c.in.limit) < Wrap
  BY <1>7, ResolveIs
<1>9. pageRegistries(h, c.in.offset, resolveLimit(c.in.limit))
         = First(resolveLimit(c.in.limit), From(c.in.offset, h))
  BY <1>6, <1>7, <1>8, WindowIs
<1>10. Found(c, cut).total = Len(h)
       /\ Found(c, cut).rows = pageRegistries(h, c.in.offset, resolveLimit(c.in.limit))
  BY FoundIs DEF h
<1>11. QED
  BY <1>2, <1>5, <1>9, <1>10

(* The registries before a cursor, and those from it on, are all of them.   *)
LEMMA CutJoin ==
  ASSUME NEW t \in Seq(Names), NEW k \in Nat, NEW c \in Nat \ {0}, NEW d \in Nat, k <= c,
         d # 0 => c <= d, NEW s, NEW u, Lists(s, Cut(t, k, c)), Lists(u, Cut(t, c, d))
  PROVE  Lists(s \o u, Cut(t, k, d))
<1>1. Live(t, k) \in SUBSET Nat /\ Live(t, c) \in SUBSET Nat
  BY LiveIs
<1>2. Cut(t, k, c) \cup Cut(t, c, d) = Cut(t, k, d)
  <2>1. ASSUME NEW i \in DOMAIN t, t[i] # Hole
        PROVE  i \in Cut(t, k, c) \/ i \in Cut(t, c, d) <=> i \in Cut(t, k, d)
    <3>1. i \in Nat
      OBVIOUS
    <3>2. i \in Cut(t, k, c) <=> i >= k /\ i < c
      BY <2>1 DEF Cut, Live
    <3>3. i \in Cut(t, c, d) <=> i >= c /\ (d # 0 => i < d)
      BY <2>1 DEF Cut, Live
    <3>4. i \in Cut(t, k, d) <=> i >= k /\ (d # 0 => i < d)
      BY <2>1 DEF Cut, Live
    <3>5. QED
      BY <3>1, <3>2, <3>3, <3>4
  <2>2. \A i : i \in Cut(t, k, c) \/ i \in Cut(t, c, d) \/ i \in Cut(t, k, d) => i \in DOMAIN t /\ t[i] # Hole
    BY DEF Cut, Live
  <2>3. QED
    BY <2>1, <2>2
<1>3. \A x \in Cut(t, k, c), y \in Cut(t, c, d) : x < y
  <2> SUFFICES ASSUME NEW x \in Cut(t, k, c), NEW y \in Cut(t, c, d) PROVE x < y
    OBVIOUS
  <2>1. x \in Nat /\ y \in Nat
    BY <1>1 DEF Cut
  <2>2. x < c /\ y >= c
    BY DEF Cut, Live
  <2>3. QED
    BY <2>1, <2>2
<1>4. Lists(s \o u, Cut(t, k, c) \cup Cut(t, c, d))
  BY <1>3, ListsConcat
<1>5. QED
  BY <1>2, <1>4

(* A walk by name is in the middle of the table: it has the registries that *)
(* lie before its cursor, and the cursor is a registry.                     *)
Walking ==
    call.pc \in {"peek", "fetch"} /\ call.in.tool = "scan" =>
      IF call.pages = 0 THEN call.rows = << >> /\ call.cursor = 0
      ELSE call.cursor \in Live(table, 0) /\ Lists(call.rows, Cut(table, 0, call.cursor))

Narrow == call.pc # "none" /\ call.in.tool = "scan" => call.in.offset < Wrap /\ call.in.limit < Wrap

Fits == Len(table) + 2 * (MaxMoves - moves) < Wrap

ScanInv == Walking /\ Narrow /\ Fits /\ ScanComplete

(* Ids fit a uint64 at every moment.                                       *)
LEMMA FitsNow ==
  ASSUME ToolsTypeOK, Fits
  PROVE  Len(table) < Wrap
BY ToolsAssumption DEF ToolsTypeOK, Fits

(* A walk starts at the start, for a window that fits a uint64.            *)
LEMMA ScanEnter ==
  ASSUME ToolsTypeOK, ScanInv, NEW in \in Inputs, call' = Entered(in),
         UNCHANGED <<table, moves>>, in.tool = "scan" => in \in Requests
  PROVE  ScanInv'
<1> DEFINE c == Entered(in)
<1>1. /\ c \in ToolCalls /\ c.in = in /\ c.rows = << >> /\ c.cursor = in.key /\ c.pages = 0
      /\ c.out.kind = "error"
      /\ c.pc = "done" \/ (c.pc = FirstStep(in) /\ Refusal(in) = "")
  BY EnteredIs
<1> HIDE DEF c
<1>2. call' = c
  BY DEF c
<1>3. in.tool = "scan" => in.offset < Wrap /\ in.limit < Wrap
  BY ToolsAssumption
<1>4. Refusal(in) = "" /\ in.tool = "scan" => in.key = 0
  BY DEF Refusal, ListingRefuses, PrepareTools
<1>5. Walking'
  BY <1>1, <1>2, <1>4 DEF Walking
<1>6. Narrow'
  BY <1>1, <1>2, <1>3 DEF Narrow
<1>7. ScanComplete'
  BY <1>1, <1>2 DEF ScanComplete, Answered
<1>8. QED
  BY <1>5, <1>6, <1>7 DEF ScanInv, Fits

(* The answer of a walk that has read the whole table.                      *)
LEMMA ScanEnds ==
  ASSUME ToolsTypeOK, ScanInv, Past, call \in ToolCalls, call' \in ToolCalls, call'.in = call.in,
         call'.began = call.began, UNCHANGED <<table, moves>>, call.pc # "none",
         call.in.tool = "scan", call'.pc = "done",
         NEW c \in ToolCalls, NEW cut \in BOOLEAN, c.in = call.in, call'.out = Found(c, cut),
         cut \/ Lists(c.rows, Live(table, 0))
  PROVE  ScanInv'
<1>1. Len(table) < Wrap
  BY FitsNow DEF ScanInv
<1>2. call.in.offset < Wrap /\ call.in.limit < Wrap
  BY DEF ScanInv, Narrow
<1>3. Found(c, cut).truncated = cut
  BY FoundIs
<1>4. Len(table) \in call.began.size..Len(table)
  BY DEF ToolsTypeOK, Past, ToolCalls
<1>5. ScanComplete'
  <2>1. CASE cut
    BY <1>3, <2>1 DEF ScanComplete, Answered
  <2>2. CASE ~cut
    <3>1. LET hits == InOrder(matching(Table(Len(table)), call.in.match))
          IN  /\ call'.out.total = Len(hits)
              /\ call'.out.rows = First(resolveLimit(call.in.limit), From(call.in.offset, hits))
      BY <1>1, <1>2, <2>2, FoundComplete
    <3>2. Table(Len(table))' = Table(Len(table)) /\ table' = table
      BY DEF Table
    <3>3. QED
      BY <1>4, <3>1, <3>2 DEF ScanComplete
  <2>3. QED
    BY <2>1, <2>2
<1>6. Walking' /\ Narrow'
  BY <1>2 DEF Walking, Narrow
<1>7. QED
  BY <1>5, <1>6 DEF ScanInv, Fits

(* Every step preserves what is known of a walk.                           *)
LEMMA ScanStep ==
  ASSUME ToolsTypeOK, Flow, Past, ScanInv, [ToolsNext]_toolVars
  PROVE  ScanInv'
<1>0. table \in Seq(Names)
  BY DEF ToolsTypeOK, Names
<1>1. CASE \E in \in Requests : Begin(in)
  <2>1. PICK in \in Requests : Begin(in)
    BY <1>1
  <2>2. in \in Inputs /\ call' = Entered(in) /\ UNCHANGED <<chain, moves>>
    BY <2>1, ToolsAssumption DEF Begin
  <2>3. QED
    BY <2>2, ScanEnter DEF chain
<1>2. CASE \E b \in BOOLEAN : NextPage(b)
  <2>1. PICK b \in BOOLEAN : NextPage(b)
    BY <1>2
  <2>2. UNCHANGED <<chain, moves>>
    BY <2>1 DEF NextPage
  <2>3. PICK in \in Inputs : in.tool = "list" /\ call' = Entered(in)
    BY <2>1, NextPageIs
  <2>4. QED
    BY <2>2, <2>3, ScanEnter DEF chain
<1>3. CASE InCall
  <2>1. /\ call \in ToolCalls /\ call' \in ToolCalls /\ call'.in = call.in
        /\ call'.began = call.began /\ call.pc # "none"
        /\ table' = table /\ moves' = moves
    BY <1>3, InCallIs
  <2>2. CASE call.in.tool # "scan"
    BY <2>1, <2>2 DEF ScanInv, Walking, Narrow, Fits, ScanComplete, Answered
  <2>3. CASE call.in.tool = "scan" /\ (PeekHighest \/ PeekHighestFails)
    <3>1. /\ call.pc = "peek" /\ call'.rows = call.rows /\ call'.cursor = call.cursor
          /\ call'.pages = call.pages /\ call.pages = 0
          /\ \/ call'.pc = "fetch"
             \/ call'.pc = "done" /\ Ids(table) = << >> /\ call'.out = Found(call, FALSE)
      BY <2>3, PeekIs
    <3>2. call.rows = << >> /\ call.cursor = 0
      BY <2>3, <3>1 DEF ScanInv, Walking
    <3>3. CASE call'.pc = "fetch"
      <4>1. Walking' /\ Narrow' /\ Fits' /\ ScanComplete'
        BY <2>1, <3>1, <3>2, <3>3 DEF ScanInv, Walking, Narrow, Fits, ScanComplete, Answered
      <4>2. QED
        BY <4>1 DEF ScanInv
    <3>4. CASE call'.pc = "done" /\ Ids(table) = << >> /\ call'.out = Found(call, FALSE)
      <4>1. Lists(call.rows, Live(table, 0))
        BY <1>0, <3>2, <3>4, IdsIs
      <4>2. QED
        BY <2>1, <2>3, <3>4, <4>1, ScanEnds
    <3>5. QED
      BY <3>1, <3>3, <3>4
  <2>4. CASE call.in.tool = "scan" /\ FetchScan
    <3> DEFINE p == GetRegistries(call.cursor, 0, PageSize)
    <3>1. /\ call'.rows = call.rows \o p.rows /\ call'.cursor = p.next
          /\ call'.pages = call.pages + 1
          /\ \/ call'.pc = "fetch" /\ p.next # 0
             \/ /\ call'.pc = "done" /\ p.next = 0
                /\ \E cut \in BOOLEAN : call'.out = Found(call', cut)
             \/ call'.pc = "done" /\ call'.out = Found(call', TRUE)
      BY <2>4, FetchScanIs
    <3>2. call.cursor \in Nat /\ call.pages \in Nat /\ PageSize \in Nat /\ call.pc = "fetch"
      BY <2>1, <2>4, ToolsAssumption DEF ToolCalls, FetchScan
    <3>3. /\ p.next \in Nat /\ Lists(p.rows, Cut(table, call.cursor, p.next))
          /\ p.next # 0 => p.next \in Live(table, call.cursor)
      BY <3>2, PageCut
    <3> HIDE DEF p
    <3>4. Lists(call'.rows, Cut(table, 0, p.next)) /\ (p.next # 0 => p.next \in Live(table, 0))
      <4>1. CASE call.pages = 0
        <5>1. call.rows = << >> /\ call.cursor = 0
          BY <2>4, <3>2, <4>1 DEF ScanInv, Walking
        <5>2. p.rows \in Seq(Nat)
          BY <3>3 DEF Lists
        <5>3. call'.rows = p.rows
          BY <3>1, <5>1, <5>2
        <5>4. QED
          BY <3>3, <5>1, <5>3
      <4>2. CASE call.pages # 0
        <5>1. call.cursor \in Live(table, 0) /\ Lists(call.rows, Cut(table, 0, call.cursor))
          BY <2>4, <3>2, <4>2 DEF ScanInv, Walking
        <5>2. call.cursor # 0
          BY <1>0, <5>1, LiveIs
        <5>3. p.next # 0 => p.next \in Live(table, 0) /\ call.cursor <= p.next
          BY <3>3 DEF Live
        <5>4. Lists(call.rows \o p.rows, Cut(table, 0, p.next))
          BY <1>0, <3>2, <3>3, <5>1, <5>2, <5>3, CutJoin
        <5>5. QED
          BY <3>1, <5>3, <5>4
      <4>3. QED
        BY <4>1, <4>2
    <3>5. CASE call'.pc = "fetch" /\ p.next # 0
      <4>1. call'.pages # 0
        BY <3>1, <3>2
      <4>2. Walking'
        BY <2>1, <3>1, <3>4, <3>5, <4>1 DEF Walking
      <4>3. Narrow' /\ Fits' /\ ScanComplete'
        BY <2>1, <3>5 DEF ScanInv, Narrow, Fits, ScanComplete, Answered
      <4>4. QED
        BY <4>2, <4>3 DEF ScanInv
    <3>6. CASE call'.pc = "done" /\ p.next = 0 /\ \E cut \in BOOLEAN : call'.out = Found(call', cut)
      <4>1. Lists(call'.rows, Live(table, 0))
        <5>1. Cut(table, 0, p.next) = Live(table, 0)
          BY <3>6 DEF Cut
        <5>2. QED
          BY <3>4, <5>1
      <4>2. PICK cut \in BOOLEAN : call'.out = Found(call', cut)
        BY <3>6
      <4>3. QED
        BY <2>1, <2>4, <3>6, <4>1, <4>2, ScanEnds
    <3>7. CASE call'.pc = "done" /\ call'.out = Found(call', TRUE)
      BY <2>1, <2>4, <3>7, ScanEnds
    <3>8. QED
      BY <3>1, <3>5, <3>6, <3>7
  <2>5. CASE call.in.tool = "scan" /\ Fails
    <3>1. call'.pc = "done" /\ call'.out.kind = "error"
      BY <2>1, <2>5, FailsIs, FinishIs
    <3>2. Walking' /\ Narrow' /\ Fits' /\ ScanComplete'
      BY <2>1, <3>1 DEF ScanInv, Walking, Narrow, Fits, ScanComplete, Answered
    <3>3. QED
      BY <3>2 DEF ScanInv
  <2>6. CASE \/ FetchList \/ PeekTotal \/ PeekTotalFails \/ GetRegistry \/ RegistriesByID
             \/ GetRecords \/ ResolveIndex \/ PendingNonceAt \/ SuggestGasPrice
             \/ EstimateGas \/ SuggestGasTipCap \/ TipFails
    <3>1. call.in.tool # "scan"
      <4>1. CASE FetchList
        BY <4>1 DEF FetchList
      <4>2. CASE call.pc \in {"total", "lookup", "index", "nonce", "price", "gas", "tip"}
        BY <4>2 DEF Flow, PrepareTools
      <4>3. QED
        BY <2>6, <4>1, <4>2 DEF PeekTotal, PeekTotalFails, GetRegistry, RegistriesByID, GetRecords,
             ResolveIndex, PendingNonceAt, SuggestGasPrice, EstimateGas, SuggestGasTipCap, TipFails
    <3>2. QED
      BY <2>2, <3>1
  <2>7. QED
    BY <1>3, <2>2, <2>3, <2>4, <2>5, <2>6 DEF InCall
<1>4. CASE ChainMoves
  <2>1. /\ call' = call /\ Len(table) \in Nat /\ Len(table') \in Nat /\ Len(table) <= Len(table')
        /\ Len(table') <= Len(table) + 2 /\ moves' = moves + 1
        /\ \A i \in 1..Len(table) : table'[i] = table[i]
        /\ table' \in Seq(Names) /\ call.pc # "none"
        /\ call.pc = "done" => call.in.tool = "list"
    BY <1>4, ChainGrows
  <2>2. Fits'
    <3>1. MaxMoves \in Nat /\ Wrap \in Nat /\ moves \in Nat
      BY ToolsAssumption DEF ToolsTypeOK
    <3>2. Len(table) + 2 * (MaxMoves - moves) < Wrap
      BY DEF ScanInv, Fits
    <3>3. QED
      BY <2>1, <3>1, <3>2 DEF Fits
  <2>3. Narrow' /\ ScanComplete'
    BY <2>1 DEF ScanInv, Narrow, ScanComplete, Answered
  <2>4. Walking'
    <3>1. CASE call.pages # 0 /\ call.pc \in {"peek", "fetch"} /\ call.in.tool = "scan"
      <4>1. call.cursor \in Live(table, 0) /\ Lists(call.rows, Cut(table, 0, call.cursor))
        BY <3>1 DEF ScanInv, Walking
      <4>2. call.cursor \in 1..Len(table)
        BY <1>0, <4>1, LiveIs
      <4>3. /\ Cut(table', 0, call.cursor) = Cut(table, 0, call.cursor)
            /\ call.cursor \in Live(table', 0)
        BY <1>0, <2>1, <4>1, <4>2, CutStable
      <4>4. QED
        BY <2>1, <3>1, <4>1, <4>3 DEF Walking
    <3>2. CASE ~(call.pages # 0 /\ call.pc \in {"peek", "fetch"} /\ call.in.tool = "scan")
      BY <2>1, <3>2 DEF ScanInv, Walking
    <3>3. QED
      BY <3>1, <3>2
  <2>5. QED
    BY <2>2, <2>3, <2>4 DEF ScanInv
<1>5. CASE UNCHANGED toolVars
  BY <1>5 DEF toolVars, chain, ScanInv, Walking, Narrow, Fits, ScanComplete, Answered, Table
<1>6. QED
  BY <1>1, <1>2, <1>3, <1>4, <1>5, StepKinds

-----------------------------------------------------------------------------
(* The listing without a filter. *)

(* Rows read from id k on, but for the first o, up to the cursor c, where   *)
(* the table t goes on, or to its end.                                      *)
Read(t, k, o, rows, c) ==
    /\ rows = From(o, InOrder(Cut(t, k, c)))
    /\ c # 0 => c \in Live(t, k) /\ o <= Cardinality(Cut(t, k, c))

(* The listing of a piece of the table, and its length.                    *)
LEMMA CutSeq ==
  ASSUME NEW t \in Seq(Names), NEW k \in Nat, NEW c \in Nat
  PROVE  /\ InOrder(Cut(t, k, c)) \in Seq(Nat)
         /\ Cardinality(Cut(t, k, c)) = Len(InOrder(Cut(t, k, c)))
         /\ Cardinality(Cut(t, k, c)) \in Nat
<1>1. Lists(InOrder(Cut(t, k, c)), Cut(t, k, c))
  BY CutIs
<1> DEFINE S == Cut(t, k, c)
           s == InOrder(S)
<1> HIDE DEF S, s
<1>2. Lists(s, S)
  BY <1>1 DEF S, s
<1>3. Cardinality(S) = Len(s) /\ Len(s) \in Nat
  BY <1>2, ListsCount
<1>4. s \in Seq(Nat)
  BY <1>2 DEF Lists
<1>5. QED
  BY <1>3, <1>4 DEF S, s

(* How many rows that is.                                                   *)
LEMMA ReadLen ==
  ASSUME NEW t \in Seq(Names), NEW k \in Nat, NEW o \in Nat, NEW c \in Nat, NEW rows,
         Read(t, k, o, rows, c)
  PROVE  /\ rows \in Seq(Nat) /\ Len(rows) \in Nat
         /\ Len(rows) = IF o < Cardinality(Cut(t, k, c)) THEN Cardinality(Cut(t, k, c)) - o ELSE 0
<1> DEFINE s == InOrder(Cut(t, k, c))
<1>1. s \in Seq(Nat) /\ Cardinality(Cut(t, k, c)) = Len(s) /\ Len(s) \in Nat
  BY CutSeq
<1>2. rows = From(o, s)
  BY DEF Read
<1> HIDE DEF s
<1>3. From(o, s) \in Seq(Nat) /\ Len(From(o, s)) = IF o < Len(s) THEN Len(s) - o ELSE 0
  BY <1>1, FromIs
<1>4. QED
  BY <1>1, <1>2, <1>3

(* Rows read up to a cursor are the same ones in a table that has grown.    *)
LEMMA ReadStable ==
  ASSUME NEW t \in Seq(Names), NEW u \in Seq(Names), Len(t) <= Len(u),
         \A i \in 1..Len(t) : u[i] = t[i], NEW k \in Nat, NEW o \in Nat, NEW c \in Nat \ {0},
         NEW rows, Read(t, k, o, rows, c)
  PROVE  Read(u, k, o, rows, c)
<1>1. c \in Live(t, k)
  BY DEF Read
<1>2. c \in 1..Len(t)
  BY <1>1, LiveIs
<1>3. Cut(u, k, c) = Cut(t, k, c) /\ c \in Live(u, k)
  BY <1>1, <1>2, CutStable
<1>4. QED
  BY <1>3 DEF Read

(* Rows read up to a cursor of an earlier table are those of the present.   *)
LEMMA ReadNow ==
  ASSUME table \in Seq(Names), NEW n \in 0..Len(table), NEW k \in Nat, NEW o \in Nat,
         NEW c \in Nat, c # 0, NEW rows, Read(Table(n), k, o, rows, c)
  PROVE  Read(table, k, o, rows, c)
<1> DEFINE t == Table(n)
<1>1. t \in Seq(Names) /\ Len(t) = n /\ \A i \in 1..n : t[i] = table[i]
  BY TableIs
<1>2. Read(t, k, o, rows, c)
  OBVIOUS
<1> HIDE DEF t
<1>3. Len(t) <= Len(table) /\ \A i \in 1..Len(t) : table[i] = t[i]
  BY <1>1
<1>4. QED
  BY <1>1, <1>2, <1>3, ReadStable

(* Windows of windows.                                                      *)
LEMMA FromFirst ==
  ASSUME NEW s \in Seq(Nat), NEW o \in Nat, NEW n \in Nat
  PROVE  First(n, From(o, s)) = From(o, First(o + n, s))
<1> DEFINE f == From(o, s)
           a == First(n, f)
           g == First(o + n, s)
           b == From(o, g)
<1>1. Len(s) \in Nat /\ o + n \in Nat
  OBVIOUS
<1>2. /\ f \in Seq(Nat) /\ Len(f) = IF o < Len(s) THEN Len(s) - o ELSE 0
      /\ \A i \in 1..Len(f) : f[i] = s[o + i]
  BY FromIs
<1>3. /\ g \in Seq(Nat) /\ Len(g) = IF o + n < Len(s) THEN o + n ELSE Len(s)
      /\ \A i \in 1..Len(g) : g[i] = s[i]
  BY <1>1, FirstIs
<1> HIDE DEF f, g
<1>4. /\ a \in Seq(Nat) /\ Len(a) = IF n < Len(f) THEN n ELSE Len(f)
      /\ \A i \in 1..Len(a) : a[i] = f[i]
  BY <1>2, FirstIs
<1>5. /\ b \in Seq(Nat) /\ Len(b) = IF o < Len(g) THEN Len(g) - o ELSE 0
      /\ \A i \in 1..Len(b) : b[i] = g[o + i]
  <2>1. g \in Seq(Nat)
    BY <1>3
  <2>2. QED
    BY <2>1, FromIs
<1> HIDE DEF a, b
<1>6. Len(a) \in Nat /\ Len(b) \in Nat /\ Len(f) \in Nat /\ Len(g) \in Nat
  <2>1. a \in Seq(Nat) /\ b \in Seq(Nat) /\ f \in Seq(Nat) /\ g \in Seq(Nat)
    BY <1>2, <1>3, <1>4, <1>5
  <2>2. QED
    BY <2>1
<1>7. Len(f) = IF o < Len(s) THEN Len(s) - o ELSE 0
  BY <1>2
<1>8. Len(g) = IF o + n < Len(s) THEN o + n ELSE Len(s)
  BY <1>3
<1>9. Len(a) = IF n < Len(f) THEN n ELSE Len(f)
  BY <1>4
<1>10. Len(b) = IF o < Len(g) THEN Len(g) - o ELSE 0
  BY <1>5
<1>11. Len(a) = Len(b) /\ Len(a) <= Len(f) /\ (Len(b) > 0 => o + Len(b) <= Len(g))
  <2> DEFINE ls == Len(s)
             lf == Len(f)
             lg == Len(g)
             la == Len(a)
             lb == Len(b)
  <2>1. /\ ls \in Nat /\ lf = IF o < ls THEN ls - o ELSE 0
        /\ lg = IF o + n < ls THEN o + n ELSE ls
        /\ la = IF n < lf THEN n ELSE lf
        /\ lb = IF o < lg THEN lg - o ELSE 0
    BY <1>1, <1>7, <1>8, <1>9, <1>10
  <2> HIDE DEF ls, lf, lg, la, lb
  <2>2. la = lb /\ la <= lf /\ (lb > 0 => o + lb <= lg)
    BY <2>1
  <2>3. QED
    BY <2>2 DEF la, lb, lf, lg
<1>12. ASSUME NEW i \in 1..Len(b) PROVE a[i] = b[i]
  <2>1. i \in 1..Len(a) /\ i \in 1..Len(f) /\ o + i \in 1..Len(g)
    BY <1>6, <1>11
  <2>2. a[i] = f[i] /\ f[i] = s[o + i]
    BY <1>2, <1>4, <2>1
  <2>3. b[i] = g[o + i] /\ g[o + i] = s[o + i]
    BY <1>3, <1>5, <2>1
  <2>4. QED
    BY <2>2, <2>3
<1>13. a = b
  BY <1>4, <1>5, <1>11, <1>12, SeqEq
<1>14. QED
  BY <1>13 DEF a, b, f, g

(* A window that starts in the first part of a sequence.                   *)
LEMMA FromConcat ==
  ASSUME NEW s \in Seq(Nat), NEW u \in Seq(Nat), NEW o \in Nat, o <= Len(s)
  PROVE  From(o, s) \o u = From(o, s \o u)
<1> DEFINE f == From(o, s)
           a == f \o u
           g == s \o u
           b == From(o, g)
<1>1. Len(s) \in Nat /\ Len(u) \in Nat /\ g \in Seq(Nat) /\ Len(g) = Len(s) + Len(u)
  OBVIOUS
<1>2. \A i \in 1..Len(g) : g[i] = IF i <= Len(s) THEN s[i] ELSE u[i - Len(s)]
  BY <1>1
<1>3. /\ f \in Seq(Nat) /\ Len(f) = Len(s) - o
      /\ \A i \in 1..Len(f) : f[i] = s[o + i]
  <2>1. /\ f \in Seq(Nat) /\ Len(f) = IF o < Len(s) THEN Len(s) - o ELSE 0
        /\ \A i \in 1..Len(f) : f[i] = s[o + i]
    BY FromIs
  <2> HIDE DEF f
  <2>2. QED
    BY <1>1, <2>1
<1> HIDE DEF f, g
<1>4. /\ b \in Seq(Nat) /\ Len(b) = IF o < Len(g) THEN Len(g) - o ELSE 0
      /\ \A i \in 1..Len(b) : b[i] = g[o + i]
  BY <1>1, FromIs
<1>5. a \in Seq(Nat) /\ Len(a) = Len(f) + Len(u) /\ Len(f) \in Nat
  <2>1. f \in Seq(Nat)
    BY <1>3
  <2>2. QED
    BY <2>1
<1>6. \A i \in 1..Len(a) : a[i] = IF i <= Len(f) THEN f[i] ELSE u[i - Len(f)]
  BY <1>3, <1>5
<1> HIDE DEF a, b
<1>7. Len(a) = Len(b) /\ Len(b) = Len(s) - o + Len(u)
  BY <1>1, <1>3, <1>4, <1>5
<1>8. ASSUME NEW i \in 1..Len(b) PROVE a[i] = b[i]
  <2>1. i \in 1..Len(a) /\ o + i \in 1..Len(g)
    BY <1>1, <1>7
  <2>2. b[i] = g[o + i]
    BY <1>4
  <2>3. CASE i <= Len(f)
    <3>1. i \in 1..Len(f) /\ o + i <= Len(s)
      BY <1>1, <1>3, <1>5, <2>3
    <3>2. f[i] = s[o + i]
      BY <1>3, <3>1
    <3>3. a[i] = f[i]
      BY <1>6, <2>1, <2>3
    <3>4. g[o + i] = s[o + i]
      BY <1>2, <2>1, <3>1
    <3>5. QED
      BY <2>2, <3>2, <3>3, <3>4
  <2>4. CASE ~(i <= Len(f))
    <3>1. ~(o + i <= Len(s)) /\ i - Len(f) = (o + i) - Len(s)
      BY <1>1, <1>3, <1>5, <2>4
    <3>2. a[i] = u[i - Len(f)] /\ g[o + i] = u[(o + i) - Len(s)]
      BY <1>2, <1>6, <2>1, <2>4, <3>1
    <3>3. QED
      BY <2>2, <3>1, <3>2
  <2>5. QED
    BY <2>3, <2>4
<1>9. a = b
  BY <1>4, <1>5, <1>7, <1>8, SeqEq
<1>10. QED
  BY <1>9 DEF a, b, f, g

(* The first page of a listing.                                             *)
LEMMA ReadFirst ==
  ASSUME ToolsTypeOK, NEW k \in Nat, NEW o \in Nat, NEW limit \in Nat, k # 0 => o = 0
  PROVE  LET p == GetRegistries(k, o, limit)
         IN  p.next \in Nat /\ Read(table, k, o, p.rows, p.next)
<1> DEFINE p == GetRegistries(k, o, limit)
           r == Rest(k, o)
           n == Least(resolveLimit(limit), cap)
<1>0. table \in Seq(Names)
  BY DEF ToolsTypeOK, Names
<1>1. CASE k # 0
  <2>1. /\ p.next \in Nat /\ Lists(p.rows, Cut(table, k, p.next))
        /\ p.next # 0 => p.next \in Live(table, k)
    BY <1>1, PageCut
  <2> HIDE DEF p
  <2>2. p.rows = InOrder(Cut(table, k, p.next)) /\ p.rows \in Seq(Nat)
    BY <2>1, ListsIs DEF Lists
  <2>3. From(0, p.rows) = p.rows
    BY <2>2, FromZero
  <2>4. Cardinality(Cut(table, k, p.next)) \in Nat
    BY <1>0, <2>1, CutSeq
  <2>5. o = 0
    BY <1>1
  <2>6. Read(table, k, o, p.rows, p.next)
    BY <2>1, <2>2, <2>3, <2>4, <2>5 DEF Read
  <2>7. QED
    BY <2>1, <2>6 DEF p
<1>2. CASE k = 0
  <2> DEFINE s == Ids(table)
  <2>1. Lists(s, Live(table, 0)) /\ s \in Seq(Nat) /\ Len(s) \in Nat
    BY <1>0, IdsIs
  <2>2. /\ p.next \in Nat /\ p.rows = First(n, r)
        /\ n < Len(r) => p.next = r[n + 1]
        /\ ~(n < Len(r)) => p.next = 0
    BY PageRows
  <2>3. n \in Nat
    BY LimitIs
  <2>4. r = From(o, s)
    BY <1>2 DEF Rest
  <2> HIDE DEF p, r, n, s
  <2>5. /\ r \in Seq(Nat) /\ Len(r) \in Nat
        /\ Len(r) = IF o < Len(s) THEN Len(s) - o ELSE 0
        /\ \A i \in 1..Len(r) : r[i] = s[o + i]
    <3>1. /\ From(o, s) \in Seq(Nat)
          /\ Len(From(o, s)) = IF o < Len(s) THEN Len(s) - o ELSE 0
          /\ \A i \in 1..Len(From(o, s)) : From(o, s)[i] = s[o + i]
      BY <2>1, FromIs
    <3>2. QED
      BY <2>4, <3>1
  <2>6. CASE n < Len(r)
    <3> DEFINE m == o + n
    <3>1. m \in Nat /\ m < Len(s) /\ n + 1 \in 1..Len(r)
      BY <2>1, <2>3, <2>5, <2>6
    <3>2. p.next = s[m + 1]
      <4>1. r[n + 1] = s[o + (n + 1)]
        BY <2>5, <3>1
      <4>2. o + (n + 1) = m + 1
        BY <2>3
      <4>3. QED
        BY <2>2, <2>6, <4>1, <4>2
    <3>3. Lists(First(m, s), {x \in Live(table, 0) : x < s[m + 1]}) /\ s[m + 1] \in Live(table, 0)
      <4> HIDE DEF m
      <4>1. QED
        BY <2>1, <3>1, ListsFirst
    <3>4. p.next # 0
      <4>1. p.next \in Live(table, 0)
        BY <3>2, <3>3
      <4>2. QED
        BY <1>0, <4>1, LiveIs
    <3>5. {x \in Live(table, 0) : x < s[m + 1]} = Cut(table, 0, p.next)
      BY <3>2, <3>4 DEF Cut
    <3> HIDE DEF m
    <3>6. Lists(First(m, s), Cut(table, 0, p.next))
      BY <3>3, <3>5
    <3>7. First(m, s) = InOrder(Cut(table, 0, p.next))
      BY <3>6, ListsIs
    <3>8. p.rows = From(o, First(m, s))
      BY <2>1, <2>2, <2>3, <2>4, FromFirst DEF m
    <3>9. Cardinality(Cut(table, 0, p.next)) = m
      <4>1. Len(First(m, s)) = m
        BY <2>1, <3>1, FirstIs
      <4>2. QED
        BY <3>6, <4>1, ListsCount
    <3>10. o <= m
      BY <2>3 DEF m
    <3>11. Read(table, 0, o, p.rows, p.next)
      BY <3>2, <3>3, <3>7, <3>8, <3>9, <3>10 DEF Read
    <3>12. QED
      BY <1>2, <2>2, <3>11 DEF p
  <2>7. CASE ~(n < Len(r))
    <3>1. p.next = 0
      BY <2>2, <2>7
    <3>2. p.rows = r
      BY <2>2, <2>3, <2>5, <2>7, FirstAll
    <3>3. s = InOrder(Cut(table, 0, 0))
      <4>1. Cut(table, 0, 0) = Live(table, 0)
        BY DEF Cut
      <4>2. QED
        BY <4>1 DEF s, Ids
    <3>4. Read(table, 0, o, p.rows, p.next)
      BY <2>4, <3>1, <3>2, <3>3 DEF Read
    <3>5. QED
      BY <1>2, <2>2, <3>4 DEF p
  <2>8. QED
    BY <2>6, <2>7
<1>3. QED
  BY <1>1, <1>2

(* Each further page.                                                       *)
LEMMA ReadNext ==
  ASSUME ToolsTypeOK, NEW k \in Nat, NEW o \in Nat, NEW limit \in Nat, NEW c \in Nat \ {0},
         NEW o2 \in Nat, NEW rows, Read(table, k, o, rows, c)
  PROVE  LET p == GetRegistries(c, o2, limit)
         IN  p.next \in Nat /\ Read(table, k, o, rows \o p.rows, p.next)
<1> DEFINE p == GetRegistries(c, o2, limit)
           s == InOrder(Cut(table, k, c))
<1>0. table \in Seq(Names)
  BY DEF ToolsTypeOK, Names
<1>1. /\ p.next \in Nat /\ Lists(p.rows, Cut(table, c, p.next))
      /\ p.next # 0 => p.next \in Live(table, c)
  BY PageCut
<1>2. c \in Live(table, k) /\ o <= Cardinality(Cut(table, k, c)) /\ rows = From(o, s)
  BY DEF Read
<1>3. s \in Seq(Nat) /\ Cardinality(Cut(table, k, c)) = Len(s)
  BY <1>0, CutSeq
<1>4. Lists(s, Cut(table, k, c))
  BY <1>0, CutIs
<1>5. k <= c /\ (p.next # 0 => c <= p.next /\ p.next \in Live(table, k))
  <2>1. k <= c
    BY <1>2 DEF Live
  <2> HIDE DEF p
  <2>2. ASSUME p.next # 0 PROVE c <= p.next /\ p.next \in Live(table, k)
    BY <1>1, <2>1, <2>2 DEF Live
  <2>3. QED
    BY <2>1, <2>2
<1> HIDE DEF p, s
<1>6. Lists(s \o p.rows, Cut(table, k, p.next))
  BY <1>0, <1>1, <1>4, <1>5, CutJoin
<1>7. s \o p.rows = InOrder(Cut(table, k, p.next))
  BY <1>6, ListsIs
<1>8. p.rows \in Seq(Nat)
  BY <1>1 DEF Lists
<1>9. rows \o p.rows = From(o, s \o p.rows)
  BY <1>2, <1>3, <1>8, FromConcat
<1>10. Cardinality(Cut(table, k, p.next)) = Len(s \o p.rows)
  BY <1>6, ListsCount
<1>11. o <= Len(s \o p.rows)
  BY <1>2, <1>3, <1>8
<1>12. Read(table, k, o, rows \o p.rows, p.next)
  BY <1>5, <1>7, <1>9, <1>10, <1>11 DEF Read
<1>13. QED
  BY <1>1, <1>12 DEF p

(* A table has no more registries than ids, nor more than its highest one.  *)
LEMMA IdsBound ==
  ASSUME NEW t \in Seq(Names)
  PROVE  /\ Len(Ids(t)) <= Len(t) /\ Len(Ids(t)) = Cardinality(Live(t, 0))
         /\ Ids(t) # << >> => Len(Ids(t)) <= Last(Ids(t)) /\ Last(Ids(t)) <= Len(t)
<1> DEFINE s == Ids(t)
           S == Live(t, 0)
<1>1. Lists(s, S) /\ s \in Seq(Nat) /\ Len(s) \in Nat
      /\ (s # << >> => Last(s) \in Nat /\ Last(s) \in S)
  BY IdsIs
<1>2. S \in SUBSET (1..Len(t)) /\ Len(t) \in Nat
  BY LiveIs
<1> HIDE DEF s, S
<1>3. Len(s) = Cardinality(S)
  BY <1>1, ListsCount
<1>4. ASSUME NEW n \in Nat, S \in SUBSET (1..n) PROVE Len(s) <= n
  <2>1. IsFiniteSet(1..n) /\ Cardinality(1..n) = IF 1 > n THEN 0 ELSE n - 1 + 1
    BY FS_Interval
  <2>2. Cardinality(1..n) = n
    BY <2>1
  <2>3. Cardinality(S) <= Cardinality(1..n)
    BY <1>4, <2>1, FS_Subset
  <2>4. QED
    BY <1>3, <2>2, <2>3
<1>5. ASSUME s # << >> PROVE Len(s) <= Last(s) /\ Last(s) <= Len(t)
  <2>1. Last(s) \in 1..Len(t)
    BY <1>1, <1>2, <1>5
  <2>2. Len(s) \in 1..Len(s) /\ Last(s) = s[Len(s)]
    BY <1>1, <1>5 DEF Last
  <2>3. ASSUME NEW x \in S PROVE x \in 1..Last(s)
    <3>1. PICK i \in 1..Len(s) : s[i] = x
      BY <1>1 DEF Lists
    <3>2. i < Len(s) \/ i = Len(s)
      BY <1>1
    <3>3. x < Last(s) \/ x = Last(s)
      BY <1>1, <2>2, <3>1, <3>2 DEF Lists
    <3>4. x \in 1..Len(t)
      BY <1>2
    <3>5. QED
      BY <1>2, <2>1, <3>3, <3>4
  <2>4. S \in SUBSET (1..Last(s))
    BY <2>3
  <2>5. QED
    BY <1>4, <2>1, <2>4
<1>6. QED
  BY <1>2, <1>3, <1>4, <1>5 DEF s, S

(* A piece of the table is no larger than the table.                       *)
LEMMA CutBound ==
  ASSUME NEW t \in Seq(Names), NEW k \in Nat, NEW c \in Nat
  PROVE  Cardinality(Cut(t, k, c)) <= Len(Ids(t)) /\ Cardinality(Cut(t, k, c)) \in Nat
<1>1. Cut(t, k, c) \in SUBSET Live(t, 0)
  BY DEF Cut, Live
<1>2. IsFiniteSet(Live(t, 0))
  BY LiveIs
<1>3. Cardinality(Cut(t, k, c)) <= Cardinality(Live(t, 0))
  BY <1>1, <1>2, FS_Subset
<1>4. QED
  BY <1>3, IdsBound, CutSeq

(* The rows a page of the chain is sure to have when the table goes on.     *)
Grant == Least(cap, PageSize)

Reading == call.pc \in {"fetch", "total"} /\ call.in.tool = "list"

Aligned == Reading => (call.in.key # 0 => call.in.offset = 0)

(* A listing has read a piece of the table as it was at some moment.        *)
Progress ==
    Reading =>
      IF call.pages = 0 THEN call.pc = "fetch" /\ call.rows = << >> /\ call.cursor = call.in.key
      ELSE /\ call.pc = "fetch" => call.cursor # 0
           /\ \E n \in call.began.size..Len(table) :
                 Read(Table(n), call.in.key, call.in.offset, call.rows, call.cursor)

Counted ==
    Reading => \/ call.total = 0
               \/ \E n \in call.began.size..Len(table) : call.total = Len(Ids(Table(n)))

(* One call fills a limit that its pages can hold, if the table goes on.    *)
Filled(rows, next) ==
    next # 0 /\ resolveLimit(call.in.limit) <= MaxPages * Grant
      => Len(rows) = resolveLimit(call.in.limit)

Filling ==
    Reading =>
      /\ Len(call.rows) <= resolveLimit(call.in.limit)
      /\ call.pc = "fetch" => Len(call.rows) >= call.pages * Grant
      /\ call.pc = "total" => Filled(call.rows, call.cursor)

Answer ==
    Answered("rows") /\ call.in.tool = "list" =>
      /\ Filled(call.out.rows, call.out.next)
      /\ \E n \in call.began.size..Len(table) :
            Read(Table(n), call.in.key, call.in.offset, call.out.rows, call.out.next)

ListInv == Aligned /\ Progress /\ Counted /\ Filling /\ Answer /\ TotalTruthful

(* The chain grants at least one row, and no more than its cap and the     *)
(* page size.                                                              *)
LEMMA GrantIs ==
  ASSUME ToolsTypeOK
  PROVE  Grant \in Nat /\ Grant > 0 /\ Grant <= cap /\ Grant <= PageSize
         /\ cap \in Nat /\ PageSize \in Nat /\ (Grant = cap \/ Grant = PageSize)
<1>1. cap \in Nat \ {0} /\ PageSize \in Nat \ {0}
  BY ToolsAssumption DEF ToolsTypeOK
<1>2. QED
  BY <1>1 DEF Grant, Least

(* A page is as long as its limit unless the table ends first, and a page at *)
(* which the table ends has no next key.                                     *)
LEMMA PageEnd ==
  ASSUME ToolsTypeOK, NEW key \in Nat, NEW offset \in Nat, NEW limit \in Nat
  PROVE  /\ ~(Least(resolveLimit(limit), cap) < Len(Rest(key, offset)))
            => GetRegistries(key, offset, limit).next = 0
         /\ Len(GetRegistries(key, offset, limit).rows)
               = IF Least(resolveLimit(limit), cap) < Len(Rest(key, offset))
                   THEN Least(resolveLimit(limit), cap) ELSE Len(Rest(key, offset))
  BY PageRows

(* A page never exceeds what was asked for and, where the table goes on, it *)
(* has all that the chain grants.                                           *)
LEMMA PageFill ==
  ASSUME ToolsTypeOK, NEW key \in Nat, NEW offset \in Nat, NEW want \in Nat \ {0}
  PROVE  LET p == GetRegistries(key, offset, Least(want, PageSize))
         IN  /\ p.rows \in Seq(Nat) /\ Len(p.rows) \in Nat /\ Len(p.rows) <= want
             /\ p.next # 0 => Len(p.rows) = want \/ Len(p.rows) >= Grant
<1> DEFINE asked == Least(want, PageSize)
           p == GetRegistries(key, offset, asked)
           r == Rest(key, offset)
           n == Least(resolveLimit(asked), cap)
<1>1. /\ Grant \in Nat /\ Grant <= cap /\ Grant <= PageSize /\ cap \in Nat /\ PageSize \in Nat
      /\ Grant > 0
  BY GrantIs
<1>2. asked \in Nat /\ asked # 0 /\ asked <= want /\ (asked = want \/ asked = PageSize)
  BY <1>1 DEF Least
<1> HIDE DEF asked
<1>3. resolveLimit(asked) = asked
  BY <1>2 DEF resolveLimit
<1>4. n \in Nat /\ n <= asked /\ (n = asked \/ n = cap)
  BY <1>1, <1>2, <1>3 DEF Least
<1>5. (~(n < Len(r)) => p.next = 0) /\ Len(p.rows) = IF n < Len(r) THEN n ELSE Len(r)
  BY <1>2, PageEnd
<1>6. p.rows \in Seq(Nat)
  BY <1>2, PageIs
<1>7. Len(r) \in Nat
  BY RestIs
<1> HIDE DEF p, r, n
<1>8. Len(p.rows) \in Nat /\ Len(p.rows) <= n
  BY <1>4, <1>5, <1>7
<1>9. ASSUME p.next # 0 PROVE Len(p.rows) = want \/ Len(p.rows) >= Grant
  BY <1>1, <1>2, <1>4, <1>5, <1>9
<1>10. Len(p.rows) <= want
  BY <1>2, <1>4, <1>8
<1>11. QED
  BY <1>6, <1>8, <1>9, <1>10 DEF p, asked

(* The state of a listing after one page more.                              *)
LEMMA ListFetched ==
  ASSUME ToolsTypeOK, Flow, Past, ListInv, FetchList
  PROVE  /\ Read(table, call.in.key, call.in.offset, call'.rows, call'.cursor)
         /\ Len(call'.rows) <= resolveLimit(call.in.limit)
         /\ call'.cursor # 0 => \/ Len(call'.rows) = resolveLimit(call.in.limit)
                                \/ Len(call'.rows) >= call'.pages * Grant
         /\ \/ call'.total = 0
            \/ \E n \in call.began.size..Len(table) : call'.total = Len(Ids(Table(n)))
         /\ Len(table) \in call.began.size..Len(table)
         /\ call'.more = (call'.cursor # 0)
<1> DEFINE lim == resolveLimit(call.in.limit)
           want == lim - Len(call.rows)
           p == GetRegistries(call.cursor, call.in.offset, Least(want, PageSize))
<1>0. table \in Seq(Names) /\ Len(table) \in Nat
  BY DEF ToolsTypeOK, Names
<1>1. call \in ToolCalls /\ call.pc = "fetch" /\ call.in.tool = "list"
  BY CallOpen DEF FetchList
<1>2. /\ call.rows \in Seq(Nat) /\ Len(call.rows) \in Nat /\ call.cursor \in Nat
      /\ call.in.key \in Nat /\ call.in.offset \in Nat /\ call.in.limit \in Nat
      /\ call.total \in Nat /\ call.pages \in Nat /\ call.began.size \in Nat
  BY <1>1 DEF ToolCalls, Inputs
<1>3. lim \in Nat
  BY <1>2, ResolveIs
<1>4. want \in Nat \ {0}
  BY <1>1, <1>2, <1>3 DEF Flow
<1>5. /\ call'.rows = call.rows \o p.rows /\ call'.cursor = p.next
      /\ call'.pages = call.pages + 1 /\ call'.more = (p.next # 0)
      /\ call'.total = IF p.total > call.total THEN p.total ELSE call.total
  BY FetchListIs
<1>6. Len(table) \in call.began.size..Len(table)
  BY <1>0, <1>1, <1>2 DEF Past
<1>7. Table(Len(table)) = table
  BY <1>0, TableIs
<1> HIDE DEF lim
<1>8. Least(want, PageSize) \in Nat
  BY <1>4, ToolsAssumption DEF Least
<1>9. Read(table, call.in.key, call.in.offset, call.rows \o p.rows, p.next)
  <2>1. CASE call.pages = 0
    <3>1. call.rows = << >> /\ call.cursor = call.in.key /\ (call.in.key # 0 => call.in.offset = 0)
      BY <1>1, <2>1 DEF ListInv, Progress, Aligned, Reading
    <3> DEFINE q == GetRegistries(call.in.key, call.in.offset, Least(want, PageSize))
    <3>2. Read(table, call.in.key, call.in.offset, q.rows, q.next)
      <4> HIDE DEF want
      <4>1. QED
        BY <1>2, <1>8, <3>1, ReadFirst
    <3>3. p = q
      BY <3>1
    <3> HIDE DEF p, q
    <3>4. q.rows \in Seq(Nat)
      BY <1>0, <1>2, <1>8, <3>2, PageIs DEF q
    <3>5. call.rows \o p.rows = q.rows
      BY <3>1, <3>3, <3>4
    <3>6. QED
      BY <3>2, <3>3, <3>5
  <2>2. CASE call.pages # 0
    <3>1. call.cursor # 0
      BY <1>1, <2>2 DEF ListInv, Progress, Reading
    <3>2. PICK n \in call.began.size..Len(table) :
             Read(Table(n), call.in.key, call.in.offset, call.rows, call.cursor)
      BY <1>1, <2>2 DEF ListInv, Progress, Reading
    <3>3. n \in 0..Len(table)
      BY <1>0, <1>2
    <3>4. Table(n) \in Seq(Names) /\ Len(Table(n)) = n /\ \A i \in 1..n : Table(n)[i] = table[i]
      BY <1>0, <3>3, TableIs
    <3>5. Len(Table(n)) <= Len(table) /\ \A i \in 1..Len(Table(n)) : table[i] = Table(n)[i]
      BY <1>0, <3>3, <3>4
    <3>a. call.cursor \in Nat \ {0} /\ call.in.key \in Nat /\ call.in.offset \in Nat
      BY <1>2, <3>1
    <3> DEFINE t == Table(n)
    <3>b. t \in Seq(Names) /\ Len(t) <= Len(table) /\ (\A i \in 1..Len(t) : table[i] = t[i])
          /\ Read(t, call.in.key, call.in.offset, call.rows, call.cursor)
      BY <3>2, <3>4, <3>5
    <3> HIDE DEF t
    <3>6. Read(table, call.in.key, call.in.offset, call.rows, call.cursor)
      BY <1>0, <3>a, <3>b, ReadStable
    <3> HIDE DEF want
    <3>7. QED
      BY <1>2, <1>8, <3>1, <3>6, ReadNext
  <2>3. QED
    BY <2>1, <2>2
<1>10. /\ p.rows \in Seq(Nat) /\ Len(p.rows) \in Nat /\ Len(p.rows) <= want
       /\ p.next # 0 => Len(p.rows) = want \/ Len(p.rows) >= Grant
  <2> HIDE DEF want
  <2>1. QED
    BY <1>2, <1>4, PageFill
<1>11. p.total \in Nat /\ (p.total = 0 \/ p.total = Len(Ids(table)))
  <2> HIDE DEF want
  <2>1. QED
    BY <1>2, <1>8, PageIs
<1> HIDE DEF p
<1> DEFINE m == Len(call.rows)
           q == Len(p.rows)
           l == Len(call.rows \o p.rows)
<1>12. l = m + q /\ m \in Nat /\ q \in Nat
  BY <1>2, <1>10
<1>a. q <= lim - m /\ (p.next # 0 => q = lim - m \/ q >= Grant)
  BY <1>10
<1> HIDE DEF m, q, l
<1>13. l <= lim
  BY <1>3, <1>12, <1>a
<1>14. ASSUME p.next # 0
       PROVE  l = lim \/ l >= (call.pages + 1) * Grant
  <2>1. m >= call.pages * Grant /\ Grant \in Nat
    BY <1>1, GrantIs DEF ListInv, Filling, Reading, m
  <2> DEFINE g == call.pages * Grant
  <2>2. (call.pages + 1) * Grant = g + Grant /\ g \in Nat
    BY <1>2, <2>1
  <2>3. m >= g
    BY <2>1
  <2> HIDE DEF g
  <2>4. CASE q = lim - m
    BY <1>3, <1>12, <2>4
  <2>5. CASE q >= Grant
    BY <1>12, <2>1, <2>2, <2>3, <2>5
  <2>6. QED
    BY <1>14, <1>a, <2>4, <2>5
<1>15. \/ call'.total = 0
       \/ \E n \in call.began.size..Len(table) : call'.total = Len(Ids(Table(n)))
  <2>1. call'.total = p.total \/ call'.total = call.total
    BY <1>5
  <2>2. CASE call'.total = p.total
    BY <1>6, <1>7, <1>11, <2>2
  <2>3. CASE call'.total = call.total
    BY <1>1, <2>3 DEF ListInv, Counted, Reading
  <2>4. QED
    BY <2>1, <2>2, <2>3
<1>16. call'.more = (call'.cursor # 0)
  BY <1>5
<1>17. QED
  BY <1>5, <1>6, <1>9, <1>13, <1>14, <1>15, <1>16 DEF lim, l

(* A listing that is entered has read nothing, and its key excludes an     *)
(* offset.                                                                 *)
LEMMA ListEnter ==
  ASSUME ToolsTypeOK, NEW in \in Inputs, call' = Entered(in), cap' = cap
  PROVE  ListInv'
<1> DEFINE c == Entered(in)
<1>1. /\ c \in ToolCalls /\ c.in = in /\ c.rows = << >> /\ c.cursor = in.key /\ c.pages = 0
      /\ c.total = 0 /\ c.out.kind = "error"
      /\ c.pc = "done" \/ (c.pc = FirstStep(in) /\ Refusal(in) = "")
  BY EnteredIs
<1> HIDE DEF c
<1>2. call' = c
  BY DEF c
<1>3. Refusal(in) = "" /\ in.tool = "list" => (in.key # 0 => in.offset = 0)
  BY DEF Refusal, ListingRefuses, listingCursorRefuses, PrepareTools
<1>4. c.pc # "total" /\ (c.pc = "fetch" => Refusal(in) = "")
  BY <1>1, FirstStepIs
<1>5. Aligned'
  BY <1>1, <1>2, <1>3, <1>4 DEF Aligned, Reading
<1>6. Progress' /\ Counted'
  BY <1>1, <1>2, <1>4 DEF Progress, Counted, Reading
<1>7. Filling'
  <2>1. resolveLimit(in.limit) \in Nat /\ Len(c.rows) = 0
    BY <1>1, ResolveIs DEF Inputs
  <2>2. Grant' \in Nat
    BY GrantIs DEF Grant
  <2>3. CASE c.pc # "fetch"
    BY <1>1, <1>2, <1>4, <2>3 DEF Filling, Reading
  <2>4. CASE c.pc = "fetch" /\ in.tool # "list"
    BY <1>1, <1>2, <2>4 DEF Filling, Reading
  <2>5. CASE c.pc = "fetch" /\ in.tool = "list"
    <3>1. /\ Len(call'.rows) = 0 /\ call'.pages = 0 /\ call'.in.limit = in.limit
          /\ call'.pc = "fetch"
      BY <1>1, <1>2, <2>1, <2>5
    <3>2. Len(call'.rows) >= call'.pages * Grant'
      <4> DEFINE g == Grant'
      <4>1. g \in Nat
        BY <2>2
      <4> HIDE DEF g
      <4>2. 0 * g = 0
        BY <4>1
      <4>3. QED
        BY <3>1, <4>2 DEF g
    <3>3. QED
      BY <2>1, <3>1, <3>2 DEF Filling, Reading
  <2>6. QED
    BY <2>3, <2>4, <2>5
<1>8. Answer' /\ TotalTruthful'
  BY <1>1, <1>2 DEF Answer, TotalTruthful, Answered
<1>9. QED
  BY <1>5, <1>6, <1>7, <1>8 DEF ListInv

(* A listing that answers.                                                  *)
LEMMA ListAnswers ==
  ASSUME table' = table, cap' = cap, call'.pc = "done", call'.in.tool = "list",
         NEW rows \in Seq(Nat), NEW next \in Nat, NEW total \in Nat, NEW exact \in BOOLEAN,
         call'.out = Listed(rows, next, total, exact),
         next # 0 /\ resolveLimit(call'.in.limit) <= MaxPages * Grant
           => Len(rows) = resolveLimit(call'.in.limit),
         \E n \in call'.began.size..Len(table) :
            Read(Table(n), call'.in.key, call'.in.offset, rows, next),
         \E n \in call'.began.size..Len(table) :
            IF exact THEN total \in Len(Ids(Table(n)))..n
            ELSE /\ total = call'.in.offset + Len(rows)
                 /\ rows # << >> => total <= Len(Ids(Table(n)))
  PROVE  ListInv'
<1>1. /\ call'.out.rows = rows /\ call'.out.next = next /\ call'.out.total = total
      /\ call'.out.exact = exact
  BY DEF Listed
<1>2. \A n : Table(n)' = Table(n)
  BY DEF Table
<1>3. Grant' = Grant
  BY DEF Grant
<1>4. Aligned' /\ Progress' /\ Counted' /\ Filling'
  BY DEF Aligned, Progress, Counted, Filling, Reading
<1>5. Answer'
  BY <1>1, <1>2, <1>3 DEF Answer, Filled
<1>6. TotalTruthful'
  <2>1. PICK n \in call'.began.size..Len(table) :
            IF exact THEN total \in Len(Ids(Table(n)))..n
            ELSE /\ total = call'.in.offset + Len(rows)
                 /\ rows # << >> => total <= Len(Ids(Table(n)))
    OBVIOUS
  <2>2. Table(n)' = Table(n)
    BY <1>2
  <2>3. CASE exact
    BY <1>1, <2>1, <2>2, <2>3 DEF TotalTruthful
  <2>4. CASE ~exact
    BY <1>1, <2>1, <2>2, <2>4 DEF TotalTruthful
  <2>5. QED
    BY <2>3, <2>4
<1>7. QED
  BY <1>4, <1>5, <1>6 DEF ListInv

(* What the rows, and the chain's own count, say of the total.              *)
LEMMA TotalKnown ==
  ASSUME table \in Seq(Names), NEW o \in Nat, NEW rows \in Seq(Nat),
         Read(table, 0, o, rows, 0), rows # << >> \/ o = 0
  PROVE  o + Len(rows) = Len(Ids(table))
<1> DEFINE n == Cardinality(Cut(table, 0, 0))
<1>1. Cut(table, 0, 0) = Live(table, 0)
  BY DEF Cut
<1>2. n = Len(Ids(table)) /\ n \in Nat
  BY <1>1, IdsBound, CutBound
<1>3. Len(rows) = IF o < n THEN n - o ELSE 0
  BY ReadLen
<1>4. Len(rows) \in Nat /\ (rows # << >> => Len(rows) # 0)
  OBVIOUS
<1> HIDE DEF n
<1>5. QED
  BY <1>2, <1>3, <1>4

(* The rows read from an offset on show that there are so many.            *)
LEMMA TotalLeast ==
  ASSUME NEW t \in Seq(Names), NEW k \in Nat, NEW o \in Nat, NEW c \in Nat, NEW rows \in Seq(Nat),
         Read(t, k, o, rows, c), rows # << >>
  PROVE  o + Len(rows) <= Len(Ids(t))
<1> DEFINE n == Cardinality(Cut(t, k, c))
<1>1. n <= Len(Ids(t)) /\ n \in Nat
  BY CutBound
<1>2. Len(rows) = IF o < n THEN n - o ELSE 0
  BY ReadLen
<1>3. Len(rows) \in Nat /\ Len(rows) # 0 /\ Len(Ids(t)) \in Nat
  BY IdsIs
<1> HIDE DEF n
<1>4. QED
  BY <1>1, <1>2, <1>3

(* A page of a listing preserves what is known of it.                      *)
LEMMA ListFetchStep ==
  ASSUME ToolsTypeOK, Flow, Past, ListInv, FetchList
  PROVE  ListInv'
<1>0. table \in Seq(Names) /\ Len(table) \in Nat
  BY DEF ToolsTypeOK, Names
<1>1. /\ call \in ToolCalls /\ call' \in ToolCalls /\ call'.in = call.in
      /\ call'.began = call.began /\ table' = table /\ cap' = cap
  <2>1. InCall
    BY DEF InCall
  <2>2. QED
    BY <2>1, InCallIs
<1>2. call.pc = "fetch" /\ call.in.tool = "list"
  BY DEF FetchList
<1>3. /\ Read(table, call'.in.key, call'.in.offset, call'.rows, call'.cursor)
      /\ Len(call'.rows) <= resolveLimit(call'.in.limit)
      /\ call'.cursor # 0 => \/ Len(call'.rows) = resolveLimit(call'.in.limit)
                             \/ Len(call'.rows) >= call'.pages * Grant
      /\ \/ call'.total = 0
         \/ \E n \in call'.began.size..Len(table) : call'.total = Len(Ids(Table(n)))
      /\ Len(table) \in call'.began.size..Len(table)
      /\ call'.more = (call'.cursor # 0)
  BY <1>1, ListFetched
<1>4. Table(Len(table)) = table /\ \A n : Table(n)' = Table(n)
  BY <1>0, <1>1, TableIs DEF Table
<1>5. Grant' = Grant /\ Grant \in Nat
  BY <1>1, GrantIs DEF Grant
<1>6. /\ call'.rows \in Seq(Nat) /\ call'.cursor \in Nat /\ call'.total \in Nat
      /\ call'.in.key \in Nat /\ call'.in.offset \in Nat /\ call'.in.limit \in Nat
      /\ call'.pages \in 0..MaxPages /\ call'.began.size \in Nat
  BY <1>1 DEF ToolCalls, Inputs
<1>7. call'.pages # 0
  <2>0. call.pages \in Nat
    BY <1>1 DEF ToolCalls
  <2>1. call'.pages = call.pages + 1
    BY FetchListIs
  <2>2. QED
    BY <2>0, <2>1
<1>8. \E n \in call'.began.size..Len(table) :
         Read(Table(n), call'.in.key, call'.in.offset, call'.rows, call'.cursor)
  BY <1>3, <1>4
<1>9. ASSUME ~Fetching(call'), call'.cursor # 0,
             resolveLimit(call'.in.limit) <= MaxPages * Grant
      PROVE  Len(call'.rows) = resolveLimit(call'.in.limit)
  <2> DEFINE l == Len(call'.rows)
             lim == resolveLimit(call'.in.limit)
  <2>1. l \in Nat /\ lim \in Nat /\ l <= lim /\ MaxPages \in Nat
    <3>1. lim \in Nat
      BY <1>6, ResolveIs
    <3>2. call'.rows \in Seq(Nat)
      BY <1>6
    <3>3. l \in Nat
      BY <3>2
    <3>4. MaxPages \in Nat
      BY ToolsAssumption
    <3>5. QED
      BY <1>3, <3>1, <3>3, <3>4
  <2>2. l = lim \/ l >= call'.pages * Grant
    BY <1>3, <1>9
  <2>3. call'.pages = MaxPages \/ l >= lim
    <3>1. ~(call'.pages < MaxPages) \/ ~(l < lim)
      BY <1>3, <1>9 DEF Fetching
    <3> HIDE DEF l, lim
    <3>2. QED
      BY <1>6, <2>1, <3>1
  <2>4. lim <= MaxPages * Grant
    BY <1>9
  <2> HIDE DEF l, lim
  <2>5. ASSUME l >= lim PROVE l = lim
    BY <2>1, <2>5
  <2>6. ASSUME call'.pages = MaxPages, l >= call'.pages * Grant PROVE l = lim
    <3> DEFINE g == MaxPages * Grant
    <3>1. g \in Nat /\ l >= g /\ lim <= g
      BY <1>5, <2>1, <2>4, <2>6
    <3> HIDE DEF g
    <3>2. QED
      BY <2>1, <3>1
  <2>7. l = lim
    BY <2>2, <2>3, <2>5, <2>6
  <2>8. QED
    BY <2>7 DEF l, lim
<1>10. CASE call'.pc = "fetch" /\ Fetching(call')
  <2>1. call'.cursor # 0 /\ Len(call'.rows) < resolveLimit(call'.in.limit)
    BY <1>3, <1>10 DEF Fetching
  <2>2. Len(call'.rows) # resolveLimit(call'.in.limit)
    <3>1. Len(call'.rows) \in Nat
      BY <1>6
    <3>2. QED
      BY <2>1, <3>1
  <2>3. Aligned'
    BY <1>1, <1>2 DEF ListInv, Aligned, Reading
  <2>4. Progress'
    BY <1>1, <1>4, <1>7, <1>8, <2>1 DEF Progress
  <2>5. Counted'
    BY <1>1, <1>3, <1>4 DEF Counted
  <2>6. Filling'
    BY <1>3, <1>5, <1>10, <2>1, <2>2 DEF Filling
  <2>7. Answer' /\ TotalTruthful'
    BY <1>10 DEF Answer, TotalTruthful, Answered
  <2>8. QED
    BY <2>3, <2>4, <2>5, <2>6, <2>7 DEF ListInv
<1>11. CASE call'.pc = "total" /\ ~Fetching(call')
  <2>1. Aligned'
    BY <1>1, <1>2 DEF ListInv, Aligned, Reading
  <2>2. Progress'
    BY <1>1, <1>4, <1>7, <1>8, <1>11 DEF Progress
  <2>3. Counted'
    BY <1>1, <1>3, <1>4 DEF Counted
  <2>4. Filling'
    BY <1>3, <1>5, <1>9, <1>11 DEF Filling, Filled
  <2>5. Answer' /\ TotalTruthful'
    BY <1>11 DEF Answer, TotalTruthful, Answered
  <2>6. QED
    BY <2>1, <2>2, <2>3, <2>4, <2>5 DEF ListInv
<1>12. ASSUME call'.pc = "done", ~Fetching(call'), Knows(call'),
              call'.out = Listed(call'.rows, call'.cursor,
                                 IF call'.total > 0 THEN call'.total
                                 ELSE call'.in.offset + Len(call'.rows), TRUE)
       PROVE  ListInv'
  <2> DEFINE total == IF call'.total > 0 THEN call'.total ELSE call'.in.offset + Len(call'.rows)
  <2>1. total \in Nat
    BY <1>6
  <2>2. \E n \in call'.began.size..Len(table) : total \in Len(Ids(Table(n)))..n
    <3>1. CASE call'.total > 0
      <4>1. PICK n \in call'.began.size..Len(table) : call'.total = Len(Ids(Table(n)))
        BY <1>3, <3>1
      <4>2. n \in 0..Len(table)
        BY <1>0, <1>6
      <4>3. Table(n) \in Seq(Names) /\ Len(Table(n)) = n
        BY <1>0, <4>2, TableIs
      <4>4. Len(Ids(Table(n))) <= n /\ Len(Ids(Table(n))) \in Nat
        BY <4>3, IdsBound, IdsIs
      <4>5. total = Len(Ids(Table(n)))
        BY <3>1, <4>1
      <4> HIDE DEF total
      <4>6. QED
        BY <4>2, <4>4, <4>5
    <3>2. CASE ~(call'.total > 0)
      <4>1. call'.cursor = 0 /\ call'.in.key = 0 /\ (call'.rows # << >> \/ call'.in.offset = 0)
        BY <1>3, <1>12, <3>2 DEF Knows
      <4>2. call'.in.offset + Len(call'.rows) = Len(Ids(table))
        BY <1>0, <1>3, <1>6, <4>1, TotalKnown
      <4>3. total = Len(Ids(table))
        BY <3>2, <4>2
      <4>4. Len(Ids(table)) <= Len(table) /\ Len(Ids(table)) \in Nat
        BY <1>0, IdsBound, IdsIs
      <4> HIDE DEF total
      <4>5. total \in Len(Ids(Table(Len(table))))..Len(table)
        BY <1>0, <1>4, <4>3, <4>4
      <4>6. QED
        BY <1>3, <4>5
    <3>3. QED
      BY <3>1, <3>2
  <2>3. call'.in.tool = "list"
    BY <1>1, <1>2
  <2>4. call'.out = Listed(call'.rows, call'.cursor, total, TRUE)
    BY <1>12
  <2> HIDE DEF total
  <2>5. \E n \in call'.began.size..Len(table) :
            IF TRUE THEN total \in Len(Ids(Table(n)))..n
            ELSE call'.rows # << >> => total <= Len(Ids(Table(n)))
    BY <2>2
  <2>6. call'.cursor # 0 /\ resolveLimit(call'.in.limit) <= MaxPages * Grant
           => Len(call'.rows) = resolveLimit(call'.in.limit)
    BY <1>9, <1>12
  <2>7. QED
    BY <1>1, <1>6, <1>8, <1>12, <2>1, <2>3, <2>4, <2>5, <2>6, ListAnswers
<1>13. QED
  BY <1>10, <1>11, <1>12, FetchListIs

(* So does the answer after the peek at the total.                         *)
LEMMA ListTotalStep ==
  ASSUME ToolsTypeOK, Flow, Past, ListInv, PeekTotal \/ PeekTotalFails
  PROVE  ListInv'
<1>0. table \in Seq(Names) /\ Len(table) \in Nat
  BY DEF ToolsTypeOK, Names
<1>1. /\ call \in ToolCalls /\ call' \in ToolCalls /\ call'.in = call.in
      /\ call'.began = call.began /\ table' = table /\ cap' = cap
  <2>1. InCall
    BY DEF InCall
  <2>2. QED
    BY <2>1, InCallIs
<1>2. PICK total \in Nat, exact \in BOOLEAN :
         /\ Finish(Listed(call.rows, call.cursor, total, exact))
         /\ Listed(call.rows, call.cursor, total, exact) \in Answers
         /\ total = IF exact THEN IF Ids(table) = << >> THEN 0 ELSE Last(Ids(table))
                             ELSE call.in.offset + Len(call.rows)
  BY TotalIs
<1>3. call.pc = "total" /\ call.in.tool = "list"
  BY TotalIs
<1>4. call'.pc = "done" /\ call'.out = Listed(call.rows, call.cursor, total, exact)
  BY <1>1, <1>2, FinishIs
<1>5. /\ call.rows \in Seq(Nat) /\ call.cursor \in Nat /\ call.began.size \in Nat
      /\ call.in.key \in Nat /\ call.in.offset \in Nat
  BY <1>1 DEF ToolCalls, Inputs
<1>6. Reading
  BY <1>3 DEF Reading
<1>7. PICK n \in call.began.size..Len(table) :
         Read(Table(n), call.in.key, call.in.offset, call.rows, call.cursor)
  BY <1>3, <1>6 DEF ListInv, Progress
<1>8. call.cursor # 0 /\ resolveLimit(call.in.limit) <= MaxPages * Grant
         => Len(call.rows) = resolveLimit(call.in.limit)
  BY <1>3, <1>6 DEF ListInv, Filling, Filled
<1>9. \E m \in call.began.size..Len(table) :
         IF exact THEN total \in Len(Ids(Table(m)))..m
         ELSE /\ total = call'.in.offset + Len(call.rows)
              /\ call.rows # << >> => total <= Len(Ids(Table(m)))
  <2>1. CASE exact
    <3>1. Table(Len(table)) = table
      BY <1>0, TableIs
    <3>2. Len(table) \in call.began.size..Len(table)
      BY <1>0, <1>1, <1>3, <1>5 DEF Past
    <3>3. total = IF Ids(table) = << >> THEN 0 ELSE Last(Ids(table))
      BY <1>2, <2>1
    <3>4. Len(Ids(table)) <= total /\ total <= Len(table) /\ Len(Ids(table)) \in Nat
      <4>1. Len(Ids(table)) \in Nat
        BY <1>0, IdsIs
      <4>2. CASE Ids(table) = << >>
        <5>1. Len(Ids(table)) = 0 /\ total = 0
          BY <3>3, <4>2
        <5>2. QED
          BY <1>0, <5>1
      <4>3. CASE Ids(table) # << >>
        <5>1. total = Last(Ids(table))
          BY <3>3, <4>3
        <5>2. QED
          BY <1>0, <4>1, <4>3, <5>1, IdsBound
      <4>4. QED
        BY <4>2, <4>3
    <3>5. total \in Len(Ids(Table(Len(table))))..Len(table)
      BY <1>0, <3>1, <3>4
    <3>6. QED
      BY <2>1, <3>2, <3>5
  <2>2. CASE ~exact
    <3>1. n \in 0..Len(table)
      BY <1>0, <1>5
    <3>2. Table(n) \in Seq(Names)
      BY <1>0, <3>1, TableIs
    <3>3. call.rows # << >> => call.in.offset + Len(call.rows) <= Len(Ids(Table(n)))
      BY <1>5, <1>7, <3>2, TotalLeast
    <3>4. total = call.in.offset + Len(call.rows)
      BY <1>2, <2>2
    <3>5. QED
      BY <1>1, <2>2, <3>3, <3>4
  <2>3. QED
    BY <2>1, <2>2
<1>10. QED
  BY <1>1, <1>3, <1>4, <1>5, <1>7, <1>8, <1>9, ListAnswers

(* Every step preserves what is known of a listing.                        *)
LEMMA ListStep ==
  ASSUME ToolsTypeOK, Flow, Past, ListInv, [ToolsNext]_toolVars
  PROVE  ListInv'
<1>0. table \in Seq(Names) /\ Len(table) \in Nat
  BY DEF ToolsTypeOK, Names
<1>1. CASE (\E in \in Requests : Begin(in)) \/ (\E b \in BOOLEAN : NextPage(b))
  BY <1>1, EnterIs, ListEnter
<1>2. CASE InCall
  <2>1. /\ call \in ToolCalls /\ call' \in ToolCalls /\ call'.in = call.in
        /\ call'.began = call.began /\ call.pc # "none"
    BY <1>2, InCallIs
  <2>2. ASSUME call.in.tool # "list" PROVE ListInv'
    BY <2>1, <2>2 DEF ListInv, Aligned, Progress, Counted, Filling, Reading, Answer,
                      TotalTruthful, Answered
  <2>3. CASE Fails
    <3>1. call'.pc = "done" /\ call'.out.kind = "error"
      BY <2>1, <2>3, FailsIs, FinishIs
    <3>2. QED
      BY <3>1 DEF ListInv, Aligned, Progress, Counted, Filling, Reading, Answer,
                  TotalTruthful, Answered
  <2>4. CASE \/ PeekHighest \/ PeekHighestFails \/ FetchScan \/ GetRegistry \/ RegistriesByID
             \/ GetRecords \/ ResolveIndex \/ PendingNonceAt \/ SuggestGasPrice
             \/ EstimateGas \/ SuggestGasTipCap \/ TipFails
    <3>1. call.in.tool # "list"
      <4>1. CASE FetchScan
        BY <4>1 DEF FetchScan
      <4>2. CASE call.pc \in {"peek", "lookup", "index", "nonce", "price", "gas", "tip"}
        BY <4>2 DEF Flow, PrepareTools
      <4>3. QED
        BY <2>4, <4>1, <4>2 DEF PeekHighest, PeekHighestFails, GetRegistry, RegistriesByID,
             GetRecords, ResolveIndex, PendingNonceAt, SuggestGasPrice, EstimateGas,
             SuggestGasTipCap, TipFails
    <3>2. QED
      BY <2>2, <3>1
  <2>5. QED
    BY <1>2, <2>3, <2>4, ListFetchStep, ListTotalStep DEF InCall
<1>3. CASE ChainMoves
  <2>1. /\ call' = call /\ cap' = cap /\ Len(table') \in Nat /\ Len(table) <= Len(table')
        /\ \A i \in 1..Len(table) : table'[i] = table[i]
        /\ table' \in Seq(Names) /\ call.pc # "none"
    BY <1>3, ChainGrows
  <2>2. call.began.size \in Nat
    BY <2>1, CallOpen DEF ToolCalls
  <2>3. ASSUME NEW n \in call.began.size..Len(table)
        PROVE  Table(n)' = Table(n) /\ n \in call.began.size..Len(table')
    <3>1. n \in 0..Len(table)
      BY <1>0, <2>2
    <3>2. Table(n)' = Table(n)
      BY <1>0, <2>1, <3>1, TableGrows
    <3>3. QED
      BY <1>0, <2>1, <2>2, <3>1, <3>2
  <2>4. Grant' = Grant
    BY <2>1 DEF Grant
  <2>5. Aligned' /\ Filling'
    BY <2>1, <2>4 DEF ListInv, Aligned, Filling, Filled, Reading
  <2>6. Progress'
    <3>1. CASE Reading /\ call.pages # 0
      <4>1. PICK n \in call.began.size..Len(table) :
               Read(Table(n), call.in.key, call.in.offset, call.rows, call.cursor)
        BY <3>1 DEF ListInv, Progress
      <4>2. Table(n)' = Table(n) /\ n \in call'.began.size..Len(table')
        BY <2>1, <2>3
      <4>3. Read(Table(n)', call'.in.key, call'.in.offset, call'.rows, call'.cursor)
        BY <2>1, <4>1, <4>2
      <4>4. call'.pc = "fetch" => call'.cursor # 0
        BY <2>1, <3>1 DEF ListInv, Progress
      <4>5. QED
        BY <2>1, <3>1, <4>2, <4>3, <4>4 DEF Progress
    <3>2. CASE ~Reading \/ call.pages = 0
      BY <2>1, <3>2 DEF ListInv, Progress, Reading
    <3>3. QED
      BY <3>1, <3>2
  <2>7. Counted'
    <3>1. CASE Reading /\ call.total # 0
      <4>1. PICK n \in call.began.size..Len(table) : call.total = Len(Ids(Table(n)))
        BY <3>1 DEF ListInv, Counted
      <4>2. Table(n)' = Table(n) /\ n \in call'.began.size..Len(table')
        BY <2>1, <2>3
      <4>3. QED
        BY <2>1, <4>1, <4>2 DEF Counted
    <3>2. CASE ~Reading \/ call.total = 0
      BY <2>1, <3>2 DEF ListInv, Counted, Reading
    <3>3. QED
      BY <3>1, <3>2
  <2>8. Answer'
    <3>1. CASE Answered("rows") /\ call.in.tool = "list"
      <4>1. PICK n \in call.began.size..Len(table) :
               Read(Table(n), call.in.key, call.in.offset, call.out.rows, call.out.next)
        BY <3>1 DEF ListInv, Answer
      <4>2. Table(n)' = Table(n) /\ n \in call'.began.size..Len(table')
        BY <2>1, <2>3
      <4>3. Filled(call.out.rows, call.out.next)' = Filled(call.out.rows, call.out.next)
        BY <2>1, <2>4 DEF Filled
      <4>4. Read(Table(n)', call'.in.key, call'.in.offset, call'.out.rows, call'.out.next)
        BY <2>1, <4>1, <4>2
      <4>5. Filled(call.out.rows, call.out.next)'
        BY <3>1, <4>3 DEF ListInv, Answer
      <4>6. QED
        BY <4>2, <4>4, <4>5 DEF Answer
    <3>2. CASE ~(Answered("rows") /\ call.in.tool = "list")
      BY <2>1, <3>2 DEF Answer, Answered
    <3>3. QED
      BY <3>1, <3>2
  <2>9. TotalTruthful'
    <3>1. CASE Answered("rows") /\ call.in.tool = "list"
      <4>1. PICK n \in call.began.size..Len(table) :
               IF call.out.exact THEN call.out.total \in Len(Ids(Table(n)))..n
               ELSE /\ call.out.total = call.in.offset + Len(call.out.rows)
                    /\ call.out.rows # << >> => call.out.total <= Len(Ids(Table(n)))
        BY <3>1 DEF ListInv, TotalTruthful
      <4>2. Table(n)' = Table(n) /\ n \in call'.began.size..Len(table')
        BY <2>1, <2>3
      <4>3. QED
        BY <2>1, <4>1, <4>2 DEF TotalTruthful
    <3>2. CASE ~(Answered("rows") /\ call.in.tool = "list")
      BY <2>1, <3>2 DEF TotalTruthful, Answered
    <3>3. QED
      BY <3>1, <3>2
  <2>10. QED
    BY <2>5, <2>6, <2>7, <2>8, <2>9 DEF ListInv
<1>4. CASE UNCHANGED toolVars
  BY <1>4 DEF toolVars, chain, ListInv, Aligned, Progress, Counted, Filling, Filled, Grant, Reading,
              Answer, TotalTruthful, Answered, Table
<1>5. QED
  BY <1>1, <1>2, <1>3, <1>4, StepKinds

-----------------------------------------------------------------------------
(* A client that pages through a listing. *)

(* S holds the smallest numbers of T.                                       *)
Lowest(S, T) == S \in SUBSET T /\ \A x \in S, y \in T \ S : x < y

(* The smallest numbers of a set are listed first.                          *)
LEMMA ListsPrefix ==
  ASSUME NEW S, NEW T, NEW s, NEW t, Lists(s, S), Lists(t, T), Lowest(S, T),
         NEW n \in Nat, n <= Len(s)
  PROVE  n <= Len(t) /\ First(n, s) = First(n, t)
<1> DEFINE D == T \ S
           d == InOrder(D)
<1>1. IsFiniteSet(T) /\ T \in SUBSET Nat
  BY ListsCount
<1>2. IsFiniteSet(D) /\ D \in SUBSET Nat
  BY <1>1, FS_Subset
<1>3. Lists(d, D)
  BY <1>2, InOrderLists
<1>4. S \cup D = T
  BY DEF Lowest
<1>5. Lists(s \o d, S \cup D)
  <2> HIDE DEF d
  <2>1. \A x \in S, y \in D : x < y
    BY DEF Lowest
  <2> HIDE DEF D
  <2>2. QED
    BY <1>3, <2>1, ListsConcat
<1>6. t = s \o d
  BY <1>4, <1>5, ListsUnique
<1>7. s \in Seq(Nat) /\ d \in Seq(Nat) /\ Len(s) \in Nat /\ Len(d) \in Nat
  BY <1>3 DEF Lists
<1> HIDE DEF d, D
<1>8. /\ t \in Seq(Nat) /\ Len(t) = Len(s) + Len(d)
      /\ \A i \in 1..Len(s) : t[i] = s[i]
  BY <1>6, <1>7
<1>9. n <= Len(t)
  BY <1>7, <1>8
<1> DEFINE a == First(n, s)
           b == First(n, t)
<1>10. /\ a \in Seq(Nat) /\ Len(a) = IF n < Len(s) THEN n ELSE Len(s)
       /\ \A i \in 1..Len(a) : a[i] = s[i]
  BY <1>7, FirstIs
<1>11. /\ b \in Seq(Nat) /\ Len(b) = IF n < Len(t) THEN n ELSE Len(t)
       /\ \A i \in 1..Len(b) : b[i] = t[i]
  BY <1>8, FirstIs
<1> HIDE DEF a, b
<1>12. Len(a) = n /\ Len(b) = n
  BY <1>7, <1>8, <1>9, <1>10, <1>11
<1>13. ASSUME NEW i \in 1..Len(b) PROVE a[i] = b[i]
  <2>1. i \in 1..Len(a) /\ i \in 1..Len(s)
    BY <1>7, <1>12
  <2>2. QED
    BY <1>8, <1>10, <1>11, <2>1
<1>14. a = b
  BY <1>10, <1>11, <1>12, <1>13, SeqEq
<1>15. QED
  BY <1>9, <1>14 DEF a, b

(* A sequence is its first window and the rest.                            *)
LEMMA FirstFrom ==
  ASSUME NEW s \in Seq(Nat), NEW n \in Nat, n <= Len(s)
  PROVE  First(n, s) \o From(n, s) = s /\ Len(First(n, s)) = n
<1> DEFINE a == First(n, s)
           b == From(n, s)
<1>0. Len(s) \in Nat
  OBVIOUS
<1>1. /\ a \in Seq(Nat) /\ Len(a) = IF n < Len(s) THEN n ELSE Len(s)
      /\ \A i \in 1..Len(a) : a[i] = s[i]
  BY FirstIs
<1>2. /\ b \in Seq(Nat) /\ Len(b) = IF n < Len(s) THEN Len(s) - n ELSE 0
      /\ \A i \in 1..Len(b) : b[i] = s[n + i]
  BY FromIs
<1> HIDE DEF a, b
<1>3. Len(a) = n /\ Len(b) = Len(s) - n
  BY <1>0, <1>1, <1>2
<1>4. a \o b \in Seq(Nat) /\ Len(a \o b) = Len(s)
  <2>1. a \in Seq(Nat) /\ b \in Seq(Nat)
    BY <1>1, <1>2
  <2>2. a \o b \in Seq(Nat) /\ Len(a \o b) = Len(a) + Len(b)
    BY <2>1
  <2>3. QED
    BY <1>0, <1>3, <2>2
<1>5. ASSUME NEW i \in 1..Len(s) PROVE (a \o b)[i] = s[i]
  <2>1. CASE i <= n
    BY <1>0, <1>1, <1>2, <1>3, <2>1
  <2>2. CASE ~(i <= n)
    <3>1. i - n \in 1..Len(b) /\ n + (i - n) = i
      BY <1>0, <1>3, <2>2
    <3>2. (a \o b)[i] = b[i - n]
      <4>1. a \in Seq(Nat) /\ b \in Seq(Nat)
        BY <1>1, <1>2
      <4>2. i \in 1..(Len(a) + Len(b)) /\ ~(i <= Len(a))
        BY <1>0, <1>3, <2>2
      <4>3. (a \o b)[i] = b[i - Len(a)]
        BY <4>1, <4>2
      <4>4. QED
        BY <1>3, <4>3
    <3>3. QED
      BY <1>2, <3>1, <3>2
  <2>3. QED
    BY <2>1, <2>2
<1>6. a \o b = s
  BY <1>4, <1>5, SeqEq
<1>7. QED
  BY <1>3, <1>6 DEF a, b

(* Nothing lies past the end.                                              *)
LEMMA FromEmpty ==
  ASSUME NEW s \in Seq(Nat), NEW n \in Nat, n >= Len(s)
  PROVE  From(n, s) = << >>
<1>1. From(n, s) \in Seq(Nat) /\ Len(From(n, s)) = IF n < Len(s) THEN Len(s) - n ELSE 0
  BY FromIs
<1>2. Len(s) \in Nat
  OBVIOUS
<1> HIDE DEF From
<1>3. Len(From(n, s)) = 0
  BY <1>1, <1>2
<1>4. QED
  BY <1>1, <1>3

(* The rows before a cursor are the first of the table.                     *)
LEMMA CutPrefix ==
  ASSUME NEW t \in Seq(Names), NEW c \in Nat, NEW n \in Nat,
         n <= Cardinality(Cut(t, 0, c))
  PROVE  n <= Len(Ids(t)) /\ First(n, InOrder(Cut(t, 0, c))) = First(n, Ids(t))
<1> DEFINE S == Cut(t, 0, c)
           T == Live(t, 0)
           s == InOrder(S)
           u == Ids(t)
<1>1. Lists(s, S) /\ S \in SUBSET T
  BY CutIs
<1>2. Lists(u, T) /\ T \in SUBSET Nat
  BY IdsIs, LiveIs
<1>3. n <= Len(s)
  BY CutSeq
<1>4. ASSUME NEW x \in S, NEW y \in T \ S PROVE x < y
  <2>1. x \in Nat /\ y \in Nat
    BY <1>1, <1>2
  <2>2. c # 0 /\ x < c /\ ~(y < c)
    BY DEF Cut
  <2> HIDE DEF S, T
  <2>3. QED
    BY <2>1, <2>2
<1> HIDE DEF S, T, s, u
<1>5. Lowest(S, T)
  BY <1>1, <1>4 DEF Lowest
<1>6. n <= Len(u) /\ First(n, s) = First(n, u)
  BY <1>1, <1>2, <1>3, <1>5, ListsPrefix
<1>7. QED
  BY <1>6 DEF s, u, S

(* So are the rows of an earlier table.                                     *)
LEMMA IdsPrefix ==
  ASSUME NEW t \in Seq(Names), NEW u \in Seq(Names), Len(t) <= Len(u),
         \A i \in 1..Len(t) : u[i] = t[i], NEW n \in Nat, n <= Len(Ids(t))
  PROVE  n <= Len(Ids(u)) /\ First(n, Ids(t)) = First(n, Ids(u))
<1> DEFINE S == Live(t, 0)
           T == Live(u, 0)
           s == Ids(t)
           v == Ids(u)
<1>0. DOMAIN t = 1..Len(t) /\ DOMAIN u = 1..Len(u) /\ Len(t) \in Nat /\ Len(u) \in Nat
  OBVIOUS
<1>1. Lists(s, S) /\ Lists(v, T) /\ S \in SUBSET (1..Len(t)) /\ T \in SUBSET (1..Len(u))
  BY IdsIs, LiveIs
<1>2. S \in SUBSET T
  BY <1>0 DEF Live
<1>3. ASSUME NEW x \in S, NEW y \in T \ S PROVE x < y
  <2>1. x \in 1..Len(t) /\ y \in 1..Len(u)
    BY <1>1
  <2>2. y \notin 1..Len(t)
    BY <1>0 DEF Live
  <2> HIDE DEF S, T
  <2>3. QED
    BY <1>0, <2>1, <2>2
<1>4. n <= Len(s)
  OBVIOUS
<1> HIDE DEF S, T, s, v
<1>5. Lowest(S, T)
  BY <1>2, <1>3 DEF Lowest
<1>6. n <= Len(v) /\ First(n, s) = First(n, v)
  BY <1>1, <1>4, <1>5, ListsPrefix
<1>7. QED
  BY <1>6 DEF s, v

(* What a client that began at (sk, so) has seen when it asks for a page at *)
(* (k, o) of a table t: the rows in between.                                *)
Joined(t, sk, so, got, k, o) ==
    IF k = 0
    THEN /\ sk = 0 /\ so <= o /\ got = From(so, First(o, Ids(t)))
         /\ o = so \/ o <= Len(Ids(t))
    ELSE /\ o = 0 /\ sk <= k /\ got = From(so, InOrder(Cut(t, sk, k)))
         /\ so <= Cardinality(Cut(t, sk, k))
         /\ k = sk \/ k \in Live(t, sk)

(* Nothing lies between a key and itself.                                  *)
LEMMA CutEmpty ==
  ASSUME NEW t \in Seq(Names), NEW k \in Nat \ {0}
  PROVE  Cut(t, k, k) = {}
<1> SUFFICES ASSUME NEW i \in Cut(t, k, k) PROVE FALSE
  OBVIOUS
<1>1. i \in Nat /\ i < k /\ i >= k
  BY LiveIs DEF Cut, Live
<1>2. QED
  BY <1>1

(* A client that has just begun has seen nothing.                           *)
LEMMA JoinOpens ==
  ASSUME NEW t \in Seq(Names), NEW k \in Nat, NEW o \in Nat, k # 0 => o = 0
  PROVE  Joined(t, k, o, << >>, k, o)
<1>1. CASE k = 0
  <2> DEFINE s == First(o, Ids(t))
  <2>1. Ids(t) \in Seq(Nat)
    BY IdsIs
  <2>2. s \in Seq(Nat) /\ Len(s) = IF o < Len(Ids(t)) THEN o ELSE Len(Ids(t))
    BY <2>1, FirstIs
  <2>3. Len(Ids(t)) \in Nat
    BY <2>1
  <2> HIDE DEF s
  <2>4. o >= Len(s)
    BY <2>2, <2>3
  <2>5. From(o, s) = << >>
    BY <2>2, <2>4, FromEmpty
  <2>6. QED
    BY <1>1, <2>5 DEF Joined, s
<1>2. CASE k # 0
  <2> DEFINE s == InOrder(Cut(t, k, k))
  <2>1. Cut(t, k, k) = {}
    BY <1>2, CutEmpty
  <2>2. s \in Seq(Nat) /\ Cardinality(Cut(t, k, k)) = Len(s)
    BY CutSeq
  <2>3. Cardinality(Cut(t, k, k)) = 0
    BY <2>1, FS_EmptySet
  <2> HIDE DEF s
  <2>4. From(o, s) = << >>
    <3>1. Len(s) = 0 /\ o >= Len(s)
      BY <2>2, <2>3
    <3>2. s \in Seq(Nat)
      BY <2>2
    <3>3. QED
      BY <3>1, <3>2, FromEmpty
  <2>5. QED
    BY <1>2, <2>3, <2>4 DEF Joined, s
<1>3. QED
  BY <1>1, <1>2

(* The rows of the next page, which may be of a table that has grown, are   *)
(* the ones that follow: none is missed and none is seen twice.             *)
LEMMA JoinByKey ==
  ASSUME NEW t \in Seq(Names), NEW u \in Seq(Names), Len(t) <= Len(u),
         \A i \in 1..Len(t) : u[i] = t[i], NEW sk \in Nat, NEW so \in Nat, NEW got,
         NEW k \in Nat \ {0}, NEW o \in Nat, NEW rows, NEW next \in Nat,
         Joined(t, sk, so, got, k, o), Read(u, k, o, rows, next)
  PROVE  Read(u, sk, so, got \o rows, next)
<1> DEFINE s == InOrder(Cut(u, sk, k))
           v == InOrder(Cut(u, k, next))
<1>1. /\ o = 0 /\ sk <= k /\ got = From(so, InOrder(Cut(t, sk, k)))
      /\ so <= Cardinality(Cut(t, sk, k))
      /\ k = sk \/ k \in Live(t, sk)
  BY DEF Joined
<1>2. Cut(u, sk, k) = Cut(t, sk, k)
  <2>1. CASE k = sk
    BY <2>1, CutEmpty
  <2>2. CASE k \in Live(t, sk)
    <3>1. k \in 1..Len(t)
      BY <2>2, LiveIs
    <3>2. QED
      BY <3>1, CutStable
  <2>3. QED
    BY <1>1, <2>1, <2>2
<1>3. got = From(so, s) /\ so <= Cardinality(Cut(u, sk, k))
  BY <1>1, <1>2
<1>4. s \in Seq(Nat) /\ Cardinality(Cut(u, sk, k)) = Len(s) /\ v \in Seq(Nat)
  BY CutSeq
<1>5. Lists(s, Cut(u, sk, k)) /\ Lists(v, Cut(u, k, next))
  BY CutIs
<1>6. rows = From(0, v) /\ (next # 0 => next \in Live(u, k))
  BY <1>1 DEF Read
<1>7. next # 0 => k <= next /\ next \in Live(u, sk)
  BY <1>1, <1>6 DEF Live
<1> HIDE DEF s, v
<1>8. rows = v
  BY <1>4, <1>6, FromZero
<1>9. Lists(s \o v, Cut(u, sk, next))
  BY <1>1, <1>5, <1>7, CutJoin
<1>10. s \o v = InOrder(Cut(u, sk, next)) /\ Cardinality(Cut(u, sk, next)) = Len(s \o v)
  BY <1>9, ListsIs, ListsCount
<1>11. so <= Len(s)
  BY <1>3, <1>4
<1>12. got \o rows = From(so, s \o v)
  BY <1>3, <1>4, <1>8, <1>11, FromConcat
<1>13. so <= Len(s \o v)
  BY <1>4, <1>11
<1>14. QED
  BY <1>7, <1>10, <1>12, <1>13 DEF Read

(* The same for a page read by offset, whose first rows never move.        *)
LEMMA JoinByOffset ==
  ASSUME NEW t \in Seq(Names), NEW u \in Seq(Names), Len(t) <= Len(u),
         \A i \in 1..Len(t) : u[i] = t[i], NEW sk \in Nat, NEW so \in Nat, NEW got,
         NEW o \in Nat, NEW rows, NEW next \in Nat,
         Joined(t, sk, so, got, 0, o), Read(u, 0, o, rows, next)
  PROVE  Read(u, sk, so, got \o rows, next)
<1> DEFINE b == InOrder(Cut(u, 0, next))
<1>1. /\ sk = 0 /\ so <= o /\ got = From(so, First(o, Ids(t)))
      /\ o = so \/ o <= Len(Ids(t))
  BY DEF Joined
<1>2. b \in Seq(Nat) /\ Cardinality(Cut(u, 0, next)) = Len(b) /\ Len(b) \in Nat
  BY CutSeq
<1>3. /\ rows = From(o, b) /\ (next # 0 => next \in Live(u, 0) /\ o <= Len(b))
  BY <1>2 DEF Read
<1>4. Ids(t) \in Seq(Nat)
  BY IdsIs
<1>5. CASE o = so
  <2> DEFINE s == First(o, Ids(t))
  <2>1. s \in Seq(Nat) /\ Len(s) = IF o < Len(Ids(t)) THEN o ELSE Len(Ids(t))
    BY <1>4, FirstIs
  <2>2. Len(Ids(t)) \in Nat
    BY <1>4
  <2>3. got = From(o, s)
    BY <1>1, <1>5
  <2> HIDE DEF s, b
  <2>4. o >= Len(s)
    BY <2>1, <2>2
  <2>5. got = << >>
    BY <2>1, <2>3, <2>4, FromEmpty
  <2>6. rows \in Seq(Nat)
    BY <1>2, <1>3, FromIs
  <2>7. got \o rows = rows
    BY <2>5, <2>6
  <2>8. QED
    BY <1>1, <1>5, <2>7
<1>6. CASE o <= Len(Ids(t))
  <2>1. o <= Len(Ids(u)) /\ First(o, Ids(t)) = First(o, Ids(u))
    BY <1>6, IdsPrefix
  <2>2. o <= Len(b)
    <3>1. CASE next # 0
      BY <1>3, <3>1
    <3>2. CASE next = 0
      <4>1. b = Ids(u)
        BY <3>2, CutIs DEF Ids
      <4>2. QED
        BY <2>1, <4>1
    <3>3. QED
      BY <3>1, <3>2
  <2>3. First(o, b) = First(o, Ids(u))
    BY <1>2, <2>2, CutPrefix
  <2> DEFINE f == First(o, b)
             g == From(o, b)
  <2>4. f \o g = b /\ Len(f) = o
    BY <1>2, <2>2, FirstFrom
  <2>5. f \in Seq(Nat) /\ g \in Seq(Nat)
    BY <1>2, FirstIs, FromIs
  <2>6. got = From(so, f) /\ rows = g
    BY <1>1, <1>3, <2>1, <2>3
  <2> HIDE DEF f, g
  <2>7. so <= Len(f)
    BY <1>1, <2>4
  <2>8. got \o rows = From(so, b)
    <3>1. From(so, f) \o g = From(so, f \o g)
      BY <2>5, <2>7, FromConcat
    <3>2. QED
      BY <2>4, <2>6, <3>1
  <2>9. next # 0 => so <= Len(b)
    BY <1>1, <1>2, <2>2
  <2>10. QED
    BY <1>1, <1>2, <1>3, <2>8, <2>9 DEF Read
<1>7. QED
  BY <1>1, <1>5, <1>6

(* The client asks for the page after the one it got.                       *)
LEMMA JoinNextKey ==
  ASSUME NEW t \in Seq(Names), NEW sk \in Nat, NEW so \in Nat, NEW got, NEW next \in Nat \ {0},
         Read(t, sk, so, got, next)
  PROVE  Joined(t, sk, so, got, next, 0)
<1>1. /\ got = From(so, InOrder(Cut(t, sk, next))) /\ next \in Live(t, sk)
      /\ so <= Cardinality(Cut(t, sk, next))
  BY DEF Read
<1>2. sk <= next
  BY <1>1 DEF Live
<1>3. QED
  BY <1>1, <1>2 DEF Joined

(* By offset the next page starts right after a page that was filled.      *)
LEMMA JoinNextOffset ==
  ASSUME NEW t \in Seq(Names), NEW so \in Nat, NEW got, NEW next \in Nat \ {0},
         Read(t, 0, so, got, next), NEW o \in Nat, NEW rows, Read(t, 0, o, rows, next),
         NEW lim \in Nat \ {0}, Len(rows) = lim
  PROVE  Joined(t, 0, so, got, 0, o + lim)
<1> DEFINE n == Cardinality(Cut(t, 0, next))
           s == InOrder(Cut(t, 0, next))
<1>1. n \in Nat /\ s \in Seq(Nat) /\ n = Len(s)
  BY CutSeq
<1>2. Len(rows) = IF o < n THEN n - o ELSE 0
  BY ReadLen
<1>3. got = From(so, s) /\ so <= n
  BY DEF Read
<1>4. n <= Len(Ids(t)) /\ First(n, s) = First(n, Ids(t))
  BY <1>1, CutPrefix
<1> HIDE DEF n, s
<1>5. n = o + lim
  BY <1>1, <1>2
<1>6. First(n, s) = s
  BY <1>1, FirstAll
<1>7. QED
  BY <1>3, <1>4, <1>5, <1>6 DEF Joined

(* A client that pages by offset needs a limit that one call can fill.      *)
Able == session.byOffset => resolveLimit(call.in.limit) <= MaxPages * Grant

Whole == session.whole => Answered("rows") /\ call.in.tool = "list" /\ call.out.next = 0

Opening ==
    Reading \/ (Answered("rows") /\ call.in.tool = "list") =>
      /\ session.size <= call.began.size
      /\ call.in.key = 0 => session.key = 0
      /\ session.key # 0 => session.offset = 0

Reached ==
    Reading /\ Able =>
      Joined(Table(call.began.size), session.key, session.offset, session.seen,
             call.in.key, call.in.offset)

Collects ==
    Answered("rows") /\ call.in.tool = "list" /\ Able =>
      \E n \in session.size..Len(table) :
         Read(Table(n), session.key, session.offset, session.seen, call.out.next)

SessionInv == Whole /\ Opening /\ Reached /\ Collects

(* A client whose listing ended has the whole rest of the table.           *)
LEMMA SessionWhole ==
  ASSUME ToolsTypeOK, SessionInv
  PROVE  PagedWhole
<1> SUFFICES ASSUME Answered("rows"), session.whole,
                    session.byOffset => resolveLimit(call.in.limit) <= MaxPages * Least(cap, PageSize)
             PROVE  \E n \in session.size .. Len(table) :
                       session.seen = IF session.key = 0 THEN From(session.offset, Ids(Table(n)))
                                      ELSE InOrder(Live(Table(n), session.key))
  BY DEF PagedWhole
<1>0. table \in Seq(Names) /\ Len(table) \in Nat
  BY DEF ToolsTypeOK, Names
<1>1. session.key \in Nat /\ session.offset \in Nat /\ session.size \in Nat
  BY DEF ToolsTypeOK, Sessions
<1>2. call.in.tool = "list" /\ call.out.next = 0
  BY DEF SessionInv, Whole
<1>3. Able
  BY DEF Able, Grant
<1>4. PICK n \in session.size..Len(table) :
         Read(Table(n), session.key, session.offset, session.seen, 0)
  BY <1>2, <1>3 DEF SessionInv, Collects
<1>5. session.key # 0 => session.offset = 0
  BY <1>2 DEF SessionInv, Opening
<1>6. n \in 0..Len(table)
  BY <1>0, <1>1
<1>7. Table(n) \in Seq(Names)
  BY <1>0, <1>6, TableIs
<1>8. session.seen = From(session.offset, InOrder(Live(Table(n), session.key)))
  BY <1>1, <1>4, <1>7, CutIs DEF Read
<1>9. CASE session.key = 0
  BY <1>8, <1>9 DEF Ids
<1>10. CASE session.key # 0
  <2>1. InOrder(Live(Table(n), session.key)) \in Seq(Nat)
    BY <1>1, <1>7, LiveIs DEF Lists
  <2>2. session.seen = InOrder(Live(Table(n), session.key))
    BY <1>5, <1>8, <1>10, <2>1, FromZero
  <2>3. QED
    BY <1>10, <2>2
<1>11. QED
  BY <1>9, <1>10

(* A session that is opened has seen nothing.                              *)
LEMMA SessionBegins ==
  ASSUME ToolsTypeOK, NEW in \in Requests, Begin(in)
  PROVE  SessionInv'
<1> DEFINE c == Entered(in)
<1>0. table \in Seq(Names) /\ Len(table) \in Nat /\ in \in Inputs
  BY ToolsAssumption DEF ToolsTypeOK, Names
<1>1. /\ c \in ToolCalls /\ c.in = in /\ c.out.kind = "error"
      /\ c.began = [size |-> Len(table), account |-> account]
      /\ c.pc = "done" \/ (c.pc = FirstStep(in) /\ Refusal(in) = "")
  BY <1>0, EnteredIs
<1> HIDE DEF c
<1>2. call' = c /\ table' = table
  BY DEF c, Begin, chain
<1>3. /\ session'.seen = << >> /\ session'.key = in.key /\ session'.offset = in.offset
      /\ session'.size = Len(table) /\ session'.whole = FALSE
  BY DEF Begin, Opened, NoSession
<1>4. Refusal(in) = "" /\ in.tool = "list" => (in.key # 0 => in.offset = 0)
  BY DEF Refusal, ListingRefuses, listingCursorRefuses, PrepareTools
<1>5. c.pc # "total" /\ (c.pc = "fetch" => Refusal(in) = "")
  BY <1>0, <1>1, FirstStepIs
<1>6. call'.began.size = Len(table)
  <2>1. c.began = [size |-> Len(table), account |-> account]
    BY <1>1
  <2>2. c.began.size = Len(table)
    BY <2>1
  <2>3. QED
    BY <1>2, <2>2
<1>7. Whole'
  BY <1>3 DEF Whole
<1>8. Collects'
  BY <1>1, <1>2 DEF Collects, Answered
<1>9. Opening'
  <2>1. CASE Reading'
    <3>1. in.key # 0 => in.offset = 0
      BY <1>1, <1>2, <1>4, <1>5, <2>1 DEF Reading
    <3>2. session'.size <= call'.began.size
      BY <1>0, <1>3, <1>6
    <3>3. call'.in.key = session'.key
      BY <1>1, <1>2, <1>3
    <3>4. QED
      BY <1>3, <3>1, <3>2, <3>3 DEF Opening
  <2>2. CASE ~Reading'
    BY <1>1, <1>2, <2>2 DEF Opening, Answered
  <2>3. QED
    BY <2>1, <2>2
<1>10. ASSUME Reading' PROVE Joined(Table(call.began.size)', session'.key, session'.offset,
                                    session'.seen, call'.in.key, call'.in.offset)
  <2>1. in.key # 0 => in.offset = 0
    BY <1>1, <1>2, <1>4, <1>5, <1>10 DEF Reading
  <2>2. Table(call.began.size)' = table
    BY <1>0, <1>2, <1>6, TableIs DEF Table
  <2>3. in.key \in Nat /\ in.offset \in Nat
    BY <1>0 DEF Inputs
  <2>4. Joined(table, in.key, in.offset, << >>, in.key, in.offset)
    BY <1>0, <2>1, <2>3, JoinOpens
  <2>5. QED
    BY <1>1, <1>2, <1>3, <2>2, <2>4
<1>11. QED
  BY <1>7, <1>8, <1>9, <1>10 DEF SessionInv, Reached

(* Asking for the next page, by cursor or by offset, misses nothing.       *)
LEMMA SessionGoesOn ==
  ASSUME ToolsTypeOK, Past, ListInv, SessionInv, NEW b \in BOOLEAN, NextPage(b)
  PROVE  SessionInv'
<1>0. table \in Seq(Names) /\ Len(table) \in Nat /\ table' = table /\ cap' = cap
  BY DEF ToolsTypeOK, Names, NextPage, chain
<1>1. /\ call.pc = "done" /\ call.in.tool = "list" /\ call.out.kind = "rows"
      /\ call.out.next # 0 /\ (b => call.in.key = 0)
  BY DEF NextPage
<1>2. PICK in \in Inputs :
         /\ call \in ToolCalls /\ call.in \in Inputs /\ call.out \in Answers
         /\ call.out.next \in Nat
         /\ in.tool = "list" /\ in.limit = call.in.limit
         /\ in.key = IF b THEN call.in.key ELSE call.out.next
         /\ in.offset = IF b THEN call.in.offset + resolveLimit(call.in.limit) ELSE 0
         /\ call' = Entered(in)
  BY NextPageIs
<1> DEFINE c == Entered(in)
<1>3. /\ c.in = in /\ c.out.kind = "error"
      /\ c.began = [size |-> Len(table), account |-> account]
      /\ c.pc = "done" \/ (c.pc = FirstStep(in) /\ Refusal(in) = "")
  BY EnteredIs
<1>4. call' = c
  BY <1>2
<1> HIDE DEF c
<1>5. call'.in = in /\ call'.began.size = Len(table) /\ call'.out.kind = "error"
  <2>1. c.began = [size |-> Len(table), account |-> account]
    BY <1>3
  <2>2. c.began.size = Len(table)
    BY <2>1
  <2>3. QED
    BY <1>3, <1>4, <2>2
<1>6. /\ session'.seen = session.seen /\ session'.key = session.key
      /\ session'.offset = session.offset /\ session'.size = session.size
      /\ session'.whole = session.whole
      /\ session'.byOffset = (session.byOffset \/ b)
  BY DEF NextPage, ToolsTypeOK, Sessions
<1>7. session.whole = FALSE
  BY <1>1 DEF SessionInv, Whole, ToolsTypeOK, Sessions
<1>8. /\ session.key \in Nat /\ session.offset \in Nat /\ session.size \in Nat
      /\ call.began.size \in Nat /\ call.in.key \in Nat /\ call.in.offset \in Nat
      /\ call.in.limit \in Nat
  BY <1>2 DEF ToolsTypeOK, Sessions, ToolCalls, Inputs
<1>9. /\ session.size <= call.began.size /\ (call.in.key = 0 => session.key = 0)
      /\ (session.key # 0 => session.offset = 0)
  BY <1>1 DEF SessionInv, Opening, Answered
<1>10. call.began.size <= Len(table)
  BY <1>1 DEF Past
<1>11. Whole' /\ Collects'
  BY <1>5, <1>6, <1>7 DEF Whole, Collects, Answered
<1>12. Opening'
  <2>1. session'.size <= call'.began.size
    BY <1>0, <1>5, <1>6, <1>8, <1>9, <1>10
  <2>2. in.key = 0 => session.key = 0
    BY <1>1, <1>2, <1>9
  <2>3. QED
    BY <1>5, <1>6, <1>9, <2>1, <2>2 DEF Opening
<1>13. ASSUME Able' PROVE Joined(table, session.key, session.offset, session.seen, in.key, in.offset)
  <2>1. Able
    BY <1>0, <1>2, <1>5, <1>6, <1>13 DEF Able, Grant
  <2>2. PICK n \in session.size..Len(table) :
           Read(Table(n), session.key, session.offset, session.seen, call.out.next)
    BY <1>1, <2>1 DEF SessionInv, Collects, Answered
  <2>3. n \in 0..Len(table)
    BY <1>0, <1>8
  <2>5. Read(table, session.key, session.offset, session.seen, call.out.next)
    BY <1>0, <1>1, <1>2, <1>8, <2>2, <2>3, ReadNow
  <2>6. CASE ~b
    <3>1. in.key = call.out.next /\ in.offset = 0
      BY <1>2, <2>6
    <3>2. Joined(table, session.key, session.offset, session.seen, call.out.next, 0)
      BY <1>0, <1>1, <1>2, <1>8, <2>5, JoinNextKey
    <3>3. QED
      BY <3>1, <3>2
  <2>7. CASE b
    <3> DEFINE lim == resolveLimit(call.in.limit)
    <3>1. lim \in Nat \ {0}
      BY <1>8, ResolveIs
    <3>2. call.in.key = 0 /\ session.key = 0 /\ in.key = 0 /\ in.offset = call.in.offset + lim
      BY <1>1, <1>2, <1>9, <2>7
    <3>3. lim <= MaxPages * Grant
      BY <1>0, <1>2, <1>5, <1>6, <1>13, <2>7 DEF Able, Grant
    <3>4. Len(call.out.rows) = lim
      BY <1>1, <3>3 DEF ListInv, Answer, Answered, Filled
    <3>5. PICK m \in call.began.size..Len(table) :
             Read(Table(m), call.in.key, call.in.offset, call.out.rows, call.out.next)
      BY <1>1 DEF ListInv, Answer, Answered
    <3>6. m \in 0..Len(table)
      BY <1>0, <1>8
    <3>9. Read(table, call.in.key, call.in.offset, call.out.rows, call.out.next)
      BY <1>0, <1>1, <1>2, <1>8, <3>5, <3>6, ReadNow
    <3> HIDE DEF lim
    <3>10. Joined(table, 0, session.offset, session.seen, 0, call.in.offset + lim)
      BY <1>0, <1>1, <1>2, <1>8, <2>5, <3>1, <3>2, <3>4, <3>9, JoinNextOffset
    <3>11. QED
      BY <3>2, <3>10
  <2>8. QED
    BY <2>6, <2>7
<1>14. Reached'
  <2>1. Table(call.began.size)' = table
    BY <1>0, <1>5, TableIs DEF Table
  <2>2. QED
    BY <1>5, <1>6, <1>13, <2>1 DEF Reached
<1>15. QED
  BY <1>11, <1>12, <1>14 DEF SessionInv

(* A listing answers the client.                                            *)
LEMMA SessionAnswered ==
  ASSUME ToolsTypeOK, Past, ListInv, SessionInv, Reading, call \in ToolCalls, call' \in ToolCalls,
         call'.in = call.in, call'.began = call.began, table' = table, cap' = cap, ListInv',
         call'.pc = "done", call'.out.kind = "rows",
         session' = [session EXCEPT !.seen = @ \o call'.out.rows, !.whole = call'.out.next = 0]
  PROVE  SessionInv'
<1>0. table \in Seq(Names) /\ Len(table) \in Nat /\ call.in.tool = "list"
  BY DEF ToolsTypeOK, Names, Reading
<1>1. /\ session'.seen = session.seen \o call'.out.rows /\ session'.key = session.key
      /\ session'.offset = session.offset /\ session'.size = session.size
      /\ session'.whole = (call'.out.next = 0) /\ session'.byOffset = session.byOffset
  BY DEF ToolsTypeOK, Sessions
<1>2. Answered("rows")'
  BY DEF Answered
<1>3. Whole'
  BY <1>0, <1>1, <1>2 DEF Whole
<1>4. /\ session.size <= call.began.size /\ (call.in.key = 0 => session.key = 0)
      /\ (session.key # 0 => session.offset = 0)
  BY DEF SessionInv, Opening
<1>5. Opening'
  BY <1>1, <1>4 DEF Opening
<1>6. Reached'
  BY DEF Reached, Reading
<1>7. /\ session.key \in Nat /\ session.offset \in Nat /\ session.size \in Nat
      /\ call.began.size \in Nat /\ call.in.key \in Nat /\ call.in.offset \in Nat
      /\ call.began.size <= Len(table)
  BY DEF ToolsTypeOK, Sessions, ToolCalls, Inputs, Past, Reading
<1>8. call'.out.next \in Nat
  <2>1. call'.out \in Answers
    BY DEF ToolCalls
  <2>2. QED
    BY <2>1 DEF Answers
<1>9. ASSUME Able'
      PROVE  \E n \in session.size..Len(table) :
                Read(Table(n), session.key, session.offset, session'.seen, call'.out.next)
  <2>1. Able
    BY <1>1, <1>9 DEF Able, Grant
  <2>2. Joined(Table(call.began.size), session.key, session.offset, session.seen,
               call.in.key, call.in.offset)
    BY <2>1 DEF SessionInv, Reached
  <2>3. PICK n \in call.began.size..Len(table) :
           Read(Table(n), call.in.key, call.in.offset, call'.out.rows, call'.out.next)
    <3>1. \A n : Table(n)' = Table(n)
      BY DEF Table
    <3>2. QED
      BY <1>0, <1>2, <3>1 DEF ListInv, Answer
  <2>4. call.began.size \in 0..Len(table) /\ n \in 0..Len(table) /\ n \in session.size..Len(table)
        /\ call.began.size <= n
    BY <1>0, <1>4, <1>7
  <2> DEFINE t == Table(call.began.size)
             u == Table(n)
  <2>5. /\ t \in Seq(Names) /\ Len(t) = call.began.size
        /\ \A i \in 1..call.began.size : t[i] = table[i]
    BY <1>0, <2>4, TableIs
  <2>6. u \in Seq(Names) /\ Len(u) = n /\ \A i \in 1..n : u[i] = table[i]
    BY <1>0, <2>4, TableIs
  <2> HIDE DEF t, u
  <2>7. Len(t) <= Len(u) /\ \A i \in 1..Len(t) : u[i] = t[i]
    BY <1>0, <2>4, <2>5, <2>6
  <2>8. Read(u, call.in.key, call.in.offset, call'.out.rows, call'.out.next)
    BY <2>3 DEF u
  <2>9. Joined(t, session.key, session.offset, session.seen, call.in.key, call.in.offset)
    BY <2>2 DEF t
  <2>10. Read(u, session.key, session.offset, session.seen \o call'.out.rows, call'.out.next)
    <3>1. CASE call.in.key = 0
      BY <1>7, <1>8, <2>5, <2>6, <2>7, <2>8, <2>9, <3>1, JoinByOffset
    <3>2. CASE call.in.key # 0
      BY <1>7, <1>8, <2>5, <2>6, <2>7, <2>8, <2>9, <3>2, JoinByKey
    <3>3. QED
      BY <3>1, <3>2
  <2>11. QED
    BY <1>1, <2>4, <2>10 DEF u
<1>10. Collects'
  <2>1. \A n : Table(n)' = Table(n)
    BY DEF Table
  <2>2. QED
    BY <1>1, <1>9, <2>1 DEF Collects
<1>11. QED
  BY <1>3, <1>5, <1>6, <1>10 DEF SessionInv

(* Every step preserves what is known of a session.                        *)
LEMMA SessionStep ==
  ASSUME ToolsTypeOK, Flow, Past, ListInv, SessionInv, ListInv', [ToolsNext]_toolVars
  PROVE  SessionInv'
<1>0. table \in Seq(Names) /\ Len(table) \in Nat
  BY DEF ToolsTypeOK, Names
<1>1. CASE \E in \in Requests : Begin(in)
  BY <1>1, SessionBegins
<1>2. CASE \E b \in BOOLEAN : NextPage(b)
  BY <1>2, SessionGoesOn
<1>3. CASE InCall
  <2>1. /\ call \in ToolCalls /\ call' \in ToolCalls /\ call'.in = call.in
        /\ call'.began = call.began /\ call.pc # "none" /\ call.pc # "done"
        /\ table' = table /\ cap' = cap
    BY <1>3, InCallIs
  <2>2. session.whole = FALSE
    BY <2>1 DEF SessionInv, Whole, Answered, ToolsTypeOK, Sessions
  <2>3. \A n : Table(n)' = Table(n)
    BY <2>1 DEF Table
  <2>4. ASSUME session' = session, ~Reading',
               ~(call'.pc = "done" /\ call'.out.kind = "rows" /\ call'.in.tool = "list")
        PROVE  SessionInv'
    BY <2>2, <2>4 DEF SessionInv, Whole, Opening, Reached, Collects, Answered
  <2>5. CASE Fails
    <3>1. call'.pc = "done" /\ call'.out.kind = "error"
      BY <2>1, <2>5, FailsIs, FinishIs
    <3>2. session' = session
      BY <2>5 DEF Fails
    <3>3. QED
      BY <2>4, <3>1, <3>2 DEF Reading
  <2>6. CASE \/ PeekHighest \/ PeekHighestFails \/ FetchScan \/ GetRegistry \/ RegistriesByID
             \/ GetRecords \/ ResolveIndex \/ PendingNonceAt \/ SuggestGasPrice
             \/ EstimateGas \/ SuggestGasTipCap \/ TipFails
    <3>1. call.in.tool # "list"
      <4>1. CASE FetchScan
        BY <4>1 DEF FetchScan
      <4>2. CASE call.pc \in {"peek", "lookup", "index", "nonce", "price", "gas", "tip"}
        BY <4>2 DEF Flow, PrepareTools
      <4>3. QED
        BY <2>6, <4>1, <4>2 DEF PeekHighest, PeekHighestFails, GetRegistry, RegistriesByID,
             GetRecords, ResolveIndex, PendingNonceAt, SuggestGasPrice, EstimateGas,
             SuggestGasTipCap, TipFails
    <3>2. session' = session
      BY <2>6 DEF PeekHighest, PeekHighestFails, FetchScan, GetRegistry, RegistriesByID,
             GetRecords, ResolveIndex, PendingNonceAt, SuggestGasPrice, EstimateGas,
             SuggestGasTipCap, TipFails
    <3>3. QED
      BY <2>1, <2>4, <3>1, <3>2 DEF Reading
  <2>7. CASE FetchList
    <3>1. Reading
      BY <2>7 DEF FetchList, Reading
    <3>2. CASE call'.pc \in {"fetch", "total"} /\ session' = session
      <4>1. Whole' /\ Collects'
        BY <2>2, <3>2 DEF Whole, Collects, Answered
      <4>2. Opening'
        BY <2>1, <3>1, <3>2 DEF SessionInv, Opening
      <4>3. Able' = Able
        BY <2>1, <3>2 DEF Able, Grant
      <4>4. Reached'
        BY <2>1, <2>3, <3>1, <3>2, <4>3 DEF SessionInv, Reached
      <4>5. QED
        BY <4>1, <4>2, <4>4 DEF SessionInv
    <3>3. ASSUME call'.pc = "done", NEW total,
                 call'.out = Listed(call'.rows, call'.cursor, total, TRUE),
                 session' = [session EXCEPT !.seen = @ \o call'.rows, !.whole = call'.cursor = 0]
          PROVE  SessionInv'
      <4>1. call'.out.rows = call'.rows /\ call'.out.next = call'.cursor /\ call'.out.kind = "rows"
        BY <3>3 DEF Listed
      <4>2. QED
        BY <2>1, <3>1, <3>3, <4>1, SessionAnswered
    <3>4. QED
      BY <2>7, <3>2, <3>3, FetchListIs
  <2>8. CASE PeekTotal \/ PeekTotalFails
    <3>1. Reading
      BY <2>8, TotalIs DEF Reading
    <3>2. PICK total \in Nat, exact \in BOOLEAN :
             /\ Finish(Listed(call.rows, call.cursor, total, exact))
             /\ Listed(call.rows, call.cursor, total, exact) \in Answers
      BY <2>8, TotalIs
    <3>3. call'.pc = "done" /\ call'.out = Listed(call.rows, call.cursor, total, exact)
      BY <2>1, <3>2, FinishIs
    <3>4. call'.out.rows = call.rows /\ call'.out.next = call.cursor /\ call'.out.kind = "rows"
      BY <3>3 DEF Listed
    <3>5. session' = [session EXCEPT !.seen = @ \o call.rows, !.whole = call.cursor = 0]
      BY <2>8, TotalIs
    <3>6. QED
      BY <2>1, <3>1, <3>3, <3>4, <3>5, SessionAnswered
  <2>9. QED
    BY <1>3, <2>5, <2>6, <2>7, <2>8 DEF InCall
<1>4. CASE ChainMoves
  <2>1. /\ call' = call /\ cap' = cap /\ session' = session
        /\ Len(table') \in Nat /\ Len(table) <= Len(table')
        /\ \A i \in 1..Len(table) : table'[i] = table[i]
        /\ table' \in Seq(Names) /\ call.pc # "none"
    BY <1>4, ChainGrows
  <2>2. call.began.size \in 0..Len(table) /\ session.size \in Nat
    BY <1>0, <2>1, CallOpen DEF ToolCalls, Past, ToolsTypeOK, Sessions
  <2>3. \A n \in 0..Len(table) : Table(n)' = Table(n) /\ n \in 0..Len(table')
    BY <1>0, <2>1, TableGrows
  <2>4. Able' = Able
    BY <2>1 DEF Able, Grant
  <2>5. Whole' /\ Opening'
    BY <2>1 DEF SessionInv, Whole, Opening, Reading, Answered
  <2>6. Reached'
    <3>1. Table(call.began.size)' = Table(call.began.size)
      <4> DEFINE n == call.began.size
      <4>1. n' = n
        BY <2>1
      <4>2. Table(n)' = SubSeq(table', 1, n') /\ Table(n) = SubSeq(table, 1, n)
        BY DEF Table
      <4>3. SubSeq(table', 1, n) = SubSeq(table, 1, n)
        <5> HIDE DEF n
        <5>1. n \in 0..Len(table)
          BY <2>2 DEF n
        <5>2. \A m \in 0..Len(table) : SubSeq(table', 1, m) = SubSeq(table, 1, m)
          BY <2>3 DEF Table
        <5>3. QED
          BY <5>1, <5>2
      <4>4. QED
        BY <4>1, <4>2, <4>3
    <3>2. QED
      BY <2>1, <2>4, <3>1 DEF SessionInv, Reached, Reading
  <2>7. Collects'
    <3>1. CASE Answered("rows") /\ call.in.tool = "list" /\ Able
      <4>1. PICK n \in session.size..Len(table) :
               Read(Table(n), session.key, session.offset, session.seen, call.out.next)
        BY <3>1 DEF SessionInv, Collects
      <4>2. n \in 0..Len(table) /\ n \in session'.size..Len(table')
        BY <1>0, <2>1, <2>2
      <4>3. Table(n)' = Table(n)
        BY <2>3, <4>2
      <4>4. Read(Table(n)', session'.key, session'.offset, session'.seen, call'.out.next)
        BY <2>1, <4>1, <4>3
      <4>5. QED
        BY <4>2, <4>4 DEF Collects
    <3>2. CASE ~(Answered("rows") /\ call.in.tool = "list" /\ Able)
      BY <2>1, <2>4, <3>2 DEF Collects, Answered
    <3>3. QED
      BY <3>1, <3>2
  <2>8. QED
    BY <2>5, <2>6, <2>7 DEF SessionInv
<1>5. CASE UNCHANGED toolVars
  BY <1>5 DEF toolVars, chain, SessionInv, Whole, Opening, Reached, Collects, Able, Grant, Reading,
              Answered, Table
<1>6. QED
  BY <1>1, <1>2, <1>3, <1>4, <1>5, StepKinds

-----------------------------------------------------------------------------
(* The inductive invariant of the tools, and what it gives.                 *)

ToolsInv == ToolsTypeOK /\ Flow /\ PrepInv /\ ScanInv /\ ListInv /\ SessionInv

(* The invariant holds when the server starts.                             *)
LEMMA ToolsInvInit == ToolsInit => ToolsInv
<1> SUFFICES ASSUME ToolsInit PROVE ToolsInv
  OBVIOUS
<1>1. ToolsTypeOK /\ Flow
  BY ToolsTypeInit
<1>2. call.pc = "none" /\ session.whole = FALSE /\ moves = 0 /\ table \in Tables
  BY DEF ToolsInit, NoCall, NoSession
<1>3. PrepInv
  BY <1>2 DEF PrepInv, Past, Indexed, Nonced, Buffered, PreparedUsable, Answered
<1>4. ScanInv
  <2>1. Len(table) + 2 * (MaxMoves - moves) < Wrap
    <3>1. Len(table) + 2 * MaxMoves < Wrap /\ MaxMoves \in Nat
      BY <1>2, ToolsAssumption
    <3>2. MaxMoves - moves = MaxMoves
      BY <1>2, <3>1
    <3>3. QED
      BY <3>1, <3>2
  <2>2. QED
    BY <1>2, <2>1 DEF ScanInv, Walking, Narrow, Fits, ScanComplete, Answered
<1>5. ListInv
  BY <1>2 DEF ListInv, Aligned, Progress, Counted, Filling, Reading, Answer, TotalTruthful, Answered
<1>6. SessionInv
  BY <1>2 DEF SessionInv, Whole, Opening, Reached, Collects, Reading, Answered
<1>7. QED
  BY <1>1, <1>3, <1>4, <1>5, <1>6 DEF ToolsInv

(* Every step preserves it.                                                *)
LEMMA ToolsInvStep == ToolsInv /\ [ToolsNext]_toolVars => ToolsInv'
<1> SUFFICES ASSUME ToolsInv, [ToolsNext]_toolVars PROVE ToolsInv'
  OBVIOUS
<1>1. ToolsTypeOK /\ Flow /\ PrepInv /\ ScanInv /\ ListInv /\ SessionInv /\ Past
  BY DEF ToolsInv, PrepInv
<1>2. ToolsTypeOK' /\ Flow'
  BY <1>1, ToolsTypeStep
<1>3. PrepInv'
  BY <1>1, PrepStep
<1>4. ScanInv'
  BY <1>1, ScanStep
<1>5. ListInv'
  BY <1>1, ListStep
<1>6. SessionInv'
  BY <1>1, <1>5, SessionStep
<1>7. QED
  BY <1>2, <1>3, <1>4, <1>5, <1>6 DEF ToolsInv

(* It always holds.                                                        *)
LEMMA ToolsAlways == ToolsSpec => []ToolsInv
BY ToolsInvInit, ToolsInvStep, PTL DEF ToolsSpec

(* The state of the tools is always well typed: no listing and no walk      *)
(* fetches more than maxNameScanPages pages, and every answer has the form  *)
(* its kind promises (handleRegistriesListing, scanRegistriesByName).       *)
THEOREM ToolsTypeCorrect == ToolsSpec => []ToolsTypeOK
<1>1. ToolsInv => ToolsTypeOK
  BY DEF ToolsInv
<1>2. QED
  BY <1>1, ToolsAlways, PTL

(* Every transaction that a preparation hands out has a nonce and a version *)
(* the chain had during the call, a gas limit a fifth above the estimate    *)
(* and a fee that pays its tip, whatever moved between the RPCs             *)
(* (PrepareUpdateRecordStatus, buildUnsignedTx).                            *)
THEOREM PreparationsUsable == ToolsSpec => []PreparedUsable
<1>1. ToolsInv => PreparedUsable
  BY DEF ToolsInv, PrepInv
<1>2. QED
  BY <1>1, ToolsAlways, PTL

(* A listing by name that does not call itself truncated has every match of *)
(* the table as it was at some moment of the call, and returns exactly the  *)
(* caller's window of them, for every table, page cap and limit             *)
(* (scanRegistriesByName, pageRegistries).                                  *)
THEOREM ScansComplete == ToolsSpec => []ScanComplete
<1>1. ToolsInv => ScanComplete
  BY DEF ToolsInv, ScanInv
<1>2. QED
  BY <1>1, ToolsAlways, PTL

(* A total that a listing calls exact lies between the number of registries *)
(* and the number of ids at one moment of the call; a total it calls a lower *)
(* bound is the caller's offset and the rows of the page, which the table   *)
(* bounds only when the page has rows (listingTotal).                       *)
THEOREM TotalsTruthful == ToolsSpec => []TotalTruthful
<1>1. ToolsInv => TotalTruthful
  BY DEF ToolsInv, ListInv
<1>2. QED
  BY <1>1, ToolsAlways, PTL

(* A client that follows the cursors, or adds the limit to its offset, until *)
(* no cursor is left has every registry from its start on, once and in      *)
(* order, though the table grows between its calls                          *)
(* (handleRegistriesListing, listingCursor).                                *)
THEOREM PagingWhole == ToolsSpec => []PagedWhole
<1>1. ToolsInv => PagedWhole
  BY SessionWhole DEF ToolsInv
<1>2. QED
  BY <1>1, ToolsAlways, PTL
=============================================================================
