-------------------------- MODULE WriteRelay_proofs --------------------------
(***************************************************************************)
(* Proofs about the write relay, for any number of signers and concurrent  *)
(* calls, any rate and any window.                                         *)
(***************************************************************************)
EXTENDS WriteRelay, FiniteSetTheorems, TLAPS

---------------------------------------------------------------------------
(* Lemmas on the operators of the model.                                   *)

(* A window start is an integer and the window of a clock value is one of  *)
(* the windows.                                                            *)
LEMMA WindowLemma ==
    /\ \A w \in Windows : w \in Int
    /\ \A t \in 0..MaxNow : WindowStart(t) \in Windows
    /\ NoWindow \in Windows
  <1>1. \A t \in 0..MaxNow : WindowStart(t) \in Int
    BY RelayAssumption DEF WindowStart
  <1>2. \A w \in Windows : w \in Int
    BY <1>1 DEF Windows
  <1>3. \A t \in 0..MaxNow : WindowStart(t) \in Windows
    BY DEF Windows
  <1>4. 0 \in 0..MaxNow
    BY RelayAssumption
  <1> QED
    BY <1>2, <1>3, <1>4 DEF NoWindow

(* Bump adds one at the call's signer and window, nothing elsewhere.       *)
LEMMA BumpLemma ==
    ASSUME NEW c \in Calls, NEW tally \in Tally,
           signer[c] \in Signers, ws[c] \in Windows
    PROVE  /\ Bump(tally, c) \in Tally
           /\ \A s \in Signers, w \in Windows :
                 Bump(tally, c)[s][w] =
                     tally[s][w] + (IF Decoded(c) /\ signer[c] = s /\ ws[c] = w THEN 1 ELSE 0)
  <1>1. CASE Decoded(c)
    BY <1>1, SMT DEF Bump, Tally
  <1>2. CASE ~Decoded(c)
    BY <1>2, SMT DEF Bump, Tally
  <1> QED
    BY <1>1, <1>2

(* Two sets of calls that agree outside of c differ in size by c alone.    *)
LEMMA CardStep ==
    ASSUME NEW c \in Calls, NEW A, NEW B, A \subseteq Calls, B \subseteq Calls,
           A \ {c} = B \ {c}
    PROVE  /\ Cardinality(A) \in Nat /\ Cardinality(B) \in Nat
           /\ Cardinality(B) <= Cardinality(Calls)
           /\ Cardinality(Calls) \in Nat
           /\ Cardinality(B) + (IF c \in A THEN 1 ELSE 0)
                = Cardinality(A) + (IF c \in B THEN 1 ELSE 0)
  <1>1. IsFiniteSet(Calls)
    BY RelayAssumption
  <1>2. /\ IsFiniteSet(A) /\ Cardinality(A) \in Nat
        /\ IsFiniteSet(B) /\ Cardinality(B) \in Nat
        /\ Cardinality(B) <= Cardinality(Calls)
        /\ Cardinality(Calls) \in Nat
    BY <1>1, FS_Subset, FS_CardinalityType
  <1>3. Cardinality(A \ {c}) = IF c \in A THEN Cardinality(A) - 1 ELSE Cardinality(A)
    BY <1>2, FS_RemoveElement
  <1>4. Cardinality(B \ {c}) = IF c \in B THEN Cardinality(B) - 1 ELSE Cardinality(B)
    BY <1>2, FS_RemoveElement
  <1> QED
    BY <1>2, <1>3, <1>4

---------------------------------------------------------------------------
(* Type correctness.                                                       *)

(* Every step of a call, the admin API, the purge and the clock keeps the  *)
(* types.                                                                  *)
LEMMA TypeStep == TypeOK /\ [Next]_relayVars => TypeOK'
  <1> SUFFICES ASSUME TypeOK, [Next]_relayVars PROVE TypeOK'
    OBVIOUS
  <1> USE RelayAssumption, WindowLemma
  <1>1. ASSUME NEW c \in Calls, Arrive(c) PROVE TypeOK'
    BY <1>1 DEF TypeOK, Arrive, ArriveKeyless, ArriveAny, ArriveScoped, Begin, Goto, gateVars, auditVars, nodeVars, Steps, Kinds
  <1>2. ASSUME NEW c \in Calls, pc[c] # "idle", Call(c), ~Arrive(c) PROVE TypeOK'
    <2>1. signer[c] \in Signers /\ ws[c] \in Windows
      BY <1>2 DEF TypeOK
    <2>2. \A tally \in Tally : Bump(tally, c) \in Tally
      BY <2>1, BumpLemma
    <2>3. CASE CheckBlacklist(c)
      BY <2>3 DEF TypeOK, CheckBlacklist, Continue, Return, Goto, gateVars, auditVars,
         nodeVars, Steps, Kinds
    <2>4. CASE CheckQuota(c)
      BY <2>2, <2>4 DEF TypeOK, CheckQuota, Continue, Return, Goto, gateVars, auditVars,
         nodeVars, Steps, Kinds
    <2>5. CASE Transmit(c)
      <3>1. afterBan' \in [Signers -> Nat]
        BY <2>1, <2>5 DEF TypeOK, Transmit
      <3> QED
        BY <2>2, <2>5, <3>1 DEF TypeOK, Transmit, Continue, Goto, gateVars, auditVars, Steps
    <2>6. CASE TransmitFails(c) \/ Answer(c)
      BY <2>6 DEF TypeOK, TransmitFails, Answer, Continue, Goto, gateVars, auditVars,
         nodeVars, Steps, Kinds
    <2>7. CASE AnswerLost(c)
      BY <2>2, <2>7 DEF TypeOK, AnswerLost, Continue, Goto, gateVars, auditVars, nodeVars,
         Steps, Kinds
    <2>8. CASE RecordOk(c)
      BY <2>2, <2>8 DEF TypeOK, RecordOk, Record, Continue, Return, Goto, gateVars, nodeVars, Steps, Kinds
    <2>9. CASE RecordFailed(c)
      BY <2>2, <2>9 DEF TypeOK, RecordFailed, Record, Return, Goto, gateVars, nodeVars, Steps, Kinds
    <2>10. CASE Increment(c)
      BY <2>2, <2>10 DEF TypeOK, Increment, Return, Goto, auditVars, nodeVars, Steps, Kinds
    <2>11. CASE IncrementFails(c)
      BY <2>2, <2>11 DEF TypeOK, IncrementFails, Return, Goto, gateVars, auditVars, nodeVars,
         Steps, Kinds
    <2>12. CASE Die(c)
      BY <2>2, <2>12 DEF TypeOK, Die, Return, Goto, gateVars, nodeVars, Steps, Kinds
    <2> QED
      BY <1>2, <2>3, <2>4, <2>5, <2>6, <2>7, <2>8, <2>9, <2>10, <2>11, <2>12 DEF Call
  <1>3. ASSUME NEW c \in Calls, Call(c), pc[c] = "idle" PROVE Arrive(c)
    BY <1>3 DEF Call, CheckBlacklist, CheckQuota, Transmit, TransmitFails, Answer, AnswerLost,
       RecordOk, RecordFailed, Increment, IncrementFails, Die
  <1>4. ASSUME NEW s \in Signers, Ban(s) \/ Unban(s) \/ PurgeBan(s) PROVE TypeOK'
    BY <1>4 DEF TypeOK, Ban, Unban, Add, Remove, PurgeBan, auditVars, nodeVars, callVars
  <1>5. CASE PurgeQuota
    BY <1>5 DEF TypeOK, PurgeQuota, auditVars, nodeVars, callVars, Tally
  <1>6. CASE Tick
    BY <1>6 DEF TypeOK, Tick, gateVars, auditVars, nodeVars, callVars
  <1>7. CASE UNCHANGED relayVars
    BY <1>7 DEF TypeOK, relayVars, gateVars, auditVars, nodeVars, callVars
  <1> QED
    BY <1>1, <1>2, <1>3, <1>4, <1>5, <1>6, <1>7 DEF Next

(* The tables, the calls and the observers always have their types.        *)
THEOREM TypeCorrect == Spec => []TypeOK
  <1>1. Init => TypeOK
    BY RelayAssumption, WindowLemma DEF Init, TypeOK, Tally, ZeroTally, Steps
  <1> QED
    BY <1>1, TypeStep, PTL DEF Spec

---------------------------------------------------------------------------
(* What a call carries.                                                    *)

(* A step of call c leaves the other calls alone.                          *)
LEMMA Frame ==
    ASSUME TypeOK, NEW c \in Calls, Call(c)
    PROVE  /\ mode' = mode /\ now' = now /\ bans' = bans
           /\ \A d \in Calls : d # c =>
                 pc'[d] = pc[d] /\ signer'[d] = signer[d] /\ kind'[d] = kind[d] /\ ws'[d] = ws[d]
  <1>1. CASE Arrive(c)
    BY <1>1 DEF TypeOK, Arrive, ArriveKeyless, ArriveAny, ArriveScoped, Begin, Goto, gateVars
  <1>2. CASE CheckBlacklist(c) \/ CheckQuota(c)
    BY <1>2 DEF TypeOK, CheckBlacklist, CheckQuota, Continue, Return, Goto, gateVars
  <1>3. CASE Transmit(c) \/ TransmitFails(c) \/ Answer(c) \/ AnswerLost(c)
    BY <1>3 DEF TypeOK, Transmit, TransmitFails, Answer, AnswerLost, Continue, Goto, gateVars
  <1>4. CASE RecordOk(c) \/ RecordFailed(c)
    BY <1>4 DEF TypeOK, RecordOk, Record, RecordFailed, Continue, Return, Goto, gateVars
  <1>5. CASE Increment(c) \/ IncrementFails(c) \/ Die(c)
    BY <1>5 DEF TypeOK, Increment, IncrementFails, Die, Return, Goto, gateVars
  <1> QED
    BY <1>1, <1>2, <1>3, <1>4, <1>5 DEF Call

(* A step of a call other than Arrive keeps its transaction or returns.    *)
LEMMA CallStep ==
    ASSUME TypeOK, NEW c \in Calls, Call(c), ~Arrive(c)
    PROVE  /\ pc[c] # "idle"
           /\ \/ signer'[c] = signer[c] /\ kind'[c] = kind[c] /\ ws'[c] = ws[c]
              \/ pc'[c] = "idle"
  <1>1. CASE CheckBlacklist(c) \/ CheckQuota(c)
    BY <1>1 DEF TypeOK, CheckBlacklist, CheckQuota, Continue, Return, Goto
  <1>2. CASE Transmit(c) \/ TransmitFails(c) \/ Answer(c) \/ AnswerLost(c)
    BY <1>2 DEF TypeOK, Transmit, TransmitFails, Answer, AnswerLost, Continue, Goto
  <1>3. CASE RecordOk(c) \/ RecordFailed(c)
    BY <1>3 DEF TypeOK, RecordOk, Record, RecordFailed, Continue, Return, Goto
  <1>4. CASE Increment(c) \/ IncrementFails(c) \/ Die(c)
    BY <1>4 DEF TypeOK, Increment, IncrementFails, Die, Return, Goto
  <1> QED
    BY <1>1, <1>2, <1>3, <1>4 DEF Call

(* Under keyless writes only what decodes gets past resolveBroadcast.      *)
LEMMA DecodedStep == TypeOK /\ DecodedInv /\ [Next]_relayVars => DecodedInv'
  <1> SUFFICES ASSUME TypeOK, DecodedInv, [Next]_relayVars PROVE DecodedInv'
    OBVIOUS
  <1>1. ASSUME NEW c \in Calls, Call(c) PROVE DecodedInv'
    <2>1. CASE Arrive(c)
      <3>1. Keyless => ArriveKeyless(c)
        BY <2>1 DEF Arrive, ArriveAny, ArriveScoped, Keyless
      <3>2. Keyless => kind'[c] # "garbled"
        BY <3>1 DEF ArriveKeyless, Begin, DecodeAndScope, TypeOK
      <3> QED
        BY <3>2, <1>1, Frame DEF DecodedInv, Decoded, Keyless
    <2>2. CASE ~Arrive(c)
      BY <2>2, <1>1, Frame, CallStep DEF DecodedInv, Decoded, Keyless
    <2> QED
      BY <2>1, <2>2
  <1>2. ASSUME mode' = mode, pc' = pc, kind' = kind PROVE DecodedInv'
    BY <1>2 DEF DecodedInv, Decoded, Keyless
  <1>3. ASSUME NEW s \in Signers, Ban(s) \/ Unban(s) \/ PurgeBan(s) PROVE DecodedInv'
    BY <1>2, <1>3 DEF Ban, Unban, Add, Remove, PurgeBan, nodeVars, callVars
  <1>4. CASE PurgeQuota \/ Tick \/ UNCHANGED relayVars
    BY <1>2, <1>4 DEF PurgeQuota, Tick, relayVars, nodeVars, callVars
  <1> QED
    BY <1>1, <1>3, <1>4 DEF Next

---------------------------------------------------------------------------
(* The quota.                                                              *)

Hit(c, s, w) == Decoded(c) /\ signer[c] = s /\ ws[c] = w

(* How a step of call c changes the two populations of calls.              *)
LEMMA Populations ==
    ASSUME TypeOK, NEW c \in Calls, Call(c), NEW s \in Signers, NEW w \in Windows
    PROVE  /\ Cardinality(Admitted(s, w)) \in Nat /\ Cardinality(Admitted(s, w))' \in Nat
           /\ Cardinality(Uncounted(s, w)) \in Nat /\ Cardinality(Uncounted(s, w))' \in Nat
           /\ Cardinality(Admitted(s, w))' <= Cardinality(Calls)
           /\ Cardinality(Calls) \in Nat
           /\ Cardinality(Admitted(s, w))' + (IF c \in Admitted(s, w) THEN 1 ELSE 0)
                = Cardinality(Admitted(s, w)) + (IF c \in Admitted(s, w)' THEN 1 ELSE 0)
           /\ Cardinality(Uncounted(s, w))' + (IF c \in Uncounted(s, w) THEN 1 ELSE 0)
                = Cardinality(Uncounted(s, w)) + (IF c \in Uncounted(s, w)' THEN 1 ELSE 0)
  <1>1. Admitted(s, w) \subseteq Calls /\ Admitted(s, w)' \subseteq Calls
    BY DEF Admitted
  <1>2. Uncounted(s, w) \subseteq Calls /\ Uncounted(s, w)' \subseteq Calls
    BY DEF Uncounted
  <1>3. Admitted(s, w) \ {c} = Admitted(s, w)' \ {c}
    BY Frame DEF Admitted, Decoded
  <1>4. Uncounted(s, w) \ {c} = Uncounted(s, w)' \ {c}
    BY Frame DEF Uncounted, Decoded
  <1> QED
    BY <1>1, <1>2, <1>3, <1>4, CardStep

(* Admission and landing are preserved by the steps of a call.             *)
LEMMA QuotaCallStep ==
    ASSUME TypeOK, DecodedInv, QuotaInv, NEW c \in Calls, Call(c)
    PROVE  QuotaInv'
  <1> SUFFICES ASSUME NEW s \in Signers, NEW w \in Windows
               PROVE  /\ Keyless' /\ Live(w)' =>
                            (quota[s][w] + Cardinality(Admitted(s, w)))'
                               <= Rate + Cardinality(Calls) - 1 + unchecked'[s][w]
                      /\ (quota[s][w] + Cardinality(Uncounted(s, w)) + lost[s][w])' <= sent'[s][w]
                      /\ Keyless' /\ Live(w)' =>
                            sent'[s][w] <= (quota[s][w] + Cardinality(Uncounted(s, w)) + lost[s][w])'
                                              + forgotten'[s][w]
    BY DEF QuotaInv, AdmissionInv, LandingInv
  <1> DEFINE q == quota[s][w]
             n == sent[s][w]
             l == lost[s][w]
             u == unchecked[s][w]
             g == forgotten[s][w]
  <1>0. PICK A, U, N, h, A1, U1, h1 :
             /\ A = Cardinality(Admitted(s, w)) /\ A1 = Cardinality(Admitted(s, w))'
             /\ U = Cardinality(Uncounted(s, w)) /\ U1 = Cardinality(Uncounted(s, w))'
             /\ N = Cardinality(Calls)
             /\ h = (IF Hit(c, s, w) THEN 1 ELSE 0) /\ h1 = (IF Hit(c, s, w)' THEN 1 ELSE 0)
    OBVIOUS
  <1>1. /\ A \in Nat /\ A1 \in Nat /\ U \in Nat /\ U1 \in Nat /\ A1 <= N /\ N \in Nat
        /\ h \in {0, 1} /\ h1 \in {0, 1}
        /\ A1 + (IF pc[c] \in {"send", "landed", "ok", "charge"} THEN h ELSE 0)
             = A + (IF pc'[c] \in {"send", "landed", "ok", "charge"} THEN h1 ELSE 0)
        /\ U1 + (IF pc[c] \in {"landed", "ok", "charge"} THEN h ELSE 0)
             = U + (IF pc'[c] \in {"landed", "ok", "charge"} THEN h1 ELSE 0)
    <2>1. /\ c \in Admitted(s, w) <=> pc[c] \in {"send", "landed", "ok", "charge"} /\ Hit(c, s, w)
          /\ c \in Admitted(s, w)' <=> pc'[c] \in {"send", "landed", "ok", "charge"} /\ Hit(c, s, w)'
          /\ c \in Uncounted(s, w) <=> pc[c] \in {"landed", "ok", "charge"} /\ Hit(c, s, w)
          /\ c \in Uncounted(s, w)' <=> pc'[c] \in {"landed", "ok", "charge"} /\ Hit(c, s, w)'
      BY DEF Admitted, Uncounted, Hit, Decoded
    <2> QED
      BY <1>0, <2>1, Populations
  <1>2. /\ q \in Nat /\ n \in Nat /\ l \in Nat /\ u \in Nat /\ g \in Nat /\ Rate \in Nat
        /\ Keyless /\ Live(w) => q + A <= Rate + N - 1 + u
        /\ q + U + l <= n
        /\ Keyless /\ Live(w) => n <= q + U + l + g
    BY <1>0, RelayAssumption DEF TypeOK, Tally, QuotaInv, AdmissionInv, LandingInv
  <1>3. (Keyless' <=> Keyless) /\ (Live(w)' <=> Live(w))
    BY Frame DEF Keyless, Live
  <1>5. ASSUME ~Arrive(c)
        PROVE  /\ h1 = h \/ pc'[c] = "idle"
               /\ Keyless => Decoded(c)
               /\ \A tally \in Tally : Bump(tally, c)[s][w] = tally[s][w] + h
    <2>1. pc[c] # "idle" /\ (h1 = h \/ pc'[c] = "idle")
      BY <1>0, <1>5, CallStep DEF Hit, Decoded
    <2>2. Keyless => Decoded(c)
      BY <2>1 DEF DecodedInv, Decoded, Keyless
    <2>3. signer[c] \in Signers /\ ws[c] \in Windows
      BY <2>1 DEF TypeOK
    <2> QED
      BY <1>0, <2>1, <2>2, <2>3, BumpLemma DEF Hit
  <1> SUFFICES /\ Keyless /\ Live(w) => quota'[s][w] + A1 <= Rate + N - 1 + unchecked'[s][w]
               /\ quota'[s][w] + U1 + lost'[s][w] <= sent'[s][w]
               /\ Keyless /\ Live(w) => sent'[s][w] <= quota'[s][w] + U1 + lost'[s][w] + g
    <2>1. forgotten' = forgotten
      BY DEF Call, Arrive, ArriveKeyless, ArriveAny, ArriveScoped, Begin, CheckBlacklist,
         CheckQuota, Transmit, TransmitFails, Answer, AnswerLost, RecordOk, RecordFailed,
         Increment, IncrementFails, Die, gateVars
    <2> QED
      BY <1>0, <1>3, <2>1
  <1>6. CASE Arrive(c)
    <2>1. /\ pc[c] = "idle" /\ pc'[c] = IF Keyless THEN "ban" ELSE "send"
          /\ UNCHANGED <<quota, sent, lost, unchecked>>
      BY <1>6 DEF Arrive, ArriveKeyless, ArriveAny, ArriveScoped, Begin, Goto, Keyless,
         gateVars, nodeVars, TypeOK
    <2> QED
      BY <2>1, <1>1, <1>2
  <1>7. CASE CheckBlacklist(c)
    <2>1. /\ pc[c] = "ban" /\ pc'[c] \in {"count", "idle"}
          /\ UNCHANGED <<quota, sent, lost, unchecked>>
      BY <1>7 DEF CheckBlacklist, Continue, Return, Goto, gateVars, nodeVars, TypeOK
    <2>2. A1 = A /\ U1 = U
      BY <2>1, <1>1, <1>2
    <2> QED
      BY <2>1, <2>2, <1>1, <1>2
  <1>8. CASE CheckQuota(c)
    <2>0. ~Arrive(c)
      BY <1>8 DEF CheckQuota, Arrive, ArriveKeyless, ArriveAny, ArriveScoped, Begin
    <2>1. /\ pc[c] = "count" /\ UNCHANGED <<quota, sent, lost>>
          /\ \/ pc'[c] = "idle" /\ unchecked' = unchecked
             \/ pc'[c] = "idle" /\ unchecked' = Bump(unchecked, c)
             \/ pc'[c] = "send" /\ unchecked' = Bump(unchecked, c)
             \/ /\ pc'[c] = "send" /\ unchecked' = unchecked
                /\ quota[signer[c]][ws[c]] < Rate
      BY <1>8 DEF CheckQuota, QuotaAdmits, Continue, Return, Goto, nodeVars, TypeOK
    <2>2. unchecked \in Tally
      BY DEF TypeOK
    <2>3. h = 1 /\ quota[signer[c]][ws[c]] < Rate => q < Rate
      BY <1>0 DEF Hit
    <2> QED
      BY <2>0, <2>1, <2>2, <2>3, <1>1, <1>2, <1>5
  <1>9. CASE Transmit(c)
    <2>0. ~Arrive(c)
      BY <1>9 DEF Transmit, Arrive, ArriveKeyless, ArriveAny, ArriveScoped, Begin
    <2>1. /\ pc[c] = "send" /\ pc'[c] = "landed" /\ UNCHANGED <<quota, lost, unchecked>>
          /\ sent' = Bump(sent, c) /\ sent \in Tally
      BY <1>9 DEF Transmit, Continue, Goto, gateVars, TypeOK
    <2>2. h1 = h /\ sent'[s][w] = n + h
      BY <2>0, <2>1, <1>5
    <2>3. A1 = A /\ U1 = U + h
      BY <2>1, <2>2, <1>1
    <2> QED
      BY <2>1, <2>2, <2>3, <1>1, <1>2
  <1>10. CASE TransmitFails(c) \/ Answer(c)
    <2>0. ~Arrive(c)
      BY <1>10 DEF TransmitFails, Answer, Arrive, ArriveKeyless, ArriveAny, ArriveScoped, Begin
    <2>1. /\ UNCHANGED <<quota, lost, sent, unchecked>>
          /\ \/ pc[c] = "send" /\ pc'[c] = "failed"
             \/ pc[c] = "landed" /\ pc'[c] = "ok"
      BY <1>10 DEF TransmitFails, Answer, Continue, Goto, gateVars, nodeVars, TypeOK
    <2>2. A1 <= A /\ U1 = U
      BY <2>0, <2>1, <1>1, <1>2, <1>5
    <2> QED
      BY <2>1, <2>2, <1>1, <1>2
  <1>11. CASE AnswerLost(c)
    <2>0. ~Arrive(c)
      BY <1>11 DEF AnswerLost, Arrive, ArriveKeyless, ArriveAny, ArriveScoped, Begin
    <2>1. /\ pc[c] = "landed" /\ pc'[c] = "failed" /\ UNCHANGED <<quota, sent, unchecked>>
          /\ lost' = Bump(lost, c) /\ lost \in Tally
      BY <1>11 DEF AnswerLost, Continue, Goto, gateVars, nodeVars, TypeOK
    <2>2. A1 <= A /\ U1 + h = U /\ lost'[s][w] = l + h
      BY <2>0, <2>1, <1>1, <1>2, <1>5
    <2> QED
      BY <2>1, <2>2, <1>1, <1>2
  <1>12. CASE RecordOk(c)
    <2>0. ~Arrive(c)
      BY <1>12 DEF RecordOk, Arrive, ArriveKeyless, ArriveAny, ArriveScoped, Begin
    <2>1. /\ pc[c] = "ok" /\ pc'[c] = (IF Keyless THEN "charge" ELSE "idle")
          /\ UNCHANGED <<quota, sent, lost, unchecked>>
      BY <1>12 DEF RecordOk, Continue, Return, Goto, gateVars, nodeVars, TypeOK
    <2>2. A1 <= A /\ U1 <= U /\ (Keyless => U1 = U)
      BY <2>0, <2>1, <1>1, <1>2, <1>5
    <2> QED
      BY <2>1, <2>2, <1>1, <1>2
  <1>13. CASE RecordFailed(c)
    <2>1. /\ pc[c] = "failed" /\ pc'[c] = "idle"
          /\ UNCHANGED <<quota, sent, lost, unchecked>>
      BY <1>13 DEF RecordFailed, Return, Goto, gateVars, nodeVars, TypeOK
    <2>2. A1 = A /\ U1 = U
      BY <2>1, <1>1, <1>2
    <2> QED
      BY <2>1, <2>2, <1>1, <1>2
  <1>14. CASE Increment(c)
    <2>0. ~Arrive(c)
      BY <1>14 DEF Increment, Arrive, ArriveKeyless, ArriveAny, ArriveScoped, Begin
    <2>1. /\ pc[c] = "charge" /\ pc'[c] = "idle" /\ UNCHANGED <<sent, lost, unchecked>>
          /\ quota' = Bump(quota, c) /\ quota \in Tally
      BY <1>14 DEF Increment, Return, Goto, nodeVars, TypeOK
    <2>2. /\ A1 + h = A /\ U1 + h = U
          /\ quota'[s][w] = q + h
      BY <2>0, <2>1, <1>1, <1>2, <1>5
    <2> QED
      BY <2>1, <2>2, <1>1, <1>2
  <1>15. CASE IncrementFails(c)
    <2>0. ~Arrive(c)
      BY <1>15 DEF IncrementFails, Arrive, ArriveKeyless, ArriveAny, ArriveScoped, Begin
    <2>1. /\ pc[c] = "charge" /\ pc'[c] = "idle" /\ UNCHANGED <<quota, sent, unchecked>>
          /\ lost' = Bump(lost, c) /\ lost \in Tally
      BY <1>15 DEF IncrementFails, Return, Goto, gateVars, nodeVars, TypeOK
    <2>2. A1 <= A /\ U1 + h = U /\ lost'[s][w] = l + h
      BY <2>0, <2>1, <1>1, <1>2, <1>5
    <2> QED
      BY <2>1, <2>2, <1>1, <1>2
  <1>16. CASE Die(c)
    <2>0. ~Arrive(c)
      BY <1>16 DEF Die, Arrive, ArriveKeyless, ArriveAny, ArriveScoped, Begin
    <2>1. /\ pc[c] # "idle" /\ pc'[c] = "idle" /\ UNCHANGED <<quota, sent, unchecked>>
          /\ lost' = (IF pc[c] \in {"landed", "ok", "charge"} THEN Bump(lost, c) ELSE lost)
          /\ lost \in Tally
      BY <1>16 DEF Die, Return, Goto, gateVars, nodeVars, TypeOK
    <2>2. A1 <= A /\ U1 + (lost'[s][w] - l) = U /\ lost'[s][w] \in Nat
      BY <2>0, <2>1, <1>1, <1>2, <1>5
    <2> QED
      BY <2>1, <2>2, <1>1, <1>2
  <1> QED
    BY <1>6, <1>7, <1>8, <1>9, <1>10, <1>11, <1>12, <1>13, <1>14, <1>15, <1>16 DEF Call

(* Every step keeps the accounting; what the purge takes from a running    *)
(* window moves to the counts that are forgotten.                          *)
LEMMA QuotaStep == TypeOK /\ DecodedInv /\ QuotaInv /\ [Next]_relayVars => QuotaInv'
  <1> SUFFICES ASSUME TypeOK, DecodedInv, QuotaInv, [Next]_relayVars PROVE QuotaInv'
    OBVIOUS
  <1>1. ASSUME NEW c \in Calls, Call(c) PROVE QuotaInv'
    BY <1>1, QuotaCallStep
  <1>2. ASSUME UNCHANGED <<mode, quota, sent, lost, unchecked, forgotten, pc, signer, kind, ws>>,
               \A w \in Windows : Live(w)' => Live(w)
        PROVE  QuotaInv'
    <2>1. \A s \in Signers, w \in Windows :
             Admitted(s, w)' = Admitted(s, w) /\ Uncounted(s, w)' = Uncounted(s, w)
      BY <1>2 DEF Admitted, Uncounted, Decoded
    <2>2. Keyless' <=> Keyless
      BY <1>2 DEF Keyless
    <2> QED
      BY <1>2, <2>1, <2>2 DEF QuotaInv, AdmissionInv, LandingInv
  <1>3. ASSUME NEW s \in Signers, Ban(s) \/ Unban(s) \/ PurgeBan(s) PROVE QuotaInv'
    BY <1>2, <1>3 DEF Ban, Unban, Add, Remove, PurgeBan, nodeVars, callVars, Live
  <1>4. CASE Tick
    <2>1. \A w \in Windows : Live(w)' => Live(w)
      BY <1>4, WindowLemma, RelayAssumption DEF Tick, Live, TypeOK
    <2> QED
      BY <1>2, <1>4, <2>1 DEF Tick, gateVars, nodeVars, callVars
  <1>5. CASE UNCHANGED relayVars
    BY <1>2, <1>5 DEF relayVars, gateVars, nodeVars, callVars, Live
  <1>6. CASE PurgeQuota
    <2>1. PICK s0 \in Signers, w0 \in Windows :
             /\ quota' = [quota EXCEPT ![s0][w0] = 0]
             /\ forgotten' = IF Live(w0) THEN [forgotten EXCEPT ![s0][w0] = @ + quota[s0][w0]]
                             ELSE forgotten
      BY <1>6 DEF PurgeQuota
    <2>2. UNCHANGED <<mode, now, sent, lost, unchecked, pc, signer, kind, ws>>
      BY <1>6 DEF PurgeQuota, nodeVars, callVars
    <2>4. \A s \in Signers, w \in Windows :
             /\ quota[s][w] \in Nat /\ quota'[s][w] \in Nat
             /\ forgotten[s][w] \in Nat /\ forgotten'[s][w] \in Nat
             /\ quota'[s][w] <= quota[s][w]
             /\ Live(w) => quota'[s][w] + forgotten'[s][w] = quota[s][w] + forgotten[s][w]
      BY <2>1 DEF TypeOK, Tally
    <2>5. \A s \in Signers, w \in Windows :
             /\ Admitted(s, w)' = Admitted(s, w) /\ Uncounted(s, w)' = Uncounted(s, w)
             /\ Live(w)' <=> Live(w)
             /\ Keyless' <=> Keyless
      BY <2>2 DEF Admitted, Uncounted, Decoded, Live, Keyless
    <2>6. ASSUME NEW s \in Signers, NEW w \in Windows
          PROVE  /\ Cardinality(Uncounted(s, w)) \in Nat /\ Cardinality(Admitted(s, w)) \in Nat
                 /\ lost[s][w] \in Nat /\ sent[s][w] \in Nat /\ unchecked[s][w] \in Nat
      <3>1. Uncounted(s, w) \subseteq Calls /\ Admitted(s, w) \subseteq Calls
        BY DEF Uncounted, Admitted
      <3>2. Cardinality(Uncounted(s, w)) \in Nat /\ Cardinality(Admitted(s, w)) \in Nat
        BY <3>1, RelayAssumption, FS_Subset, FS_CardinalityType
      <3>3. lost[s][w] \in Nat /\ sent[s][w] \in Nat /\ unchecked[s][w] \in Nat
        BY DEF TypeOK, Tally
      <3> QED
        BY <3>2, <3>3
    <2>7. AdmissionInv'
      <3>1. Rate + Cardinality(Calls) - 1 \in Int
        BY RelayAssumption, FS_CardinalityType
      <3>2. ASSUME NEW s \in Signers, NEW w \in Windows, Keyless, Live(w)
            PROVE  quota'[s][w] + Cardinality(Admitted(s, w))
                      <= Rate + Cardinality(Calls) - 1 + unchecked[s][w]
        BY <2>4, <2>6, <3>1, <3>2 DEF QuotaInv, AdmissionInv
      <3> QED
        BY <2>2, <2>5, <3>2 DEF AdmissionInv
    <2>8. LandingInv'
      BY <2>2, <2>4, <2>5, <2>6 DEF QuotaInv, LandingInv
    <2> QED
      BY <2>7, <2>8 DEF QuotaInv
  <1> QED
    BY <1>1, <1>3, <1>4, <1>5, <1>6 DEF Next

(* No call runs and nothing is counted at the start.                       *)
LEMMA QuotaInit == Init => QuotaInv
  <1> SUFFICES ASSUME Init PROVE QuotaInv
    OBVIOUS
  <1>1. \A s \in Signers, w \in Windows : Admitted(s, w) = {} /\ Uncounted(s, w) = {}
    BY DEF Init, Admitted, Uncounted
  <1>2. Cardinality({}) = 0
    BY FS_EmptySet
  <1>3. Cardinality(Calls) \in Nat /\ Cardinality(Calls) # 0
    BY RelayAssumption, FS_CardinalityType, FS_EmptySet
  <1>4. \A s \in Signers, w \in Windows :
           /\ quota[s][w] = 0 /\ unchecked[s][w] = 0 /\ sent[s][w] = 0 /\ lost[s][w] = 0
           /\ forgotten[s][w] = 0
    BY DEF Init, ZeroTally
  <1>5. AdmissionInv
    <2>1. Rate \in Nat /\ 0 <= Rate + Cardinality(Calls) - 1
      BY <1>3, RelayAssumption
    <2>2. \A s \in Signers, w \in Windows :
             quota[s][w] + Cardinality(Admitted(s, w))
                <= Rate + Cardinality(Calls) - 1 + unchecked[s][w]
      <3> SUFFICES ASSUME NEW s \in Signers, NEW w \in Windows
                   PROVE  0 + 0 <= Rate + Cardinality(Calls) - 1 + 0
        BY <1>1, <1>2, <1>4
      <3> QED
        BY <1>3, <2>1
    <2> QED
      BY <2>2 DEF AdmissionInv
  <1>6. LandingInv
    BY <1>1, <1>2, <1>4 DEF LandingInv
  <1> QED
    BY <1>5, <1>6 DEF QuotaInv

(* The invariant gives both bounds on the counter.                         *)
LEMMA QuotaConsequence == TypeOK /\ QuotaInv => QuotaBound /\ CountedOnce
  <1> SUFFICES ASSUME TypeOK, QuotaInv, NEW s \in Signers, NEW w \in Windows
               PROVE  /\ Keyless /\ Live(w) => sent[s][w] <= Rate + Slack(s, w)
                      /\ quota[s][w] <= sent[s][w] - lost[s][w]
    BY DEF QuotaBound, CountedOnce
  <1>1. Uncounted(s, w) \subseteq Admitted(s, w) /\ Admitted(s, w) \subseteq Calls
    BY DEF Uncounted, Admitted
  <1>2. IsFiniteSet(Admitted(s, w)) /\ Cardinality(Calls) \in Nat
    BY <1>1, RelayAssumption, FS_Subset, FS_CardinalityType
  <1>3. /\ Cardinality(Uncounted(s, w)) <= Cardinality(Admitted(s, w))
        /\ Cardinality(Uncounted(s, w)) \in Nat /\ Cardinality(Admitted(s, w)) \in Nat
    BY <1>1, <1>2, FS_Subset, FS_CardinalityType
  <1>4. /\ quota[s][w] \in Nat /\ sent[s][w] \in Nat /\ lost[s][w] \in Nat
        /\ unchecked[s][w] \in Nat /\ forgotten[s][w] \in Nat /\ Rate \in Nat
    BY RelayAssumption DEF TypeOK, Tally
  <1> QED
    BY <1>2, <1>3, <1>4 DEF QuotaInv, AdmissionInv, LandingInv, Slack

(* The soft ceiling of the quota, exactly: for every rate, window,         *)
(* retention and number of concurrent calls, with the purge running beside *)
(* them and deleting counters of running windows when it may.              *)
THEOREM QuotaIsSoftCeiling == Spec => []QuotaBound
  <1>1. Init => DecodedInv
    BY DEF Init, DecodedInv
  <1> QED
    BY <1>1, QuotaInit, QuotaStep, QuotaConsequence, DecodedStep, TypeCorrect, PTL DEF Spec

(* A failed broadcast never consumes quota and a success is counted at     *)
(* most once, whatever the purge deletes.                                  *)
THEOREM NeverOvercounted == Spec => []CountedOnce
  <1>1. Init => DecodedInv
    BY DEF Init, DecodedInv
  <1> QED
    BY <1>1, QuotaInit, QuotaStep, QuotaConsequence, DecodedStep, TypeCorrect, PTL DEF Spec

---------------------------------------------------------------------------
(* Bans.                                                                   *)

(* Each call past the blacklist check turns into one transaction at most,  *)
(* and a ban stops further calls from getting past it.                     *)
LEMMA BanStep == TypeOK /\ BanInv /\ [Next]_relayVars => BanInv'
  <1> SUFFICES ASSUME TypeOK, BanInv, [Next]_relayVars PROVE BanInv'
    OBVIOUS
  <1>0. \A s \in Signers : /\ PastBan(s) \subseteq Calls
                           /\ Cardinality(PastBan(s)) \in Nat
                           /\ Cardinality(PastBan(s)) <= Cardinality(Calls)
                           /\ Cardinality(Calls) \in Nat
    <2>1. \A s \in Signers : PastBan(s) \subseteq Calls
      BY DEF PastBan
    <2> QED
      BY <2>1, RelayAssumption, FS_Subset, FS_CardinalityType
  <1>1. ASSUME NEW c \in Calls, Call(c) PROVE BanInv'
    <2>1. mode' = mode /\ bans' = bans
      BY <1>1, Frame
    <2>2. ASSUME NEW s \in Signers, Banned(s), ~BlacklistFailOpen
          PROVE  (afterBan[s] + Cardinality(PastBan(s)))' <= Cardinality(Calls)
      <3>1. PastBan(s) \ {c} = PastBan(s)' \ {c}
        BY <1>1, Frame DEF PastBan
      <3>2. PastBan(s)' \subseteq Calls
        BY DEF PastBan
      <3>3. PICK P, P1, N :
               P = Cardinality(PastBan(s)) /\ P1 = Cardinality(PastBan(s))' /\ N = Cardinality(Calls)
        OBVIOUS
      <3>4. /\ P \in Nat /\ P1 \in Nat /\ N \in Nat
            /\ P1 + (IF c \in PastBan(s) THEN 1 ELSE 0) = P + (IF c \in PastBan(s)' THEN 1 ELSE 0)
        BY <1>0, <3>1, <3>2, <3>3, CardStep
      <3>5. afterBan[s] \in Nat /\ afterBan[s] + P <= N
        BY <2>2, <3>3 DEF BanInv, TypeOK
      <3>6. CASE Transmit(c)
        <4>1. pc[c] = "send" /\ pc'[c] = "landed"
          BY <3>6 DEF Transmit, Continue, Goto, TypeOK
        <4>2. c \in PastBan(s) <=> signer[c] = s
          BY <4>1 DEF PastBan
        <4>3. c \notin PastBan(s)'
          BY <4>1 DEF PastBan
        <4>4. afterBan'[s] = afterBan[s] + (IF signer[c] = s THEN 1 ELSE 0)
          BY <3>6, <2>2 DEF Transmit, TypeOK
        <4> QED
          BY <3>3, <3>4, <3>5, <4>2, <4>3, <4>4
      <3>7. CASE ~Transmit(c)
        <4>1. afterBan' = afterBan
          BY <1>1, <3>7 DEF Call, Arrive, ArriveKeyless, ArriveAny, ArriveScoped, Begin, CheckBlacklist, CheckQuota, TransmitFails, Answer,
             AnswerLost, RecordOk, RecordFailed, Increment, IncrementFails, Die, nodeVars
        <4>2. Keyless
          BY <2>2 DEF BanInv
        <4>3. c \in PastBan(s)' => c \in PastBan(s)
          <5>1. CASE Arrive(c)
            BY <5>1, <4>2 DEF Arrive, ArriveKeyless, ArriveAny, ArriveScoped, Begin, Goto, Keyless,
               PastBan, TypeOK
          <5>2. CASE CheckBlacklist(c)
            BY <5>2, <2>2 DEF CheckBlacklist, BlacklistAdmits, Continue, Return, Goto,
               PastBan, TypeOK
          <5>3. CASE CheckQuota(c)
            BY <5>3 DEF CheckQuota, Continue, Return, Goto, PastBan, TypeOK
          <5>4. CASE TransmitFails(c) \/ Answer(c) \/ AnswerLost(c)
            BY <5>4 DEF TransmitFails, Answer, AnswerLost, Continue, Goto, PastBan, TypeOK
          <5>5. CASE RecordOk(c) \/ RecordFailed(c)
            BY <5>5 DEF RecordOk, RecordFailed, Continue, Return, Goto, PastBan, TypeOK
          <5>6. CASE Increment(c) \/ IncrementFails(c) \/ Die(c)
            BY <5>6 DEF Increment, IncrementFails, Die, Return, Goto, PastBan, TypeOK
          <5> QED
            BY <1>1, <3>7, <5>1, <5>2, <5>3, <5>4, <5>5, <5>6 DEF Call
        <4> QED
          BY <3>3, <3>4, <3>5, <4>1, <4>3
      <3> QED
        BY <3>6, <3>7
    <2> QED
      BY <2>1, <2>2 DEF BanInv, Banned, Keyless
  <1>2. ASSUME UNCHANGED <<mode, bans, afterBan, pc, signer>> PROVE BanInv'
    BY <1>2 DEF BanInv, Banned, Keyless, PastBan
  <1>3. ASSUME NEW s \in Signers, Ban(s) PROVE BanInv'
    <2>1. UNCHANGED <<mode, pc, signer>> /\ Keyless
      BY <1>3 DEF Ban, callVars
    <2>2. \A t \in Signers : PastBan(t)' = PastBan(t)
      BY <2>1 DEF PastBan
    <2>3. \A t \in Signers : t # s => (Banned(t)' <=> Banned(t)) /\ afterBan'[t] = afterBan[t]
      BY <1>3 DEF Ban, Add, Banned, TypeOK
    <2>4. IF Banned(s) THEN afterBan'[s] = afterBan[s] ELSE afterBan'[s] = 0
      BY <1>3 DEF Ban, TypeOK
    <2>5. Keyless'
      BY <2>1 DEF Keyless
    <2> QED
      BY <1>0, <2>2, <2>3, <2>4, <2>5 DEF BanInv
  <1>4. ASSUME NEW s \in Signers, Unban(s) \/ PurgeBan(s) PROVE BanInv'
    <2>1. /\ bans' = [bans EXCEPT ![s] = NotBanned]
          /\ UNCHANGED <<mode, afterBan, pc, signer>>
      BY <1>4 DEF Unban, Remove, PurgeBan, nodeVars, callVars
    <2>2. \A t \in Signers : Banned(t)' => Banned(t)
      BY <2>1 DEF Banned, TypeOK
    <2> QED
      BY <2>1, <2>2 DEF BanInv, Keyless, PastBan
  <1>5. CASE PurgeQuota \/ Tick \/ UNCHANGED relayVars
    BY <1>2, <1>5 DEF PurgeQuota, Tick, relayVars, gateVars, nodeVars, callVars
  <1> QED
    BY <1>1, <1>3, <1>4, <1>5 DEF Next

(* While a ban lasts, the signer gets at most one transaction per          *)
(* concurrent call onto the chain, whatever interleaves with the ban       *)
(* (IsBlacklisted is read once per call, before the quota check).          *)
THEOREM BansTakeEffect == Spec => []BanBound
  <1>1. Init => BanInv
    BY DEF Init, BanInv, Banned
  <1>2. TypeOK /\ BanInv => BanBound
    <2> SUFFICES ASSUME TypeOK, BanInv, ~BlacklistFailOpen, NEW s \in Signers, Banned(s)
                 PROVE  afterBan[s] <= Cardinality(Calls)
      BY DEF BanBound
    <2>1. PastBan(s) \subseteq Calls
      BY DEF PastBan
    <2>2. Cardinality(PastBan(s)) \in Nat /\ Cardinality(Calls) \in Nat /\ afterBan[s] \in Nat
      BY <2>1, RelayAssumption, FS_Subset, FS_CardinalityType DEF TypeOK
    <2> QED
      BY <2>2 DEF BanInv
  <1> QED
    BY <1>1, <1>2, BanStep, TypeCorrect, PTL DEF Spec

---------------------------------------------------------------------------
(* The audit trail.                                                        *)

(* Calls whose audit row is still to be written, and calls whose row is    *)
(* written and whose count is not.                                         *)
Unaudited(s, w) ==
    {c \in Calls : pc[c] \in {"landed", "ok", "failed"} /\ Hit(c, s, w)}
Charging(s, w) == {c \in Calls : pc[c] = "charge" /\ Hit(c, s, w)}

(* AuditTrail holds only between calls; while they run, what is missing is *)
(* owed by one of them.                                                    *)
AuditInv ==
    \A s \in Signers, w \in Windows :
        /\ sent[s][w] <= okRows[s][w] + failRows[s][w] + unlogged[s][w]
                            + Cardinality(Unaudited(s, w))
        /\ quota[s][w] + Cardinality(Charging(s, w)) <= okRows[s][w] + unlogged[s][w]

(* How a step of call c changes the two populations.                       *)
LEMMA AuditPopulations ==
    ASSUME TypeOK, NEW c \in Calls, Call(c), NEW s \in Signers, NEW w \in Windows
    PROVE  /\ Cardinality(Unaudited(s, w)) \in Nat /\ Cardinality(Unaudited(s, w))' \in Nat
           /\ Cardinality(Charging(s, w)) \in Nat /\ Cardinality(Charging(s, w))' \in Nat
           /\ Cardinality(Unaudited(s, w))' + (IF c \in Unaudited(s, w) THEN 1 ELSE 0)
                = Cardinality(Unaudited(s, w)) + (IF c \in Unaudited(s, w)' THEN 1 ELSE 0)
           /\ Cardinality(Charging(s, w))' + (IF c \in Charging(s, w) THEN 1 ELSE 0)
                = Cardinality(Charging(s, w)) + (IF c \in Charging(s, w)' THEN 1 ELSE 0)
  <1>1. Unaudited(s, w) \subseteq Calls /\ Unaudited(s, w)' \subseteq Calls
    BY DEF Unaudited
  <1>2. Charging(s, w) \subseteq Calls /\ Charging(s, w)' \subseteq Calls
    BY DEF Charging
  <1>3. Unaudited(s, w) \ {c} = Unaudited(s, w)' \ {c}
    BY Frame DEF Unaudited, Hit, Decoded
  <1>4. Charging(s, w) \ {c} = Charging(s, w)' \ {c}
    BY Frame DEF Charging, Hit, Decoded
  <1> QED
    BY <1>1, <1>2, <1>3, <1>4, CardStep

(* What is owed to the audit trail is preserved by the steps of a call.    *)
LEMMA AuditCallStep ==
    ASSUME TypeOK, AuditInv, NEW c \in Calls, Call(c)
    PROVE  AuditInv'
  <1> SUFFICES ASSUME NEW s \in Signers, NEW w \in Windows
               PROVE  /\ sent'[s][w] <= okRows'[s][w] + failRows'[s][w] + unlogged'[s][w]
                                            + Cardinality(Unaudited(s, w))'
                      /\ quota'[s][w] + Cardinality(Charging(s, w))' <= okRows'[s][w] + unlogged'[s][w]
    BY DEF AuditInv
  <1>0. PICK A, K, h, A1, K1, h1 :
             /\ A = Cardinality(Unaudited(s, w)) /\ A1 = Cardinality(Unaudited(s, w))'
             /\ K = Cardinality(Charging(s, w)) /\ K1 = Cardinality(Charging(s, w))'
             /\ h = (IF Hit(c, s, w) THEN 1 ELSE 0) /\ h1 = (IF Hit(c, s, w)' THEN 1 ELSE 0)
    OBVIOUS
  <1>1. /\ A \in Nat /\ A1 \in Nat /\ K \in Nat /\ K1 \in Nat
        /\ h \in {0, 1} /\ h1 \in {0, 1}
        /\ A1 + (IF pc[c] \in {"landed", "ok", "failed"} THEN h ELSE 0)
             = A + (IF pc'[c] \in {"landed", "ok", "failed"} THEN h1 ELSE 0)
        /\ K1 + (IF pc[c] = "charge" THEN h ELSE 0) = K + (IF pc'[c] = "charge" THEN h1 ELSE 0)
    <2>1. /\ c \in Unaudited(s, w) <=> pc[c] \in {"landed", "ok", "failed"} /\ Hit(c, s, w)
          /\ c \in Unaudited(s, w)' <=> pc'[c] \in {"landed", "ok", "failed"} /\ Hit(c, s, w)'
          /\ c \in Charging(s, w) <=> pc[c] = "charge" /\ Hit(c, s, w)
          /\ c \in Charging(s, w)' <=> pc'[c] = "charge" /\ Hit(c, s, w)'
      BY DEF Unaudited, Charging
    <2> QED
      BY <1>0, <2>1, AuditPopulations
  <1> DEFINE q == quota[s][w]
             n == sent[s][w]
             o == okRows[s][w]
             f == failRows[s][w]
             u == unlogged[s][w]
  <1>2. /\ q \in Nat /\ n \in Nat /\ o \in Nat /\ f \in Nat /\ u \in Nat
        /\ n <= o + f + u + A /\ q + K <= o + u
    BY <1>0 DEF TypeOK, Tally, AuditInv
  <1>3. ASSUME ~Arrive(c)
        PROVE  /\ h1 = h \/ pc'[c] = "idle"
               /\ \A tally \in Tally : Bump(tally, c)[s][w] = tally[s][w] + h
    <2>1. pc[c] # "idle" /\ (h1 = h \/ pc'[c] = "idle")
      BY <1>0, <1>3, CallStep DEF Hit, Decoded
    <2>2. signer[c] \in Signers /\ ws[c] \in Windows
      BY <2>1 DEF TypeOK
    <2> QED
      BY <1>0, <2>1, <2>2, BumpLemma DEF Hit
  <1>t. /\ quota \in Tally /\ sent \in Tally /\ okRows \in Tally
        /\ failRows \in Tally /\ unlogged \in Tally /\ pc \in [Calls -> Steps]
    BY DEF TypeOK
  <1> SUFFICES /\ sent'[s][w] <= okRows'[s][w] + failRows'[s][w] + unlogged'[s][w] + A1
               /\ quota'[s][w] + K1 <= okRows'[s][w] + unlogged'[s][w]
    BY <1>0
  <1>4. CASE Arrive(c)
    <2>1. pc[c] = "idle" /\ pc'[c] \in {"ban", "send"}
      BY <1>4, <1>t DEF Arrive, ArriveKeyless, ArriveAny, ArriveScoped, Begin, Goto
    <2>2. UNCHANGED <<quota, sent, okRows, failRows, unlogged>>
      BY <1>4 DEF Arrive, ArriveKeyless, ArriveAny, ArriveScoped, Begin, gateVars, auditVars, nodeVars
    <2> QED
      BY <2>1, <2>2, <1>1, <1>2
  <1>5. CASE CheckBlacklist(c) \/ CheckQuota(c)
    <2>1. pc[c] \in {"ban", "count"} /\ pc'[c] \in {"idle", "count", "send"}
      BY <1>5, <1>t DEF CheckBlacklist, CheckQuota, Continue, Return, Goto
    <2>2. UNCHANGED <<quota, sent, okRows, failRows, unlogged>>
      BY <1>5 DEF CheckBlacklist, CheckQuota, gateVars, auditVars, nodeVars
    <2> QED
      BY <2>1, <2>2, <1>1, <1>2
  <1>6. CASE Transmit(c)
    <2>1. pc[c] = "send" /\ pc'[c] = "landed" /\ ~Arrive(c)
      BY <1>6, <1>t DEF Transmit, Continue, Goto, Arrive, ArriveKeyless, ArriveAny, ArriveScoped, Begin
    <2>2. UNCHANGED <<quota, okRows, failRows, unlogged>> /\ sent' = Bump(sent, c)
      BY <1>6 DEF Transmit, gateVars, auditVars
    <2>3. sent'[s][w] = n + h /\ h1 = h
      BY <2>1, <2>2, <1>3, <1>t
    <2> QED
      BY <2>1, <2>2, <2>3, <1>1, <1>2
  <1>7. CASE TransmitFails(c) \/ Answer(c) \/ AnswerLost(c)
    <2>1. /\ pc[c] \in {"send", "landed"} /\ pc'[c] \in {"failed", "ok"} /\ ~Arrive(c)
      BY <1>7, <1>t DEF TransmitFails, Answer, AnswerLost, Continue, Goto, Arrive, ArriveKeyless, ArriveAny, ArriveScoped, Begin
    <2>2. UNCHANGED <<quota, sent, okRows, failRows, unlogged>>
      BY <1>7 DEF TransmitFails, Answer, AnswerLost, gateVars, auditVars, nodeVars
    <2>3. h1 = h
      BY <2>1, <1>3
    <2> QED
      BY <2>1, <2>2, <2>3, <1>1, <1>2
  <1>8. CASE RecordOk(c)
    <2>1. pc[c] = "ok" /\ pc'[c] \in {"charge", "idle"} /\ ~Arrive(c)
      BY <1>8, <1>t DEF RecordOk, Continue, Return, Goto, Arrive, ArriveKeyless, ArriveAny, ArriveScoped, Begin
    <2>2. /\ UNCHANGED <<quota, sent, failRows>>
          /\ \/ okRows' = Bump(okRows, c) /\ UNCHANGED unlogged
             \/ unlogged' = Bump(unlogged, c) /\ UNCHANGED okRows
      BY <1>8 DEF RecordOk, Record, gateVars, nodeVars
    <2>3. okRows'[s][w] + unlogged'[s][w] = o + u + h
      BY <2>1, <2>2, <1>1, <1>2, <1>3, <1>t
    <2>4. pc'[c] = "charge" => h1 = h
      BY <2>1, <1>3
    <2>5. okRows'[s][w] \in Nat /\ unlogged'[s][w] \in Nat
      BY <2>1, <2>2, <1>1, <1>2, <1>3, <1>t
    <2> QED
      BY <2>1, <2>2, <2>3, <2>4, <2>5, <1>1, <1>2
  <1>9. CASE RecordFailed(c)
    <2>1. pc[c] = "failed" /\ pc'[c] = "idle" /\ ~Arrive(c)
      BY <1>9, <1>t DEF RecordFailed, Return, Goto, Arrive, ArriveKeyless, ArriveAny, ArriveScoped, Begin
    <2>2. /\ UNCHANGED <<quota, sent, okRows>>
          /\ \/ failRows' = Bump(failRows, c) /\ UNCHANGED unlogged
             \/ unlogged' = Bump(unlogged, c) /\ UNCHANGED failRows
      BY <1>9 DEF RecordFailed, Record, gateVars, nodeVars
    <2>3. \/ failRows'[s][w] = f + h /\ unlogged'[s][w] = u
          \/ failRows'[s][w] = f /\ unlogged'[s][w] = u + h
      BY <2>1, <2>2, <1>3, <1>t
    <2> QED
      BY <2>1, <2>2, <2>3, <1>1, <1>2
  <1>10. CASE Increment(c) \/ IncrementFails(c)
    <2>1. pc[c] = "charge" /\ pc'[c] = "idle" /\ ~Arrive(c)
      BY <1>10, <1>t DEF Increment, IncrementFails, Return, Goto, Arrive, ArriveKeyless, ArriveAny, ArriveScoped, Begin
    <2>2. /\ UNCHANGED <<sent, okRows, failRows, unlogged>>
          /\ quota' = quota \/ quota' = Bump(quota, c)
      BY <1>10 DEF Increment, IncrementFails, gateVars, auditVars, nodeVars
    <2>3. quota'[s][w] = q \/ quota'[s][w] = q + h
      BY <2>1, <2>2, <1>3, <1>t
    <2> QED
      BY <2>1, <2>2, <2>3, <1>1, <1>2
  <1>11. CASE Die(c)
    <2>1. pc[c] # "idle" /\ pc'[c] = "idle" /\ ~Arrive(c)
      BY <1>11, <1>t DEF Die, Return, Goto, Arrive, ArriveKeyless, ArriveAny, ArriveScoped, Begin
    <2>2. /\ UNCHANGED <<quota, sent, okRows, failRows>>
          /\ unlogged' = IF pc[c] \in {"landed", "ok", "failed"} THEN Bump(unlogged, c) ELSE unlogged
      BY <1>11 DEF Die, gateVars, nodeVars
    <2>3. unlogged'[s][w] = u + (IF pc[c] \in {"landed", "ok", "failed"} THEN h ELSE 0)
      BY <2>1, <2>2, <1>2, <1>3, <1>t
    <2> QED
      BY <2>1, <2>2, <2>3, <1>1, <1>2
  <1> QED
    BY <1>4, <1>5, <1>6, <1>7, <1>8, <1>9, <1>10, <1>11 DEF Call

(* Every step keeps it; a purge only lowers the counter.                   *)
LEMMA AuditStep == TypeOK /\ AuditInv /\ [Next]_relayVars => AuditInv'
  <1> SUFFICES ASSUME TypeOK, AuditInv, [Next]_relayVars PROVE AuditInv'
    OBVIOUS
  <1>1. ASSUME NEW c \in Calls, Call(c) PROVE AuditInv'
    BY <1>1, AuditCallStep
  <1>2. ASSUME UNCHANGED <<mode, sent, okRows, failRows, unlogged, pc, signer, kind, ws>>,
               \A s \in Signers, w \in Windows : quota'[s][w] \in Nat /\ quota'[s][w] <= quota[s][w]
        PROVE  AuditInv'
    <2> SUFFICES ASSUME NEW s \in Signers, NEW w \in Windows
                 PROVE  /\ sent[s][w] <= okRows[s][w] + failRows[s][w] + unlogged[s][w]
                                            + Cardinality(Unaudited(s, w))
                        /\ quota'[s][w] + Cardinality(Charging(s, w)) <= okRows[s][w] + unlogged[s][w]
      BY <1>2 DEF AuditInv, Unaudited, Charging, Hit, Decoded
    <2>1. Charging(s, w) \subseteq Calls
      BY DEF Charging
    <2>2. Cardinality(Charging(s, w)) \in Nat
      BY <2>1, RelayAssumption, FS_Subset, FS_CardinalityType
    <2>3. quota[s][w] \in Nat /\ okRows[s][w] \in Nat /\ unlogged[s][w] \in Nat
      BY DEF TypeOK, Tally
    <2> QED
      BY <1>2, <2>2, <2>3 DEF AuditInv
  <1>3. \A s \in Signers, w \in Windows : quota[s][w] \in Nat /\ quota[s][w] <= quota[s][w]
    BY DEF TypeOK, Tally
  <1>4. ASSUME NEW s \in Signers, Ban(s) \/ Unban(s) \/ PurgeBan(s) PROVE AuditInv'
    BY <1>2, <1>3, <1>4 DEF Ban, Unban, Add, Remove, PurgeBan, auditVars, nodeVars, callVars
  <1>5. CASE Tick
    BY <1>2, <1>3, <1>5 DEF Tick, gateVars, auditVars, nodeVars, callVars
  <1>6. CASE UNCHANGED relayVars
    BY <1>2, <1>3, <1>6 DEF relayVars, gateVars, auditVars, nodeVars, callVars
  <1>7. CASE PurgeQuota
    <2>1. \A s \in Signers, w \in Windows : quota'[s][w] \in Nat /\ quota'[s][w] <= quota[s][w]
      BY <1>7 DEF PurgeQuota, TypeOK, Tally
    <2> QED
      BY <1>2, <1>7, <2>1 DEF PurgeQuota, auditVars, nodeVars, callVars
  <1> QED
    BY <1>1, <1>4, <1>5, <1>6, <1>7 DEF Next

(* For any number of calls, signers and windows: when no call is running,  *)
(* the audit rows account for all that is on the chain and all that was    *)
(* counted, except for the rows that could not be written.                 *)
THEOREM AuditTrailAccounts == Spec => []AuditTrail
  <1>1. Init => AuditInv
    <2> SUFFICES ASSUME Init PROVE AuditInv
      OBVIOUS
    <2>1. \A s \in Signers, w \in Windows : Unaudited(s, w) = {} /\ Charging(s, w) = {}
      BY DEF Init, Unaudited, Charging
    <2>2. Cardinality({}) = 0
      BY FS_EmptySet
    <2>3. \A s \in Signers, w \in Windows :
             /\ quota[s][w] = 0 /\ sent[s][w] = 0 /\ unlogged[s][w] = 0
             /\ okRows[s][w] = 0 /\ failRows[s][w] = 0
      BY DEF Init, ZeroTally
    <2>4. \A s \in Signers, w \in Windows :
             Cardinality(Unaudited(s, w)) = 0 /\ Cardinality(Charging(s, w)) = 0
      BY <2>1, <2>2
    <2> QED
      BY <2>3, <2>4 DEF AuditInv
  <1>2. TypeOK /\ AuditInv => AuditTrail
    <2> SUFFICES ASSUME TypeOK, AuditInv, \A c \in Calls : pc[c] = "idle",
                        NEW s \in Signers, NEW w \in Windows
                 PROVE  /\ sent[s][w] <= okRows[s][w] + failRows[s][w] + unlogged[s][w]
                        /\ quota[s][w] <= okRows[s][w] + unlogged[s][w]
      BY DEF AuditTrail
    <2>1. Unaudited(s, w) = {} /\ Charging(s, w) = {}
      BY DEF Unaudited, Charging
    <2>2. Cardinality({}) = 0
      BY FS_EmptySet
    <2>3. /\ quota[s][w] \in Nat /\ sent[s][w] \in Nat /\ unlogged[s][w] \in Nat
          /\ okRows[s][w] \in Nat /\ failRows[s][w] \in Nat
      BY DEF TypeOK, Tally
    <2>4. /\ sent[s][w] <= okRows[s][w] + failRows[s][w] + unlogged[s][w]
                              + Cardinality(Unaudited(s, w))
          /\ quota[s][w] + Cardinality(Charging(s, w)) <= okRows[s][w] + unlogged[s][w]
      BY DEF AuditInv
    <2>5. Cardinality(Unaudited(s, w)) = 0 /\ Cardinality(Charging(s, w)) = 0
      BY <2>1, <2>2
    <2> QED
      BY <2>3, <2>4, <2>5
  <1> QED
    BY <1>1, <1>2, AuditStep, TypeCorrect, PTL DEF Spec
=============================================================================
