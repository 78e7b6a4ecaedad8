------------------------ MODULE KeyIssuance_proofs -------------------------
(***************************************************************************)
(* Proofs about KeyIssuance, for every set of requests, every number of    *)
(* concurrent admin calls and every bound.                                 *)
(***************************************************************************)
EXTENDS KeyIssuance, TLAPS

(* No step of a handler, of the public endpoint or of the process breaks   *)
(* the types.                                                              *)
LEMMA TypeStep == TypeOK /\ [Next]_issuanceVars => TypeOK'
<1> SUFFICES ASSUME TypeOK, [Next]_issuanceVars
             PROVE  TypeOK'
  OBVIOUS
<1> USE IssuanceAssumption DEF TypeOK, Status, Steps, NoKey
<1>1. ASSUME NEW r \in Requests, Submit(r) PROVE TypeOK'
  BY <1>1 DEF Submit, NewStatus
<1>2. ASSUME NEW r \in Requests, SubmitFails(r) PROVE TypeOK'
  BY <1>2 DEF SubmitFails
<1>3. ASSUME NEW r \in Requests, DeleteKey(r) PROVE TypeOK'
  <2>1. keys[r] \in 1..MaxKeys
    BY <1>3 DEF DeleteKey
  <2>2. undercut' \subseteq Requests /\ revoked' \subseteq 1..MaxKeys
    BY <1>3, <2>1 DEF DeleteKey
  <2>3. QED
    BY <1>3, <2>2 DEF DeleteKey, AuditRow, AuditRows
<1>4. ASSUME NEW a \in Admins, NEW r \in Requests, ApproveStart(a, r) PROVE TypeOK'
  BY <1>4 DEF ApproveStart, Goto
<1>5. ASSUME NEW a \in Admins, NEW r \in Requests, Reject(a, r) PROVE TypeOK'
  BY <1>5 DEF Reject, CanDecide, RecordDecision, Goto
<1>6. ASSUME NEW a \in Admins, Mint(a) PROVE TypeOK'
  BY <1>6 DEF Mint, CanCreate, Goto
<1>7. ASSUME NEW a \in Admins, MintFails(a) PROVE TypeOK'
  BY <1>7 DEF MintFails, Finish, Goto
<1>8. ASSUME NEW a \in Admins, Approve(a) PROVE TypeOK'
  BY <1>8 DEF Approve, CanDecide, RecordDecision, Goto
<1>9. ASSUME NEW a \in Admins, ApproveFails(a) PROVE TypeOK'
  BY <1>9 DEF ApproveFails, Goto
<1>10. ASSUME NEW a \in Admins, Rollback(a) PROVE TypeOK'
  BY <1>10 DEF Rollback, Finish, Goto
<1>11. ASSUME NEW a \in Admins, RollbackFails(a) PROVE TypeOK'
  BY <1>11 DEF RollbackFails, Finish, Goto
<1>12. ASSUME NEW a \in Admins, SendEmail(a) PROVE TypeOK'
  BY <1>12 DEF SendEmail, Outcome, Outcomes, Goto
<1>13. ASSUME NEW a \in Admins, RecordAudit(a) PROVE TypeOK'
  BY <1>13 DEF RecordAudit, AuditRow, AuditRows, Goto
<1>14. ASSUME NEW a \in Admins, Respond(a) PROVE TypeOK'
  BY <1>14 DEF Respond, Outcome, Outcomes, Finish, Goto
<1>15. CASE Restart
  BY <1>15 DEF Restart
<1>16. ASSUME NEW a \in Admins, MintLost(a) PROVE TypeOK'
  BY <1>16 DEF MintLost, CanCreate, Finish, Goto
<1>17. CASE UNCHANGED issuanceVars
  BY <1>17 DEF issuanceVars
<1>18. QED
  BY <1>1, <1>2, <1>3, <1>4, <1>5, <1>6, <1>7, <1>8, <1>9, <1>10, <1>11,
     <1>12, <1>13, <1>14, <1>15, <1>16, <1>17 DEF Next

(* Every reachable state is well typed: stores, file, key store and calls  *)
(* of the issuance handlers.                                               *)
THEOREM TypeCorrect == Spec => []TypeOK
<1>1. Init => TypeOK
  BY IssuanceAssumption DEF Init, TypeOK, Status, Steps, NoKey, Outcomes, AuditRows
<1>2. QED
  BY <1>1, TypeStep, PTL DEF Spec

---------------------------------------------------------------------------

(* No step breaks the inductive invariant.  What makes it inductive: a     *)
(* reporting call pins the decision in the admin store, so no second call  *)
(* can decide the same request; every mint draws a new serial, so a        *)
(* rollback can only take a released key if an operator deleted the key    *)
(* the rollback is about while its approval was under way.                 *)
LEMMA InvStep == IssuanceInv /\ [Next]_issuanceVars => IssuanceInv'
<1> SUFFICES ASSUME IssuanceInv, [Next]_issuanceVars
             PROVE  IssuanceInv'
  OBVIOUS
<1> TypeOK'
  BY TypeStep DEF IssuanceInv
<1> USE IssuanceAssumption
        DEF IssuanceInv, TypeOK, ReportsMatchStore, OutcomesMatchStore,
            NothingFromLaterBoots, KeysAreFresh, HeldKeyLive, OneDecisionPerBoot,
            NoOrphanKey, MidApproval, ReleasedKeyLive, Reporting, Deciding, Decided, NoKey,
            Outcomes, AuditRows
<1>1. ASSUME NEW r \in Requests, Submit(r)
       PROVE  IssuanceInv'
  BY <1>1 DEF Submit
<1>2. ASSUME NEW r \in Requests, SubmitFails(r)
       PROVE  IssuanceInv'
  BY <1>2 DEF SubmitFails
<1>3. ASSUME NEW r \in Requests, DeleteKey(r)
       PROVE  IssuanceInv'
  <2>1. OutcomesMatchStore'
    BY <1>3 DEF DeleteKey, MidApproval, AuditRow
  <2>2. NothingFromLaterBoots'
    BY <1>3 DEF DeleteKey, MidApproval, AuditRow
  <2>3. HeldKeyLive'
    <3> SUFFICES ASSUME NEW a \in Admins, held[a] # NoKey
                 PROVE  \/ keys'[job[a]] = held[a]
                        \/ job[a] \in undercut'
                        \/ Reporting(a) /\ held[a] \in revoked'
      BY <1>3 DEF DeleteKey
    <3>1. undercut \subseteq undercut' /\ revoked \subseteq revoked'
      BY <1>3 DEF DeleteKey
    <3>2. CASE job[a] # r \/ keys[r] # held[a]
      BY <1>3, <3>1, <3>2 DEF DeleteKey
    <3>3. CASE job[a] = r /\ keys[r] = held[a] /\ Deciding(a)
      BY <1>3, <3>3 DEF DeleteKey, MidApproval
    <3>4. CASE job[a] = r /\ keys[r] = held[a] /\ Reporting(a)
      BY <1>3, <3>4 DEF DeleteKey
    <3>5. Deciding(a) \/ Reporting(a)
      BY DEF Steps
    <3>6. QED
      BY <3>2, <3>3, <3>4, <3>5
  <2>4. OneDecisionPerBoot'
    BY <1>3 DEF DeleteKey, MidApproval, AuditRow
  <2>5. ReleasedKeyLive'
    BY <1>3 DEF DeleteKey, MidApproval, AuditRow
  <2>6. (ReportsMatchStore /\ KeysAreFresh /\ NoOrphanKey)'
    BY <1>3 DEF DeleteKey, MidApproval, AuditRow
  <2> QED
    BY <2>1, <2>2, <2>3, <2>4, <2>5, <2>6
<1>4. ASSUME NEW a \in Admins, NEW r \in Requests, ApproveStart(a, r)
       PROVE  IssuanceInv'
  BY <1>4 DEF ApproveStart, Goto
<1>5. ASSUME NEW a \in Admins, NEW r \in Requests, Reject(a, r)
       PROVE  IssuanceInv'
  <2>1. ReportsMatchStore'
    BY <1>5 DEF Reject, CanDecide, RecordDecision, Goto
  <2>2. OutcomesMatchStore'
    BY <1>5 DEF Reject, CanDecide, RecordDecision, Goto
  <2>3. KeysAreFresh'
    BY <1>5 DEF Reject, CanDecide, RecordDecision, Goto
  <2>4. NoOrphanKey'
    BY <1>5 DEF Reject, CanDecide, RecordDecision, Goto
  <2>5. (NothingFromLaterBoots /\ HeldKeyLive /\ OneDecisionPerBoot /\ ReleasedKeyLive)'
    BY <1>5 DEF Reject, CanDecide, RecordDecision, Goto
  <2> QED
    BY <2>1, <2>2, <2>3, <2>4, <2>5
<1>6. ASSUME NEW a \in Admins, Mint(a)
       PROVE  IssuanceInv'
  <2>1. KeysAreFresh'
    BY <1>6 DEF Mint, CanCreate, Goto
  <2>2. HeldKeyLive'
    BY <1>6 DEF Mint, CanCreate, Goto
  <2>3. NoOrphanKey'
    BY <1>6 DEF Mint, CanCreate, Goto
  <2>4. ReleasedKeyLive'
    BY <1>6 DEF Mint, CanCreate, Goto
  <2>5. (ReportsMatchStore /\ OutcomesMatchStore /\ NothingFromLaterBoots /\ OneDecisionPerBoot)'
    BY <1>6 DEF Mint, CanCreate, Goto
  <2> QED
    BY <2>1, <2>2, <2>3, <2>4, <2>5
<1>7. ASSUME NEW a \in Admins, MintFails(a)
       PROVE  IssuanceInv'
  BY <1>7 DEF MintFails, Finish, Goto
<1>8. ASSUME NEW a \in Admins, Approve(a)
       PROVE  IssuanceInv'
  <2>1. ReportsMatchStore'
    BY <1>8 DEF Approve, CanDecide, RecordDecision, Goto
  <2>2. OutcomesMatchStore'
    BY <1>8 DEF Approve, CanDecide, RecordDecision, Goto
  <2>3. NoOrphanKey'
    BY <1>8 DEF Approve, CanDecide, RecordDecision, Goto
  <2>4. (NothingFromLaterBoots /\ KeysAreFresh /\ HeldKeyLive /\ OneDecisionPerBoot /\ ReleasedKeyLive)'
    BY <1>8 DEF Approve, CanDecide, RecordDecision, Goto
  <2> QED
    BY <2>1, <2>2, <2>3, <2>4
<1>9. ASSUME NEW a \in Admins, ApproveFails(a)
       PROVE  IssuanceInv'
  BY <1>9 DEF ApproveFails, Goto
<1>10. ASSUME NEW a \in Admins, Rollback(a)
       PROVE  IssuanceInv'
  <2>1. KeysAreFresh'
    BY <1>10 DEF Rollback, Finish, Goto
  <2>2. HeldKeyLive'
    BY <1>10 DEF Rollback, Finish, Goto
  <2>3. NoOrphanKey'
    BY <1>10 DEF Rollback, Finish, Goto
  <2>4. ReleasedKeyLive'
    <3> SUFFICES ASSUME NEW x \in released, x[3] # NoKey
                 PROVE  keys'[x[1]] = x[3] \/ x[3] \in revoked \/ x[1] \in undercut
      BY <1>10 DEF Rollback
    <3>1. x[3] # held[a]
      BY <1>10 DEF Rollback
    <3>2. keys[job[a]] = held[a] \/ job[a] \in undercut
      BY <1>10 DEF Rollback
    <3>3. keys' = [keys EXCEPT ![job[a]] = NoKey]
      BY <1>10 DEF Rollback
    <3>4. CASE x[1] = job[a]
      BY <3>1, <3>2, <3>4
    <3>5. CASE x[1] # job[a]
      BY <3>3, <3>5
    <3>6. QED
      BY <3>4, <3>5
  <2>5. (ReportsMatchStore /\ OutcomesMatchStore /\ NothingFromLaterBoots /\ OneDecisionPerBoot)'
    BY <1>10 DEF Rollback, Finish, Goto
  <2> QED
    BY <2>1, <2>2, <2>3, <2>4, <2>5
<1>11. ASSUME NEW a \in Admins, RollbackFails(a)
       PROVE  IssuanceInv'
  <2>1. KeysAreFresh'
    BY <1>11 DEF RollbackFails, Finish, Goto
  <2>2. NoOrphanKey'
    BY <1>11 DEF RollbackFails, Finish, Goto
  <2>3. (ReportsMatchStore /\ OutcomesMatchStore /\ NothingFromLaterBoots /\ HeldKeyLive /\ OneDecisionPerBoot /\ ReleasedKeyLive)'
    BY <1>11 DEF RollbackFails, Finish, Goto
  <2> QED
    BY <2>1, <2>2, <2>3
<1>12. ASSUME NEW a \in Admins, SendEmail(a)
       PROVE  IssuanceInv'
  <2>1. OutcomesMatchStore'
    BY <1>12 DEF SendEmail, Outcome, Goto
  <2>2. NothingFromLaterBoots'
    BY <1>12 DEF SendEmail, Outcome, Goto
  <2>3. KeysAreFresh'
    BY <1>12 DEF SendEmail, Outcome, Goto
  <2>4. OneDecisionPerBoot'
    <3>1. CASE released' = released
      BY <3>1, <1>12 DEF SendEmail, Goto
    <3>2. CASE released' = released \cup {Outcome(a)}
      <4>1. \A x \in released : x[1] = job[a] /\ x[2] = boot => x = Outcome(a)
        BY <1>12 DEF SendEmail, Outcome
      <4>2. Outcome(a)[1] = job[a] /\ Outcome(a)[2] = boot
        BY DEF Outcome
      <4>3. \A x, y \in released : x[1] = y[1] /\ x[2] = y[2] => x = y
        OBVIOUS
      <4>4. \A x, y \in released' : x[1] = y[1] /\ x[2] = y[2] => x = y
        <5> HIDE DEF IssuanceInv
        <5> QED
          BY <4>1, <4>2, <4>3, <3>2
      <4>5. QED
        BY <4>4, <1>12 DEF SendEmail
    <3> QED
      BY <3>1, <3>2, <1>12 DEF SendEmail
  <2>5. ReleasedKeyLive'
    BY <1>12 DEF SendEmail, Outcome, Goto
  <2>6. (ReportsMatchStore /\ HeldKeyLive /\ NoOrphanKey)'
    BY <1>12 DEF SendEmail, Outcome, Goto
  <2> QED
    BY <2>1, <2>2, <2>3, <2>4, <2>5, <2>6
<1>13. ASSUME NEW a \in Admins, RecordAudit(a)
       PROVE  IssuanceInv'
  <2>1. OutcomesMatchStore'
    BY <1>13 DEF RecordAudit, AuditRow, Goto
  <2>2. NothingFromLaterBoots'
    BY <1>13 DEF RecordAudit, AuditRow, Goto
  <2>3. OneDecisionPerBoot'
    BY <1>13 DEF RecordAudit, AuditRow, Goto
  <2>4. (ReportsMatchStore /\ KeysAreFresh /\ HeldKeyLive /\ NoOrphanKey /\ ReleasedKeyLive)'
    BY <1>13 DEF RecordAudit, AuditRow, Goto
  <2> QED
    BY <2>1, <2>2, <2>3, <2>4
<1>14. ASSUME NEW a \in Admins, Respond(a)
       PROVE  IssuanceInv'
  <2>1. OutcomesMatchStore'
    BY <1>14 DEF Respond, Outcome, Finish, Goto
  <2>2. NothingFromLaterBoots'
    BY <1>14 DEF Respond, Outcome, Finish, Goto
  <2>3. KeysAreFresh'
    BY <1>14 DEF Respond, Outcome, Finish, Goto
  <2>4. OneDecisionPerBoot'
    <3>1. \A x \in released : x[1] = job[a] /\ x[2] = boot => x = Outcome(a)
      BY <1>14 DEF Respond, Outcome
    <3>2. Outcome(a)[1] = job[a] /\ Outcome(a)[2] = boot
      BY DEF Outcome
    <3>3. \A x, y \in released : x[1] = y[1] /\ x[2] = y[2] => x = y
      OBVIOUS
    <3>4. \A x, y \in released' : x[1] = y[1] /\ x[2] = y[2] => x = y
      <4>1. released' = released \cup {Outcome(a)}
        BY <1>14 DEF Respond
      <4> HIDE DEF IssuanceInv
      <4>2. QED
        BY <3>1, <3>2, <3>3, <4>1
    <3>5. QED
      BY <3>4, <1>14 DEF Respond
  <2>5. ReleasedKeyLive'
    BY <1>14 DEF Respond, Outcome, Finish, Goto
  <2>6. (ReportsMatchStore /\ HeldKeyLive /\ NoOrphanKey)'
    BY <1>14 DEF Respond, Outcome, Finish, Goto
  <2> QED
    BY <2>1, <2>2, <2>3, <2>4, <2>5, <2>6
<1>15. CASE Restart
  <2>1. OutcomesMatchStore'
    BY <1>15 DEF Restart
  <2>2. NothingFromLaterBoots'
    BY <1>15 DEF Restart
  <2>3. NoOrphanKey'
    BY <1>15 DEF Restart
  <2>4. (ReportsMatchStore /\ KeysAreFresh /\ HeldKeyLive /\ OneDecisionPerBoot /\ ReleasedKeyLive)'
    BY <1>15 DEF Restart
  <2> QED
    BY <2>1, <2>2, <2>3, <2>4
<1>16. ASSUME NEW a \in Admins, MintLost(a)
       PROVE  IssuanceInv'
  <2>1. KeysAreFresh'
    BY <1>16 DEF MintLost, CanCreate, Finish, Goto
  <2>2. HeldKeyLive'
    BY <1>16 DEF MintLost, CanCreate, Finish, Goto
  <2>3. NoOrphanKey'
    BY <1>16 DEF MintLost, CanCreate, Finish, Goto
  <2>4. ReleasedKeyLive'
    BY <1>16 DEF MintLost, CanCreate, Finish, Goto
  <2>5. (ReportsMatchStore /\ OutcomesMatchStore /\ NothingFromLaterBoots /\ OneDecisionPerBoot)'
    BY <1>16 DEF MintLost, CanCreate, Finish, Goto
  <2> QED
    BY <2>1, <2>2, <2>3, <2>4, <2>5
<1>17. CASE UNCHANGED issuanceVars
  BY <1>17 DEF issuanceVars
<1>18. QED
  BY <1>1, <1>2, <1>3, <1>4, <1>5, <1>6, <1>7, <1>8, <1>9, <1>10, <1>11, <1>12,
     <1>13, <1>14, <1>15, <1>16, <1>17 DEF Next

(* The inductive invariant holds in every reachable state of the issuance  *)
(* workflow.                                                               *)
THEOREM Invariance == Spec => []IssuanceInv
<1>1. Init => IssuanceInv
  <2> SUFFICES ASSUME Init PROVE IssuanceInv
    OBVIOUS
  <2>1. TypeOK
    BY IssuanceAssumption DEF Init, TypeOK, Status, Steps, NoKey, Outcomes, AuditRows
  <2>2. QED
    BY <2>1 DEF Init, IssuanceInv, ReportsMatchStore, OutcomesMatchStore,
           NothingFromLaterBoots, KeysAreFresh, HeldKeyLive, OneDecisionPerBoot,
           NoOrphanKey, MidApproval, ReleasedKeyLive, Reporting, Deciding, NoKey
<1>2. QED
  BY <1>1, InvStep, PTL DEF Spec

(* However many admins decide a request concurrently, within one process   *)
(* life at most one key or rejection leaves the server, and the audit      *)
(* trail agrees (the double-approve guard of PendingKeyStore.Decide).      *)
THEOREM OneDecision == Spec => []OneDecisionPerBoot
BY Invariance, PTL DEF IssuanceInv

(* No key is live without an approval, except while its call is deciding   *)
(* or when the answer of Create was lost, or its rollback failed or was    *)
(* cut off by a restart (handleApprovePending's rollback).                 *)
THEOREM NoOrphans == Spec => []NoOrphanKey
BY Invariance, PTL DEF IssuanceInv

(* A key that reached the customer or the operator stays the live key of   *)
(* its client until an operator deletes that key, unless an operator       *)
(* deleted a key of the same request in the middle of its approval: then   *)
(* the rollback of that approval may delete the later key.                 *)
THEOREM ReleasedKeysWork == Spec => []ReleasedKeyLive
BY Invariance, PTL DEF IssuanceInv
---------------------------------------------------------------------------
(* The single-writer case.  Until a submission is saved the pending file   *)
(* has one writer, and each step keeps the admin store equal to the file.  *)
LEMMA SingleWriterStep ==
  IssuanceInv /\ SingleWriterInv /\ [Next]_issuanceVars => SingleWriterInv'
<1> SUFFICES ASSUME IssuanceInv, SingleWriterInv, [Next]_issuanceVars
             PROVE  SingleWriterInv'
  OBVIOUS
<1> TypeOK'
  BY TypeStep DEF IssuanceInv
<1> USE IssuanceAssumption
        DEF IssuanceInv, TypeOK, ReportsMatchStore, SingleWriterInv, SoleWriter,
            Reporting, Deciding, Decided, NoKey, Outcome, Outcomes
<1>1. ASSUME NEW r \in Requests, Submit(r)
       PROVE  SingleWriterInv'
  BY <1>1 DEF Submit
<1>2. ASSUME NEW r \in Requests, SubmitFails(r)
       PROVE  SingleWriterInv'
  BY <1>2 DEF SubmitFails
<1>3. ASSUME NEW r \in Requests, DeleteKey(r)
       PROVE  SingleWriterInv'
  BY <1>3 DEF DeleteKey, MidApproval, AuditRow
<1>4. ASSUME NEW a \in Admins, NEW r \in Requests, ApproveStart(a, r)
       PROVE  SingleWriterInv'
  BY <1>4 DEF ApproveStart, Goto
<1>5. ASSUME NEW a \in Admins, NEW r \in Requests, Reject(a, r)
       PROVE  SingleWriterInv'
  BY <1>5 DEF Reject, CanDecide, RecordDecision, Goto
<1>6. ASSUME NEW a \in Admins, Mint(a)
       PROVE  SingleWriterInv'
  BY <1>6 DEF Mint, CanCreate, Goto
<1>7. ASSUME NEW a \in Admins, MintFails(a)
       PROVE  SingleWriterInv'
  BY <1>7 DEF MintFails, Finish, Goto
<1>8. ASSUME NEW a \in Admins, Approve(a)
       PROVE  SingleWriterInv'
  BY <1>8 DEF Approve, CanDecide, RecordDecision, Goto
<1>9. ASSUME NEW a \in Admins, ApproveFails(a)
       PROVE  SingleWriterInv'
  BY <1>9 DEF ApproveFails, Goto
<1>10. ASSUME NEW a \in Admins, Rollback(a)
       PROVE  SingleWriterInv'
  BY <1>10 DEF Rollback, Finish, Goto
<1>11. ASSUME NEW a \in Admins, RollbackFails(a)
       PROVE  SingleWriterInv'
  BY <1>11 DEF RollbackFails, Finish, Goto
<1>12. ASSUME NEW a \in Admins, SendEmail(a)
       PROVE  SingleWriterInv'
  BY <1>12 DEF SendEmail, Goto
<1>13. ASSUME NEW a \in Admins, RecordAudit(a)
       PROVE  SingleWriterInv'
  BY <1>13 DEF RecordAudit, AuditRow, Goto
<1>14. ASSUME NEW a \in Admins, Respond(a)
       PROVE  SingleWriterInv'
  BY <1>14 DEF Respond, Finish, Goto
<1>15. CASE Restart
  BY <1>15 DEF Restart
<1>16. ASSUME NEW a \in Admins, MintLost(a)
       PROVE  SingleWriterInv'
  BY <1>16 DEF MintLost, CanCreate, Finish, Goto
<1>17. CASE UNCHANGED issuanceVars
  BY <1>17 DEF issuanceVars
<1>18. QED
  BY <1>1, <1>2, <1>3, <1>4, <1>5, <1>6, <1>7, <1>8, <1>9, <1>10, <1>11, <1>12,
     <1>13, <1>14, <1>15, <1>16, <1>17 DEF Next

(* Until the public endpoint saves a submission no request has two         *)
(* outcomes, whatever the restarts, failures and concurrent admin calls:   *)
(* the second store is the only way a decision is ever undone.             *)
THEOREM DecisionsFinalWithSingleWriter == Spec => []DecisionFinal
<1>1. Init => SingleWriterInv
  BY IssuanceAssumption DEF Init, SingleWriterInv, SoleWriter, Reporting
<1>2. SingleWriterInv => DecisionFinal
  BY DEF SingleWriterInv, SoleWriter, DecisionFinal
<1>3. QED
  BY <1>1, <1>2, Invariance, SingleWriterStep, PTL DEF Spec
=============================================================================
