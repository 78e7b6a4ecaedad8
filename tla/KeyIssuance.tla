---------------------------- MODULE KeyIssuance ----------------------------
(***************************************************************************)
(* Self-serve API key issuance: the public POST /api/v1/keys/request       *)
(* endpoint, the pending-request file, and the admin handlers that approve *)
(* or reject a request.                                                    *)
(*                                                                         *)
(* main.go opens the pending file twice: newPendingAndEmail gives one      *)
(* PendingKeyStore to the admin server, newKeyRequestHandler gives a       *)
(* second one to the public endpoint.  Each store loads the file once, at  *)
(* boot, and afterwards every save rewrites the whole file from its own    *)
(* memory.  Both memories are state here, next to the file.                *)
(*                                                                         *)
(* One admin call in flight is a member of Admins; the handler's own steps *)
(* (Get, keys.Create, Decide, keys.Delete, email, audit, response) are     *)
(* separate actions, because nothing locks the two stores together across  *)
(* them.  A single store operation is one step: it runs under that store's *)
(* mutex, and a save either replaces the file or leaves it alone (module   *)
(* KeyFile models the inside of a save).                                   *)
(*                                                                         *)
(* Calls the handlers refuse without changing anything (404, 409, 400, and *)
(* a Reject whose save fails) are stuttering steps and have no action.     *)
(***************************************************************************)
EXTENDS Naturals

CONSTANTS
    Requests,     \* the request UUIDs that may ever be drawn
    Preloaded,    \* the requests already pending in the file at first boot
    Admins,       \* admin REST calls that can be in flight at once
    None,         \* the request of a call slot that is not in use
    MaxKeys,      \* bound: number of keys ever minted
    MaxBoots      \* bound: number of process starts

ASSUME IssuanceAssumption ==
    /\ Preloaded \subseteq Requests
    /\ None \notin Requests
    /\ MaxKeys \in Nat
    /\ MaxBoots \in Nat \ {0}

VARIABLES
    pendingFile,  \* the file at NVNM_KEY_PENDING_FILE: status of each request
    adminItems,   \* PendingKeyStore.items of the admin server's store
    publicItems,  \* PendingKeyStore.items of the public endpoint's store
    unused,       \* UUIDs not drawn yet
    accepted,     \* observer: requests the public endpoint answered 202 for
    keys,         \* key store: the live key of client "pending:<r>", or NoKey
    minted,       \* serial number of the last key minted
    pc,           \* control point of each admin call
    job,          \* the request the call is about
    held,         \* the raw key the call carries (NoKey on a reject)
    boot,         \* which process life this is
    released,     \* observer: outcomes that left the server, by email or 200
    audit,        \* admin_audit rows
    revoked,      \* observer: the keys an operator deleted
    undercut,     \* observer: requests whose key an operator deleted while the
                  \* call that minted it had not recorded its decision
    stranded      \* observer: requests whose key a lost answer, a failed rollback
                  \* or a restart left live without an approval on record

issuanceVars == <<pendingFile, adminItems, publicItems, unused, accepted, keys,
                  minted, pc, job, held, boot, released, audit, revoked,
                  undercut, stranded>>

NoKey == 0
Status == {"absent", "pending", "approved", "rejected"}
Decided == {"approved", "rejected"}
Steps == {"idle", "mint", "decide", "rollback", "email", "audit", "respond"}

\* An outcome: the request, the boot it was decided in, and the key (NoKey
\* for a rejection).
Outcome(a) == <<job[a], boot, held[a]>>
Outcomes == Requests \X (1..MaxBoots) \X (0..MaxKeys)

AuditRow(action, r) == <<action, r, boot>>
AuditRows == {"pending.approve", "pending.reject", "key.delete"}
                 \X Requests \X (1..MaxBoots)

Init ==
    /\ pendingFile = [r \in Requests |-> IF r \in Preloaded THEN "pending" ELSE "absent"]
    /\ adminItems = pendingFile
    /\ publicItems = pendingFile
    /\ unused = Requests \ Preloaded
    /\ accepted = Preloaded
    /\ keys = [r \in Requests |-> NoKey]
    /\ minted = 0
    /\ pc = [a \in Admins |-> "idle"]
    /\ job = [a \in Admins |-> None]
    /\ held = [a \in Admins |-> NoKey]
    /\ boot = 1
    /\ released = {}
    /\ audit = {}
    /\ revoked = {}
    /\ undercut = {}
    /\ stranded = {}

---------------------------------------------------------------------------
(* The public endpoint.                                                    *)

\* The status PendingKeyStore.Add gives a new request.
NewStatus == "pending"

\* POST /api/v1/keys/request, past validation: PendingKeyStore.Add appends to
\* the public store's memory and saves that memory over the file.
Submit(r) ==
    /\ r \in unused
    /\ unused' = unused \ {r}
    /\ publicItems' = [publicItems EXCEPT ![r] = NewStatus]
    /\ pendingFile' = publicItems'
    /\ accepted' = accepted \cup {r}
    /\ UNCHANGED <<adminItems, keys, minted, pc, job, held, boot, released, audit,
                   revoked, undercut, stranded>>

\* Add whose save fails: the append is rolled back and the caller gets 500.
\* The UUID is spent.
SubmitFails(r) ==
    /\ r \in unused
    /\ unused' = unused \ {r}
    /\ UNCHANGED <<pendingFile, adminItems, publicItems, accepted, keys, minted, pc,
                   job, held, boot, released, audit, revoked, undercut, stranded>>

---------------------------------------------------------------------------
(* POST /admin/keys/pending/{id}/approve.                                  *)

Goto(a, step) == pc' = [pc EXCEPT ![a] = step]

\* The call returns; its locals, the raw key included, are gone.
Finish(a) ==
    /\ Goto(a, "idle")
    /\ job' = [job EXCEPT ![a] = None]
    /\ held' = [held EXCEPT ![a] = NoKey]

\* pendingStore.Get, the status check, and on to the mint.
ApproveStart(a, r) ==
    /\ pc[a] = "idle"
    /\ adminItems[r] = "pending"
    /\ Goto(a, "mint")
    /\ job' = [job EXCEPT ![a] = r]
    /\ UNCHANGED <<pendingFile, adminItems, publicItems, unused, accepted, keys,
                   minted, held, boot, released, audit, revoked, undercut, stranded>>

\* Mutation: Create overwrites an existing client instead of refusing it.
CreateAlways(r) == TRUE

\* ManagedKeyStore.Create refuses a client_id that is taken.
CanCreate(r) == keys[r] = NoKey

\* keys.Create("pending:" + id, reader) persisted.
Mint(a) ==
    /\ pc[a] = "mint"
    /\ CanCreate(job[a])
    /\ minted < MaxKeys
    /\ minted' = minted + 1
    /\ keys' = [keys EXCEPT ![job[a]] = minted + 1]
    /\ held' = [held EXCEPT ![a] = minted + 1]
    /\ Goto(a, "decide")
    /\ UNCHANGED <<pendingFile, adminItems, publicItems, unused, accepted, job, boot,
                   released, audit, revoked, undercut, stranded>>

\* keys.Create refused (ErrClientExists) or could not persist: 500.
MintFails(a) ==
    /\ pc[a] = "mint"
    /\ Finish(a)
    /\ UNCHANGED <<pendingFile, adminItems, publicItems, unused, accepted, keys,
                   minted, boot, released, audit, revoked, undercut, stranded>>

\* keys.Create stored the key and the handler saw an error: Postgres commits
\* the INSERT and its answer is lost.  The handler answers 500 and does not
\* delete, so the client has a key nobody has seen.
MintLost(a) ==
    /\ pc[a] = "mint"
    /\ CanCreate(job[a])
    /\ minted < MaxKeys
    /\ minted' = minted + 1
    /\ keys' = [keys EXCEPT ![job[a]] = minted + 1]
    /\ stranded' = stranded \cup {job[a]}
    /\ Finish(a)
    /\ UNCHANGED <<pendingFile, adminItems, publicItems, unused, accepted, boot,
                   released, audit, revoked, undercut>>

\* Mutation: Decide finds the request but does not look at its status.
DecideKnown(r) == adminItems[r] # "absent"

\* PendingKeyStore.Decide acts only on a request that is still pending.
CanDecide(r) == adminItems[r] = "pending"

\* The effect of a Decide that persists: the admin store's memory, saved whole
\* over the file.
RecordDecision(r, status) ==
    /\ adminItems' = [adminItems EXCEPT ![r] = status]
    /\ pendingFile' = adminItems'

\* Decide(approved) persisted.
Approve(a) ==
    /\ pc[a] = "decide"
    /\ CanDecide(job[a])
    /\ RecordDecision(job[a], "approved")
    /\ Goto(a, "email")
    /\ UNCHANGED <<publicItems, unused, accepted, keys, minted, job, held, boot,
                   released, audit, revoked, undercut, stranded>>

\* Mutation: the error path answers without deleting the key it minted.
ApproveFailsKeepKey(a) ==
    /\ pc[a] = "decide"
    /\ Finish(a)
    /\ UNCHANGED <<pendingFile, adminItems, publicItems, unused, accepted, keys,
                   minted, boot, released, audit, revoked, undercut, stranded>>

\* Decide refused (already decided) or its save failed and was rolled back.
ApproveFails(a) ==
    /\ pc[a] = "decide"
    /\ Goto(a, "rollback")
    /\ UNCHANGED <<pendingFile, adminItems, publicItems, unused, accepted, keys,
                   minted, job, held, boot, released, audit, revoked, undercut, stranded>>

\* The best-effort keys.Delete(created.ID), then 409 or 500.  Delete goes by
\* client_id: it removes whichever key that client has now.
Rollback(a) ==
    /\ pc[a] = "rollback"
    /\ keys' = [keys EXCEPT ![job[a]] = NoKey]
    /\ Finish(a)
    /\ UNCHANGED <<pendingFile, adminItems, publicItems, unused, accepted, minted,
                   boot, released, audit, revoked, undercut, stranded>>

\* The Delete cannot persist: logged at WARN and the key stays.
RollbackFails(a) ==
    /\ pc[a] = "rollback"
    /\ keys[job[a]] # NoKey
    /\ Finish(a)
    /\ stranded' = stranded \cup {job[a]}
    /\ UNCHANGED <<pendingFile, adminItems, publicItems, unused, accepted, keys,
                   minted, boot, released, audit, revoked, undercut>>

---------------------------------------------------------------------------
(* POST /admin/keys/pending/{id}/reject, and what follows either decision. *)

\* Decide(rejected) persisted.
Reject(a, r) ==
    /\ pc[a] = "idle"
    /\ CanDecide(r)
    /\ RecordDecision(r, "rejected")
    /\ job' = [job EXCEPT ![a] = r]
    /\ held' = [held EXCEPT ![a] = NoKey]
    /\ Goto(a, "email")
    /\ UNCHANGED <<publicItems, unused, accepted, keys, minted, boot, released, audit,
                   revoked, undercut, stranded>>

\* email.Send: delivered, or logged and reported as email_delivered = false.
SendEmail(a) ==
    /\ pc[a] = "email"
    /\ released' \in {released, released \cup {Outcome(a)}}
    /\ Goto(a, "audit")
    /\ UNCHANGED <<pendingFile, adminItems, publicItems, unused, accepted, keys,
                   minted, job, held, boot, audit, revoked, undercut, stranded>>

\* recordAdminAudit: written, or its failure logged and dropped.
RecordAudit(a) ==
    /\ pc[a] = "audit"
    /\ LET row == AuditRow(IF held[a] = NoKey THEN "pending.reject"
                                              ELSE "pending.approve", job[a])
       IN  audit' \in {audit, audit \cup {row}}
    /\ Goto(a, "respond")
    /\ UNCHANGED <<pendingFile, adminItems, publicItems, unused, accepted, keys,
                   minted, job, held, boot, released, revoked, undercut, stranded>>

\* The 200 response; an approve's carries the raw key.
Respond(a) ==
    /\ pc[a] = "respond"
    /\ released' = released \cup {Outcome(a)}
    /\ Finish(a)
    /\ UNCHANGED <<pendingFile, adminItems, publicItems, unused, accepted, keys,
                   minted, boot, audit, revoked, undercut, stranded>>

---------------------------------------------------------------------------
(* DELETE /admin/keys/pending:<r>, and the process itself.                 *)

\* Some call carries the key of r and has not recorded a decision on it.
MidApproval(r) ==
    \E a \in Admins : pc[a] \in {"decide", "rollback"} /\ job[a] = r /\ held[a] = keys[r]

\* keys.Delete persisted, then the audit row, best effort.
DeleteKey(r) ==
    /\ keys[r] # NoKey
    /\ keys' = [keys EXCEPT ![r] = NoKey]
    /\ revoked' = revoked \cup {keys[r]}
    /\ undercut' = IF MidApproval(r) THEN undercut \cup {r} ELSE undercut
    /\ audit' \in {audit, audit \cup {AuditRow("key.delete", r)}}
    /\ UNCHANGED <<pendingFile, adminItems, publicItems, unused, accepted, minted, pc,
                   job, held, boot, released, stranded>>

\* The process stops anywhere and starts again: every call in flight is gone
\* and both stores load what the file holds.
Restart ==
    /\ boot < MaxBoots
    /\ boot' = boot + 1
    /\ adminItems' = pendingFile
    /\ publicItems' = pendingFile
    /\ pc' = [a \in Admins |-> "idle"]
    /\ job' = [a \in Admins |-> None]
    /\ held' = [a \in Admins |-> NoKey]
    /\ stranded' = stranded \cup
           {r \in Requests : keys[r] # NoKey /\ pendingFile[r] # "approved"}
    /\ UNCHANGED <<pendingFile, unused, accepted, keys, minted, released, audit, revoked, undercut>>

Next ==
    \/ \E r \in Requests : Submit(r) \/ SubmitFails(r) \/ DeleteKey(r)
    \/ \E a \in Admins, r \in Requests : ApproveStart(a, r) \/ Reject(a, r)
    \/ \E a \in Admins :
          \/ Mint(a) \/ MintFails(a) \/ MintLost(a)
          \/ Approve(a) \/ ApproveFails(a)
          \/ Rollback(a) \/ RollbackFails(a)
          \/ SendEmail(a) \/ RecordAudit(a) \/ Respond(a)
    \/ Restart

Spec == Init /\ [][Next]_issuanceVars

---------------------------------------------------------------------------
(* Properties.                                                             *)

(* Type correctness of the two pending stores, the file, the key store and *)
(* the calls in flight.                                                    *)
TypeOK ==
    /\ pendingFile \in [Requests -> Status]
    /\ adminItems \in [Requests -> Status]
    /\ publicItems \in [Requests -> Status]
    /\ unused \subseteq Requests
    /\ accepted \subseteq Requests
    /\ keys \in [Requests -> 0..MaxKeys]
    /\ minted \in 0..MaxKeys
    /\ pc \in [Admins -> Steps]
    /\ job \in [Admins -> Requests \cup {None}]
    /\ \A a \in Admins : pc[a] # "idle" => job[a] \in Requests
    /\ held \in [Admins -> 0..MaxKeys]
    /\ boot \in 1..MaxBoots
    /\ released \subseteq Outcomes
    /\ audit \subseteq AuditRows
    /\ revoked \subseteq 1..MaxKeys
    /\ undercut \subseteq Requests
    /\ stranded \subseteq Requests

(* Two admins deciding the same request near-simultaneously cannot both    *)
(* succeed: within one process life at most one outcome of a request, one  *)
(* key or one rejection, is ever emailed or returned, and the audit trail  *)
(* never holds both an approval and a rejection (Decide's status guard).   *)
OneDecisionPerBoot ==
    /\ \A x, y \in released : x[1] = y[1] /\ x[2] = y[2] => x = y
    /\ \A r \in Requests, b \in 1..MaxBoots :
          ~ (/\ <<"pending.approve", r, b>> \in audit
             /\ <<"pending.reject", r, b>> \in audit)

(* A key minted by an approve is accounted for: its request is approved,   *)
(* or the call that minted it is still deciding or rolling it back, or the *)
(* answer of Create was lost, the rollback's own Delete failed or a        *)
(* restart cut the call off (the orphan handleApprovePending deletes the   *)
(* key to avoid).                                                          *)
NoOrphanKey ==
    \A r \in Requests : keys[r] # NoKey =>
        \/ adminItems[r] = "approved"
        \/ r \in stranded
        \/ MidApproval(r)

(* A key handed to the customer or the operator is the live key of its     *)
(* client, whatever approvals, rejections, rollbacks and restarts          *)
(* interleave, with two exceptions.  An operator deleted this very key; or *)
(* an operator deleted a key of the same request while its approval had    *)
(* not recorded a decision.  In the second case a key released later can   *)
(* go without anybody deleting it: the rollback of the first approval      *)
(* deletes by client id, and the client id now names the later key         *)
(* (handleApprovePending's best-effort delete).                            *)
ReleasedKeyLive ==
    \A x \in released : x[3] # NoKey =>
        keys[x[1]] = x[3] \/ x[3] \in revoked \/ x[1] \in undercut

(* A decision is final: no request ever has two outcomes, restarts and    *)
(* concurrent calls included, for as long as the public endpoint's store   *)
(* has not saved its own copy of the file over the admin's (RUNBOOK,       *)
(* "Double-approve and double-reject guards").                             *)
DecisionFinal ==
    accepted = Preloaded => \A x, y \in released : x[1] = y[1] => x = y

(* A request the public endpoint accepted with 202 stays in the pending    *)
(* file (PendingKeyStore: writers "don't clobber each other").             *)
AcceptedNotLost ==
    \A r \in accepted : pendingFile[r] # "absent"

---------------------------------------------------------------------------
(* The inductive strengthening used by the proofs.                         *)

\* A call that has recorded its decision and is reporting it.
Reporting(a) == pc[a] \in {"email", "audit", "respond"}

\* A call whose minted key has no decision on record yet.
Deciding(a) == pc[a] \in {"decide", "rollback"}

\* The decision a reporting call recorded is still the one in the admin
\* store, and no two reporting calls are about the same request.
ReportsMatchStore ==
    /\ \A a \in Admins : Reporting(a) =>
          adminItems[job[a]] = IF held[a] = NoKey THEN "rejected" ELSE "approved"
    /\ \A a, b \in Admins : Reporting(a) /\ Reporting(b) /\ a # b => job[a] # job[b]

\* Outcomes and audit rows of this boot are about decided requests, and agree
\* with the call that may still be reporting.
OutcomesMatchStore ==
    /\ \A x \in released : x[2] = boot => adminItems[x[1]] \in Decided
    /\ \A a \in Admins, x \in released :
          Reporting(a) /\ x[1] = job[a] /\ x[2] = boot => x[3] = held[a]
    /\ \A r \in Requests :
          /\ <<"pending.approve", r, boot>> \in audit => adminItems[r] = "approved"
          /\ <<"pending.reject", r, boot>> \in audit => adminItems[r] = "rejected"

\* Nothing observable carries the number of a later boot.
NothingFromLaterBoots ==
    /\ \A x \in released : x[2] <= boot
    /\ \A row \in audit : row[3] <= boot

\* Every mint draws a new serial: a key belongs to one call, and a key whose
\* call is still deciding has not been released.
KeysAreFresh ==
    /\ \A a \in Admins : held[a] <= minted
    /\ \A a \in Admins : pc[a] \in {"idle", "mint"} => held[a] = NoKey
    /\ \A a \in Admins : Deciding(a) => held[a] # NoKey
    /\ \A a, b \in Admins : held[a] = held[b] /\ a # b => held[a] = NoKey
    /\ \A x \in released : x[3] <= minted
    /\ \A a \in Admins, x \in released : Deciding(a) => x[3] # held[a]

\* A key a call carries is the live key of its client, unless an operator
\* deleted a key of that request mid-approval, or this one after its decision.
HeldKeyLive ==
    \A a \in Admins : held[a] # NoKey =>
        \/ keys[job[a]] = held[a]
        \/ job[a] \in undercut
        \/ Reporting(a) /\ held[a] \in revoked

IssuanceInv ==
    /\ TypeOK
    /\ ReportsMatchStore
    /\ OutcomesMatchStore
    /\ NothingFromLaterBoots
    /\ KeysAreFresh
    /\ HeldKeyLive
    /\ OneDecisionPerBoot
    /\ NoOrphanKey
    /\ ReleasedKeyLive

\* What is true besides while no submission has been saved: the admin store
\* is the file's only writer.
SoleWriter ==
    /\ adminItems = pendingFile
    /\ \A x \in released : adminItems[x[1]] \in Decided
    /\ \A a \in Admins, x \in released :
          Reporting(a) /\ x[1] = job[a] => x = Outcome(a)
    /\ \A x, y \in released : x[1] = y[1] => x = y

SingleWriterInv ==
    /\ Preloaded \cap unused = {}
    /\ accepted = Preloaded => SoleWriter
=============================================================================
