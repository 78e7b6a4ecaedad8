----------------------------- MODULE RpcClient -----------------------------
(***************************************************************************)
(* The resilient RPC client every tool calls the node through: a token     *)
(* bucket, a circuit breaker (sony/gobreaker) around the whole call, and   *)
(* inside it retries with backoff (cenkalti/backoff); SendRawTransaction   *)
(* has the bucket and the breaker but no retry.                            *)
(*                                                                         *)
(* The breaker numbers its generations and drops the result of a call that *)
(* was admitted in an earlier one.  Only equality with the current number  *)
(* is ever tested, so a call carries "fresh": admitted in the current      *)
(* generation.                                                             *)
(*                                                                         *)
(* A call is a plain read, a receipt lookup (whose timeout the inner       *)
(* client reports as "not found") or a send.  The weather says what the    *)
(* node and the callers do: "well" (the node answers, callers wait),       *)
(* "hung" (requests time out), "down" (connections are refused), "rough"   *)
(* (any of it, malformed answers, callers that give up and, where the      *)
(* relay passes anything on, callers whose transaction is not hex).        *)
(***************************************************************************)
EXTENDS Integers

CONSTANTS
    Calls,        \* concurrent calls of the client
    MaxRetries,   \* RPC_MAX_RETRIES
    Threshold,    \* CIRCUIT_BREAKER_THRESHOLD
    RelayAllowAny \* MCP_RELAY_ALLOW_ANY

\* Config.validate: retries are not negative, the threshold is positive.
ASSUME RpcAssumption ==
    MaxRetries \in Nat /\ Threshold \in Nat \ {0} /\ RelayAllowAny \in BOOLEAN

VARIABLES
    breaker,      \* gobreaker state
    failures,     \* counts.ConsecutiveFailures while closed
    probes,       \* counts.validRequests while half-open
    expired,      \* has the open state's timeout passed
    pc,           \* control point of each call
    kind,         \* the method it calls
    tries,        \* attempts made at the node
    fresh,        \* was it admitted in the current generation
    out,          \* outcome of its last attempt
    weather,      \* the environment
    seen          \* observer: the worst an attempt has come to so far

breakerVars == <<breaker, failures, probes, expired>>
callVars == <<pc, kind, tries, fresh, out>>
rpcVars == <<breakerVars, callVars, weather, seen>>

Kinds == {"read", "receipt", "send"}
Weathers == {"well", "hung", "down", "rough"}
Steps == {"idle", "limiter", "execute", "attempt", "backoff", "verdict"}
Inside == {"attempt", "backoff", "verdict"}

\* How an attempt, or the call, ends: an answer; an application error, input
\* rejection or not-found; the receipts race of eth_gasPrice; no answer; a
\* malformed answer; the caller gave up; the transaction is not hex.
Outcomes == {"ok", "apperr", "race", "unreachable", "malformed", "cancelled", "badhex"}
Faults == {"unreachable", "malformed", "cancelled"}

Seen == {"answers", "badhex", "fault"}

MaxTries == MaxRetries + 1

Init ==
    /\ breaker = "closed" /\ failures = 0 /\ probes = 0 /\ expired = FALSE
    /\ pc = [c \in Calls |-> "idle"]
    /\ kind = [c \in Calls |-> "read"]
    /\ tries = [c \in Calls |-> 0]
    /\ fresh = [c \in Calls |-> FALSE]
    /\ out = [c \in Calls |-> "ok"]
    /\ weather \in Weathers
    /\ seen = "answers"

Goto(c, step) == pc' = [pc EXCEPT ![c] = step]

\* The call returns to its caller.
Forget(c) ==
    /\ Goto(c, "idle")
    /\ kind' = [kind EXCEPT ![c] = "read"]
    /\ tries' = [tries EXCEPT ![c] = 0]
    /\ out' = [out EXCEPT ![c] = "ok"]

---------------------------------------------------------------------------
(* Up to the breaker.                                                      *)

Start(c, k) ==
    /\ pc[c] = "idle"
    /\ kind' = [kind EXCEPT ![c] = k]
    /\ Goto(c, "limiter")
    /\ UNCHANGED <<breakerVars, tries, fresh, out, weather, seen>>

\* limiter.Wait: a token in time ...
LimiterAdmits(c) ==
    /\ pc[c] = "limiter"
    /\ Goto(c, "execute")
    /\ UNCHANGED <<breakerVars, kind, tries, fresh, out, weather, seen>>

\* ... or ErrRateLimited, when the context ends first.
LimiterRefuses(c) ==
    /\ pc[c] = "limiter"
    /\ Forget(c)
    /\ UNCHANGED <<breakerVars, fresh, weather, seen>>

\* currentState finds the open state's timeout passed.
HalfOpens == breaker = "open" /\ expired

\* Mutation: the half-open state admits every request.
AdmitsAnyProbe == breaker \in {"closed", "half"} \/ HalfOpens

\* beforeRequest; half-open admits maxRequests = 1.
Admits ==
    \/ breaker = "closed"
    \/ HalfOpens
    \/ breaker = "half" /\ probes = 0

\* Execute admits the call; the first request after the timeout moves the
\* breaker to half-open, a new generation, and is its probe.
Admit(c) ==
    /\ pc[c] = "execute"
    /\ Admits
    /\ IF breaker = "closed"
       THEN UNCHANGED breakerVars
       ELSE breaker' = "half" /\ probes' = 1 /\ expired' = FALSE /\ UNCHANGED failures
    /\ fresh' = [d \in Calls |-> d = c \/ (fresh[d] /\ ~HalfOpens)]
    /\ tries' = [tries EXCEPT ![c] = 1]
    /\ Goto(c, "attempt")
    /\ UNCHANGED <<kind, out, weather, seen>>

\* ErrOpenState and ErrTooManyRequests: the call fails fast.
Shed(c) ==
    /\ pc[c] = "execute"
    /\ ~Admits
    /\ Forget(c)
    /\ UNCHANGED <<breakerVars, fresh, weather, seen>>

---------------------------------------------------------------------------
(* Inside the breaker.                                                     *)

\* What an attempt of a kind can come to.  TransactionReceipt reports a
\* lookup that timed out or was cancelled as ErrTxNotFound; a send that was
\* not decoded before may fail in hex.DecodeString.
Results(k) ==
    CASE weather = "well" -> {"ok", "apperr"} \cup (IF k = "read" THEN {"race"} ELSE {})
      [] weather = "hung" -> {IF k = "receipt" THEN "apperr" ELSE "unreachable"}
      [] weather = "down" -> {"unreachable"}
      [] OTHER -> Outcomes \ ((IF k = "receipt" THEN {"cancelled"} ELSE {})
                                \cup (IF k = "read" THEN {} ELSE {"race"})
                                \cup (IF k = "send" /\ RelayAllowAny THEN {} ELSE {"badhex"}))

\* isTransientRPCError.
Transient(o) == o \in {"unreachable", "race"}

\* Mutation: SendRawTransaction goes through resilientCall like the others.
RetriesAll(c, o) == Transient(o) /\ tries[c] < MaxTries

\* Is there another attempt after this outcome.
Retries(c, o) == Transient(o) /\ tries[c] < MaxTries /\ kind[c] # "send"

Worst(o) ==
    IF seen = "fault" \/ o \in Faults THEN "fault"
    ELSE IF o = "badhex" THEN "badhex" ELSE seen

\* An attempt ends; the client's own timeout bounds it.
Reply(c) ==
    /\ pc[c] = "attempt"
    /\ \E o \in Results(kind[c]) :
          /\ out' = [out EXCEPT ![c] = o]
          /\ seen' = Worst(o)
          /\ Goto(c, IF Retries(c, o) THEN "backoff" ELSE "verdict")
    /\ UNCHANGED <<breakerVars, kind, tries, fresh, weather>>

\* The backoff timer fires ...
BackoffEnds(c) ==
    /\ pc[c] = "backoff"
    /\ tries' = [tries EXCEPT ![c] = @ + 1]
    /\ Goto(c, "attempt")
    /\ UNCHANGED <<breakerVars, kind, fresh, out, weather, seen>>

\* ... or the caller gives up first, and the call ends with its context error.
BackoffCancelled(c) ==
    /\ pc[c] = "backoff"
    /\ weather = "rough"
    /\ out' = [out EXCEPT ![c] = "cancelled"]
    /\ seen' = "fault"
    /\ Goto(c, "verdict")
    /\ UNCHANGED <<breakerVars, kind, tries, fresh, weather>>

---------------------------------------------------------------------------
(* afterRequest.                                                           *)

\* Mutation: any error counts against the node.
CountsOnlyNil(o) == o = "ok"

\* Mutation: a network error is taken for an answer, too.
CountsTransient(o) == o \in {"ok", "apperr", "race", "unreachable"}

\* breakerCountsAsSuccess: a node that answers is up.
CountsAsSuccess(o) == o \in {"ok", "apperr", "race"}

\* setState: a new generation, all counts cleared.
SetState(state) ==
    /\ breaker' = state
    /\ failures' = 0 /\ probes' = 0 /\ expired' = FALSE
    /\ fresh' = [d \in Calls |-> FALSE]

\* The breaker stays in its generation; the call's part in it is over.
StayInGeneration(c) ==
    /\ fresh' = [fresh EXCEPT ![c] = FALSE]
    /\ UNCHANGED <<breaker, probes, expired>>

\* Does the result of the call belong to the current generation.
Belongs(c) == fresh[c] /\ ~HalfOpens

\* A result of an earlier generation is dropped; currentState may still move
\* an expired open state to half-open.
VerdictStale(c) ==
    /\ pc[c] = "verdict"
    /\ ~Belongs(c)
    /\ IF HalfOpens THEN SetState("half") ELSE UNCHANGED <<breakerVars, fresh>>
    /\ Forget(c)
    /\ UNCHANGED <<weather, seen>>

\* onSuccess: clears the streak, or closes a half-open breaker.
VerdictSuccess(c) ==
    /\ pc[c] = "verdict"
    /\ Belongs(c) /\ CountsAsSuccess(out[c])
    /\ IF breaker = "half" THEN SetState("closed") ELSE failures' = 0 /\ StayInGeneration(c)
    /\ Forget(c)
    /\ UNCHANGED <<weather, seen>>

\* Mutation: a failed probe leaves the breaker half-open.
VerdictFailureKeepsHalf(c) ==
    /\ pc[c] = "verdict"
    /\ Belongs(c) /\ ~CountsAsSuccess(out[c])
    /\ IF breaker = "closed" /\ failures + 1 >= Threshold
       THEN SetState("open")
       ELSE failures' = failures + 1 /\ StayInGeneration(c)
    /\ Forget(c)
    /\ UNCHANGED <<weather, seen>>

\* onFailure: lengthens the streak, opens at the threshold; a failed probe
\* opens the breaker again.
VerdictFailure(c) ==
    /\ pc[c] = "verdict"
    /\ Belongs(c) /\ ~CountsAsSuccess(out[c])
    /\ IF breaker = "half" \/ failures + 1 >= Threshold
       THEN SetState("open")
       ELSE failures' = failures + 1 /\ StayInGeneration(c)
    /\ Forget(c)
    /\ UNCHANGED <<weather, seen>>

\* The open state's timeout passes.
Expire ==
    /\ breaker = "open" /\ ~expired
    /\ expired' = TRUE
    /\ UNCHANGED <<breaker, failures, probes, callVars, weather, seen>>

Change(w) ==
    /\ w # weather
    /\ weather' = w
    /\ UNCHANGED <<breakerVars, callVars, seen>>

Step(c) ==
    \/ LimiterAdmits(c) \/ LimiterRefuses(c) \/ Admit(c) \/ Shed(c)
    \/ Reply(c) \/ BackoffEnds(c) \/ BackoffCancelled(c)
    \/ VerdictStale(c) \/ VerdictSuccess(c) \/ VerdictFailure(c)

Next ==
    \/ \E c \in Calls : Step(c)
    \/ \E c \in Calls, k \in Kinds : Start(c, k)
    \/ Expire
    \/ \E w \in Weathers : Change(w)

Spec == Init /\ [][Next]_rpcVars

\* A running call goes on: tokens refill, every attempt has a timeout, the
\* backoff and the breaker's timeout are timers.  Nothing makes callers come
\* or the node recover.
Fairness ==
    /\ \A c \in Calls : WF_rpcVars(Step(c))
    /\ WF_rpcVars(Expire)

FairSpec == Spec /\ Fairness

---------------------------------------------------------------------------
(* Properties.                                                             *)

(* Type correctness of the breaker and the calls.                          *)
TypeOK ==
    /\ breaker \in {"closed", "open", "half"}
    /\ failures \in 0..(Threshold - 1)
    /\ probes \in {0, 1}
    /\ expired \in BOOLEAN
    /\ pc \in [Calls -> Steps]
    /\ kind \in [Calls -> Kinds]
    /\ tries \in [Calls -> 0..MaxTries]
    /\ fresh \in [Calls -> BOOLEAN]
    /\ out \in [Calls -> Outcomes]
    /\ weather \in Weathers
    /\ seen \in Seen

(* A signed transaction is handed to the node at most once per call,       *)
(* whatever the outcome: submission is not idempotent and bypasses the     *)
(* retries (SendRawTransaction).                                           *)
SendOnce == \A c \in Calls : kind[c] = "send" => tries[c] <= 1 /\ pc[c] # "backoff"

(* The half-open state runs one probe: the slot is taken exactly while a   *)
(* call admitted in this generation is running, so the slot is neither     *)
(* shared nor lost with a call that went away (a breaker whose slot is     *)
(* lost never closes again); and nothing of the current generation runs    *)
(* while the breaker is open.                                              *)
OneProbe ==
    /\ \A c \in Calls : fresh[c] => pc[c] \in Inside
    /\ breaker = "open" => \A c \in Calls : ~fresh[c]
    /\ breaker = "half" =>
          /\ \A c, d \in Calls : fresh[c] /\ fresh[d] => c = d
          /\ (probes = 1) <=> (\E c \in Calls : fresh[c])

(* Callers who ask for things that do not exist or revert do not trip the  *)
(* breaker: as long as every attempt got a well-formed answer it is closed *)
(* (breakerCountsAsSuccess).                                               *)
AnswersNeverTrip == seen = "answers" => breaker = "closed"

(* The inductive strengthening of the invariants above: where a call stands *)
(* in its attempts, and what a clean history says of the results that are  *)
(* still to be counted.                                                    *)
AttemptsInv ==
    \A c \in Calls :
        /\ pc[c] \in {"idle", "limiter", "execute"} => tries[c] = 0
        /\ pc[c] = "backoff" => tries[c] < MaxTries
CleanInv ==
    seen = "answers" =>
             /\ breaker = "closed" /\ failures = 0
             /\ \A c \in Calls : pc[c] = "verdict" => CountsAsSuccess(out[c])
RpcInv == TypeOK /\ SendOnce /\ OneProbe /\ AttemptsInv /\ CleanInv

\* Calls keep reaching the breaker.
Traffic == []<>(\E c \in Calls : pc[c] = "execute")

(* The breaker recovers by itself: once the node answers for good, and     *)
(* calls keep coming, it closes for good, whatever results of the outage   *)
(* are still on their way (RUNBOOK: auto-recovers via a half-open probe).  *)
Recovers == <>[](weather = "well") /\ Traffic => <>[](breaker = "closed")

(* The breaker sheds load: when the node refuses connections for good, and *)
(* calls keep coming, it leaves the closed state for good.                 *)
OutageTrips == <>[](weather = "down") /\ Traffic => <>[](breaker # "closed")
=============================================================================
