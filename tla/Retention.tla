----------------------------- MODULE Retention -----------------------------
(***************************************************************************)
(* The retention purge (internal/mcp/purge.go): on every replica a         *)
(* goroutine sweeps the keyless tables on a timer, table by table and      *)
(* batch by batch, while the server keeps inserting rows.  A statement     *)
(* may fail for a while or for good, and a sweep that meets a failure      *)
(* gives up the tables it has not come to.                                 *)
(***************************************************************************)
EXTENDS Naturals, FiniteSets, Sequences, FiniteSetsExt

CONSTANTS
    Purgers,     \* one per replica
    Configs,     \* [audit, grant, quota, ban, admin : windows, selector : BOOLEAN]
    BatchSize,   \* purgeBatchSize
    MaxBatches,  \* purgeMaxBatchesPerTable
    Arriving,    \* kinds of rows the server writes
    Breakable,   \* phases whose statement may fail for good
    MaxRows, MaxClock, MaxFaults    \* bounds

\* The tables of a sweep, in its order; write_audit is visited twice.
Phases == <<"grant", "write", "quota", "ban", "admin">>
Kinds == {Phases[i] : i \in DOMAIN Phases}

ASSUME RetentionAssumption ==
    /\ Configs \subseteq [audit : Nat, grant : Nat, quota : Nat, ban : Nat, admin : Nat,
                          selector : BOOLEAN]
    /\ Arriving \subseteq Kinds /\ Breakable \subseteq Kinds
    /\ {BatchSize, MaxBatches} \subseteq Nat \ {0}
    /\ {MaxRows, MaxClock, MaxFaults} \subseteq Nat

VARIABLES
    cfg,      \* the configuration
    broken,   \* phases whose statement fails for good (a missing grant, ...)
    rows,     \* rows of all tables: [kind, id, created]
    clock,
    purger,   \* purger[p]: the goroutine of a replica
    inserted, faults

vars == <<cfg, broken, rows, clock, purger, inserted, faults>>

Asleep == [pc |-> "asleep"]
-----------------------------------------------------------------------------
\* RetentionConfig.Enabled.
Enabled(c) == \E k \in {"audit", "grant", "quota", "ban", "admin"} : c[k] > 0

\* startRetentionPurge and NewPurger: a window for grantRole rows needs the
\* selector to tell them apart, or the server does not start.
Starts(c) == Enabled(c) /\ (c.grant > 0 => c.selector)

CarveOut == cfg.grant > 0 /\ cfg.selector

\* Mutation: the ordinary sweep of write_audit forgets the carve-out.
CoversAllWrites(phase, kind) ==
    IF phase = "write" THEN kind \in {"write", "grant"} ELSE kind = phase

\* The rows a phase looks at, of any age.  Rows from before the selector was
\* recorded are ordinary writes.
Covers(phase, kind) ==
    IF phase = "write" THEN kind = "write" \/ (kind = "grant" /\ ~CarveOut)
                       ELSE kind = phase

\* The window a phase applies, 0 when it is skipped.
Window(phase) ==
    IF phase = "grant" THEN IF CarveOut THEN cfg.grant ELSE 0
    ELSE IF phase = "write" THEN cfg.audit ELSE cfg[phase]

\* The rows a statement may delete: created before the cutoff.
Aged(phase, now) ==
    {r \in rows : Covers(phase, r.kind) /\ r.created + Window(phase) < now}

\* The first phase from i on with a window; one past the end when there is none.
FirstPhase(i) ==
    Min({j \in i..Len(Phases) : Window(Phases[j]) > 0} \cup {Len(Phases) + 1})
-----------------------------------------------------------------------------
Init ==
    /\ cfg \in {c \in Configs : Starts(c)}
    /\ broken \in SUBSET Breakable
    /\ rows = {} /\ clock = 0 /\ inserted = 0 /\ faults = 0
    /\ purger = [p \in Purgers |-> Asleep]

\* The server writes a row.  (Banning a signer that is banned already keeps
\* the row and its created_at, so it is no insert.)
Insert(kind) ==
    /\ inserted < MaxRows
    /\ inserted' = inserted + 1
    /\ LET used == {r.id : r \in {x \in rows : x.kind = kind /\ x.created = clock}}
       IN  rows' = rows \cup {[kind |-> kind, id |-> Min(1..MaxRows \ used), created |-> clock]}
    /\ UNCHANGED <<cfg, broken, clock, purger, faults>>

\* Run's timer fires; the interval is left open.
Wake(p) ==
    /\ purger[p].pc = "asleep"
    /\ FirstPhase(1) <= Len(Phases)
    /\ purger' = [purger EXCEPT ![p] =
            [pc |-> "sweep", phase |-> FirstPhase(1), batches |-> 0, now |-> clock, raced |-> FALSE]]
    /\ UNCHANGED <<cfg, broken, rows, clock, inserted, faults>>

\* Mutation: a table gets one batch per sweep.
AfterBatchOnce(s, n) ==
    IF n > BatchSize
    THEN [s EXCEPT !.batches = @ + 1, !.raced = FALSE]
    ELSE LET next == FirstPhase(s.phase + 1)
         IN  IF next <= Len(Phases)
             THEN [s EXCEPT !.phase = next, !.batches = 0, !.raced = FALSE]
             ELSE Asleep

\* Where a sweep goes after a statement that deleted n rows in its phase.
AfterBatch(s, n) ==
    IF n = BatchSize /\ s.batches + 1 < MaxBatches
    THEN [s EXCEPT !.batches = @ + 1, !.raced = FALSE]
    ELSE LET next == FirstPhase(s.phase + 1)
         IN  IF next <= Len(Phases)
             THEN [s EXCEPT !.phase = next, !.batches = 0, !.raced = FALSE]
             ELSE Asleep

\* One statement of deleteBatched.  It deletes a full batch if there is one;
\* but rows it selected may be gone by the time it gets their locks, when a
\* statement of another replica took them, and then it deletes fewer.
Batch(p) ==
    LET s == purger[p]
        phase == Phases[s.phase]
        aged == Aged(phase, s.now)
        want == Min({BatchSize, Cardinality(aged)})
        Rival(q) == q # p /\ purger[q].pc = "sweep" /\ purger[q].phase = s.phase
    IN  /\ s.pc = "sweep" /\ phase \notin broken
        /\ \E n \in IF s.raced THEN 0..want ELSE {want} :
             \E gone \in kSubset(n, aged) :
                /\ rows' = rows \ gone
                /\ purger' = [q \in Purgers |->
                        IF q = p THEN AfterBatch(s, n)
                        ELSE IF Rival(q) /\ n > 0 THEN [purger[q] EXCEPT !.raced = TRUE]
                        ELSE purger[q]]
        /\ UNCHANGED <<cfg, broken, clock, inserted, faults>>

\* Mutation: a statement that failed is tried again at once.
FailRetries(p) ==
    LET s == purger[p]
    IN  /\ s.pc = "sweep"
        /\ \/ Phases[s.phase] \in broken /\ UNCHANGED faults
           \/ faults < MaxFaults /\ faults' = faults + 1
        /\ UNCHANGED <<cfg, broken, rows, clock, purger, inserted>>

\* A statement fails: the sweep is over until the next tick.
Fail(p) ==
    LET s == purger[p]
    IN  /\ s.pc = "sweep"
        /\ \/ Phases[s.phase] \in broken /\ UNCHANGED faults
           \/ faults < MaxFaults /\ faults' = faults + 1
        /\ purger' = [purger EXCEPT ![p] = Asleep]
        /\ UNCHANGED <<cfg, broken, rows, clock, inserted>>

Tick ==
    /\ clock < MaxClock
    /\ clock' = clock + 1
    /\ UNCHANGED <<cfg, broken, rows, purger, inserted, faults>>

Next ==
    \/ \E k \in Arriving : Insert(k)
    \/ Tick
    \/ \E p \in Purgers : Wake(p) \/ Batch(p) \/ Fail(p)

Spec == Init /\ [][Next]_vars

\* The timer fires and statements end, and time goes on.
Fairness == WF_vars(Tick) /\ \A p \in Purgers : WF_vars(Wake(p)) /\ WF_vars(Batch(p) \/ Fail(p))
FairSpec == Spec /\ Fairness
-----------------------------------------------------------------------------
(* Properties. *)

TypeOK ==
    /\ cfg \in Configs /\ broken \subseteq Kinds
    /\ \A r \in rows : r.kind \in Kinds /\ r.created \in 0..clock /\ r.id \in 1..MaxRows
    /\ clock \in 0..MaxClock /\ inserted \in 0..MaxRows /\ faults \in 0..MaxFaults
    /\ \A p \in Purgers :
          \/ purger[p] = Asleep
          \/ /\ purger[p].phase \in DOMAIN Phases
             /\ purger[p].batches \in 0..(MaxBatches - 1)
             /\ purger[p].now \in 0..clock

\* The window the policy promises for a kind of row: grantRole rows have one
\* of their own where it is configured.
Promised(kind) ==
    IF kind = "grant" /\ cfg.grant > 0 THEN cfg.grant
    ELSE IF kind \in {"grant", "write"} THEN cfg.audit ELSE cfg[kind]

\* No sweep of any replica deletes a row before its own window has passed, or
\* a row that is kept for good: in particular an ordinary sweep of write_audit
\* never takes the administrative record (purge.go:206-253).
NothingEarly ==
    [][\A r \in rows \ rows' : Promised(r.kind) > 0 /\ clock > r.created + Promised(r.kind)]_vars

\* A sweep leaves a table only when nothing was left to delete, when another
\* replica took rows of it meanwhile, or when it used up its batches (purge.go:276).
LeavesTableClean ==
    [][\A p \in Purgers :
         LET s == purger[p]
         IN  s.pc = "sweep" /\ (purger'[p] = Asleep \/ purger'[p].phase # s.phase) =>
                \/ {r \in rows' : Covers(Phases[s.phase], r.kind) /\ r.created + Window(Phases[s.phase]) < s.now} = {}
                \/ s.batches + 1 = MaxBatches
                \/ s.raced
                \/ Phases[s.phase] \in broken \/ faults' > faults]_vars

\* A statement up to and including the one for this kind fails for good.
Blocked(kind) ==
    \E i \in DOMAIN Phases : \E j \in 1..i :
        Covers(Phases[i], kind) /\ Phases[j] \in broken /\ Window(Phases[j]) > 0

\* Every row that outlives its window is deleted in the end, however large
\* the backlog and through any number of passing faults, unless a statement
\* that comes earlier in the sweep, or its own, fails for good: such a
\* failure keeps all later tables from ever being purged (purge.go:169).
ExpiredRowsGo ==
    <>[](\A r \in rows :
            Promised(r.kind) > 0 /\ clock > r.created + Promised(r.kind) => Blocked(r.kind))
=============================================================================
