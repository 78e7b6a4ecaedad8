-------------------------- MODULE Retention_proofs --------------------------
(***************************************************************************)
(* Proofs about Retention, for every policy, batch size and ceiling, any   *)
(* number of replicas and any faults.                                      *)
(***************************************************************************)
EXTENDS Retention, FiniteSetTheorems, WellFoundedInduction, TLAPS

(* A set of naturals has a least element: < is well-founded.               *)
LEMMA LeastExists ==
  ASSUME NEW S \in SUBSET Nat, S # {}
  PROVE  Min(S) \in S /\ \A y \in S : Min(S) <= y
<1> DEFINE R == {ss \in Nat \X Nat : ss[1] < ss[2]}
<1>1. IsWellFoundedOn(R, Nat)
  BY NatLessThanWellFounded DEF OpToRel
<1>2. PICK x \in S : \A y \in S : ~ (<<y, x>> \in R)
  <2> HIDE DEF R
  <2>1. QED
    BY <1>1, WFMin
<1>3. ASSUME NEW y \in S PROVE x <= y
  <2>1. ~(<<y, x>> \in R) /\ x \in Nat /\ y \in Nat
    BY <1>2
  <2>2. <<y, x>> \in Nat \X Nat /\ <<y, x>>[1] = y /\ <<y, x>>[2] = x
    BY <2>1
  <2>3. QED
    BY <2>1, <2>2
<1>4. QED
  BY <1>3 DEF Min

(* The places of the phases that have a window.                            *)
Windowed == {j \in 1..5 : Window(Phases[j]) > 0}

(* The policy does not change, and so neither do they.                     *)
LEMMA PolicyFixed ==
  ASSUME [Next]_vars PROVE cfg' = cfg /\ Windowed' = Windowed
<1>1. cfg' = cfg
  BY DEF Next, vars, Insert, Tick, Wake, Batch, Fail
<1>2. QED
  BY <1>1 DEF Windowed, Window, CarveOut, Phases

(* Where a sweep goes next is a phase with a window, or the end.           *)
LEMMA FirstPhaseLemma ==
  ASSUME NEW i \in 1..6, FirstPhase(i) <= Len(Phases)
  PROVE  FirstPhase(i) \in Windowed
<1> DEFINE S == {j \in i..Len(Phases) : Window(Phases[j]) > 0} \cup {Len(Phases) + 1}
<1>1. Len(Phases) = 5
  BY DEF Phases
<1>2. S \in SUBSET Nat /\ S # {}
  BY <1>1
<1>3. FirstPhase(i) = Min(S)
  BY DEF FirstPhase
<1>4. FirstPhase(i) \in S
  <2> HIDE DEF S
  <2>1. QED
    BY <1>2, <1>3, LeastExists
<1>5. QED
  BY <1>1, <1>4 DEF Windowed

Sweeps == [pc : {"sweep"}, phase : 1..5, batches : 0..(MaxBatches - 1), now : Nat, raced : BOOLEAN]

(* The inductive invariant: the policy can tell the grantRole rows where   *)
(* it has a window for them, and a sweep is at a phase with a window and   *)
(* began no later than now.                                                *)
SweepInv ==
    /\ cfg \in Configs /\ (cfg.grant > 0 => cfg.selector)
    /\ clock \in Nat
    /\ \A r \in rows : r.created \in Nat
    /\ purger \in [Purgers -> {Asleep} \cup Sweeps]
    /\ \A p \in Purgers : purger[p].pc = "sweep" =>
          purger[p].phase \in Windowed /\ purger[p].now <= clock

(* It holds when the server has started.                                   *)
LEMMA SweepInit == Init => SweepInv
BY RetentionAssumption DEF Init, SweepInv, Starts, Asleep

(* After a statement a sweep is over or at a phase with a window.          *)
LEMMA AfterBatchLemma ==
  ASSUME NEW s \in Sweeps, NEW n, s.phase \in Windowed
  PROVE  \/ AfterBatch(s, n) = Asleep
         \/ /\ AfterBatch(s, n) \in Sweeps
            /\ AfterBatch(s, n).now = s.now
            /\ AfterBatch(s, n).phase \in Windowed
<1>1. CASE n = BatchSize /\ s.batches + 1 < MaxBatches
  <2>1. AfterBatch(s, n) = [s EXCEPT !.batches = @ + 1, !.raced = FALSE]
    BY <1>1 DEF AfterBatch
  <2>2. AfterBatch(s, n) \in Sweeps
    <3> DEFINE b == s.batches + 1
    <3>1. b \in 0..(MaxBatches - 1)
      BY <1>1, RetentionAssumption DEF Sweeps
    <3>2. AfterBatch(s, n) = [s EXCEPT !.batches = b, !.raced = FALSE]
      BY <2>1
    <3> HIDE DEF b
    <3>3. [s EXCEPT !.batches = b, !.raced = FALSE] \in Sweeps
      BY <3>1 DEF Sweeps
    <3>4. QED
      BY <3>2, <3>3
  <2>3. AfterBatch(s, n).now = s.now /\ AfterBatch(s, n).phase = s.phase
    BY <2>1 DEF Sweeps
  <2>4. QED
    BY <2>2, <2>3
<1>2. CASE ~(n = BatchSize /\ s.batches + 1 < MaxBatches)
  <2> DEFINE next == FirstPhase(s.phase + 1)
  <2>1. CASE next <= Len(Phases)
    <3>1. s.phase + 1 \in 1..6
      BY DEF Sweeps
    <3>2. next \in Windowed
      BY <2>1, <3>1, FirstPhaseLemma
    <3>3. next \in 1..5
      BY <3>2 DEF Windowed
    <3>4. AfterBatch(s, n) = [s EXCEPT !.phase = next, !.batches = 0, !.raced = FALSE]
      BY <1>2, <2>1 DEF AfterBatch
    <3> HIDE DEF next
    <3>5. AfterBatch(s, n) \in Sweeps
      <4>1. 0 \in 0..(MaxBatches - 1)
        BY RetentionAssumption
      <4>2. [s EXCEPT !.phase = next, !.batches = 0, !.raced = FALSE] \in Sweeps
        BY <3>3, <4>1 DEF Sweeps
      <4>3. QED
        BY <3>4, <4>2
    <3>6. AfterBatch(s, n).now = s.now /\ AfterBatch(s, n).phase = next
      BY <3>4 DEF Sweeps
    <3>7. QED
      BY <3>2, <3>5, <3>6
  <2>2. CASE ~(next <= Len(Phases))
    BY <1>2, <2>2 DEF AfterBatch
  <2>3. QED
    BY <2>1, <2>2
<1>3. QED
  BY <1>1, <1>2

(* Every step keeps it.                                                    *)
LEMMA SweepStep == SweepInv /\ [Next]_vars => SweepInv'
<1> SUFFICES ASSUME SweepInv, [Next]_vars PROVE SweepInv'
  OBVIOUS
<1>0. cfg' = cfg /\ Windowed' = Windowed
  BY PolicyFixed
<1>1. ASSUME NEW k \in Arriving, Insert(k) PROVE SweepInv'
  <2>1. \A r \in rows' : r.created \in Nat
    BY <1>1 DEF Insert, SweepInv
  <2>2. QED
    BY <1>1, <2>1, <1>0 DEF Insert, SweepInv
<1>2. ASSUME Tick PROVE SweepInv'
  <2>1. clock' = clock + 1 /\ UNCHANGED <<rows, purger>>
    BY <1>2 DEF Tick
  <2>2. \A p \in Purgers : purger[p].pc = "sweep" => purger[p].now \in Nat
    BY DEF SweepInv, Sweeps, Asleep
  <2>3. QED
    BY <2>1, <2>2, <1>0 DEF SweepInv
<1>3. ASSUME NEW p \in Purgers, Wake(p) PROVE SweepInv'
  <2> DEFINE first == FirstPhase(1)
             s == [pc |-> "sweep", phase |-> first, batches |-> 0, now |-> clock, raced |-> FALSE]
  <2>1. first \in Windowed /\ first \in 1..5
    BY <1>3, FirstPhaseLemma DEF Wake, Windowed
  <2>2. purger' = [purger EXCEPT ![p] = s] /\ UNCHANGED <<clock, rows>>
    BY <1>3 DEF Wake
  <2> HIDE DEF first
  <2>3. s \in Sweeps /\ s.now = clock /\ s.phase \in Windowed
    BY <2>1, RetentionAssumption DEF Sweeps, SweepInv
  <2> HIDE DEF s
  <2>4. QED
    BY <2>2, <2>3, <1>0 DEF SweepInv
<1>4. ASSUME NEW p \in Purgers, Batch(p) PROVE SweepInv'
  <2>1. /\ purger[p] \in Sweeps
        /\ purger[p].phase \in Windowed /\ purger[p].now <= clock
    BY <1>4 DEF Batch, SweepInv, Asleep
  <2>2. PICK n : \A q \in Purgers :
          \/ q = p /\ purger'[q] = AfterBatch(purger[p], n)
          \/ q # p /\ purger[q].pc = "sweep" /\ purger'[q] = [purger[q] EXCEPT !.raced = TRUE]
          \/ q # p /\ purger'[q] = purger[q]
    BY <1>4 DEF Batch
  <2>3. /\ rows' \subseteq rows /\ clock' = clock
        /\ DOMAIN purger' = Purgers /\ purger' = [q \in Purgers |-> purger'[q]]
    BY <1>4 DEF Batch
  <2>4. ASSUME NEW q \in Purgers
        PROVE  /\ purger'[q] \in {Asleep} \cup Sweeps
               /\ purger'[q].pc = "sweep" =>
                     purger'[q].phase \in Windowed /\ purger'[q].now <= clock
    <3>1. CASE q = p /\ purger'[q] = AfterBatch(purger[p], n)
      <4>1. CASE purger'[q] = Asleep
        BY <4>1 DEF Asleep
      <4>2. CASE purger'[q] # Asleep
        BY <2>1, <3>1, <4>2, AfterBatchLemma
      <4>3. QED
        BY <4>1, <4>2
    <3>2. CASE purger[q].pc = "sweep" /\ purger'[q] = [purger[q] EXCEPT !.raced = TRUE]
      <4>1. purger[q] \in Sweeps
        BY <3>2 DEF SweepInv, Asleep
      <4>2. QED
        BY <3>2, <4>1 DEF SweepInv, Sweeps
    <3>3. CASE purger'[q] = purger[q]
      BY <3>3 DEF SweepInv
    <3>4. QED
      BY <2>2, <3>1, <3>2, <3>3
  <2>5. purger' \in [Purgers -> {Asleep} \cup Sweeps]
    BY <2>3, <2>4
  <2>6. QED
    BY <2>3, <2>4, <2>5, <1>0 DEF SweepInv
<1>5. ASSUME NEW p \in Purgers, Fail(p) PROVE SweepInv'
  <2>1. purger' = [purger EXCEPT ![p] = Asleep] /\ UNCHANGED <<clock, rows>>
    BY <1>5 DEF Fail
  <2>2. QED
    BY <2>1, <1>0 DEF SweepInv, Asleep
<1>6. CASE UNCHANGED vars
  BY <1>6, <1>0 DEF vars, SweepInv
<1>7. QED
  BY <1>1, <1>2, <1>3, <1>4, <1>5, <1>6 DEF Next

(* A row that a phase covers and finds aged has outlived the window the    *)
(* policy promises for its kind.                                           *)
LEMMA AgedIsExpired ==
  ASSUME SweepInv, NEW i \in Windowed, NEW now \in Nat, now <= clock,
         NEW r \in Aged(Phases[i], now)
  PROVE  Promised(r.kind) > 0 /\ clock > r.created + Promised(r.kind)
<1>1. r.created \in Nat /\ clock \in Nat
  BY DEF Aged, SweepInv
<1>2. cfg \in [audit : Nat, grant : Nat, quota : Nat, ban : Nat, admin : Nat, selector : BOOLEAN]
  BY RetentionAssumption DEF SweepInv
<1>3. Window(Phases[i]) \in Nat /\ Window(Phases[i]) > 0
  BY <1>2 DEF Windowed, Window, Phases
<1>4. Promised(r.kind) = Window(Phases[i])
  <2>1. Covers(Phases[i], r.kind)
    BY DEF Aged
  <2>2. CASE Phases[i] = "write"
    <3>1. CASE r.kind = "write"
      BY <2>2, <3>1 DEF Promised, Window
    <3>2. CASE r.kind = "grant" /\ ~CarveOut
      BY <1>2, <2>2, <3>2 DEF Promised, Window, CarveOut, SweepInv
    <3>3. QED
      BY <2>1, <2>2, <3>1, <3>2 DEF Covers
  <2>3. CASE Phases[i] = "grant"
    BY <1>2, <1>3, <2>1, <2>3 DEF Covers, Promised, Window, CarveOut
  <2>4. CASE Phases[i] \notin {"write", "grant"}
    BY <2>1, <2>4 DEF Covers, Promised, Window
  <2>5. QED
    BY <2>2, <2>3, <2>4
<1>5. r.created + Window(Phases[i]) < now
  BY DEF Aged
<1>6. QED
  BY <1>1, <1>3, <1>4, <1>5

(* For every policy the configuration admits, any number of replicas and   *)
(* every batch size, no row is deleted before the window of its own kind   *)
(* has passed, nor one that is kept for good (purge.go:206-253).           *)
THEOREM NothingGoesEarly == Spec => NothingEarly
<1>1. SweepInv /\ [Next]_vars =>
        [\A r \in rows \ rows' : Promised(r.kind) > 0 /\ clock > r.created + Promised(r.kind)]_vars
  <2> SUFFICES ASSUME SweepInv, Next, NEW r \in rows \ rows'
               PROVE  Promised(r.kind) > 0 /\ clock > r.created + Promised(r.kind)
    OBVIOUS
  <2>1. PICK p \in Purgers : Batch(p)
    BY DEF Next, Insert, Tick, Wake, Fail
  <2>2. r \in Aged(Phases[purger[p].phase], purger[p].now)
    BY <2>1 DEF Batch, kSubset
  <2>3. purger[p].phase \in Windowed /\ purger[p].now \in Nat /\ purger[p].now <= clock
    BY <2>1 DEF Batch, SweepInv, Sweeps, Asleep
  <2>4. QED
    BY <2>2, <2>3, AgedIsExpired
<1>2. QED
  BY <1>1, SweepInit, SweepStep, PTL DEF Spec, NothingEarly

-----------------------------------------------------------------------------
(* The inductive invariant of the tables: the bookkeeping is typed, and    *)
(* there are no more rows than were inserted, so that an insert always     *)
(* finds an identity that is free.                                         *)
RowInv ==
    /\ broken \subseteq Kinds
    /\ clock \in 0..MaxClock /\ inserted \in 0..MaxRows /\ faults \in 0..MaxFaults
    /\ IsFiniteSet(rows) /\ Cardinality(rows) <= inserted
    /\ \A r \in rows : r.kind \in Kinds /\ r.created \in 0..clock /\ r.id \in 1..MaxRows

(* The row invariant holds at the start.                                   *)
LEMMA RowInit == Init => RowInv
<1> SUFFICES ASSUME Init PROVE RowInv
  OBVIOUS
<1>1. /\ broken \subseteq Kinds
      /\ clock \in 0..MaxClock /\ inserted \in 0..MaxRows /\ faults \in 0..MaxFaults
  BY RetentionAssumption DEF Init
<1>2. rows = {} /\ inserted = 0
  BY DEF Init
<1>3. QED
  BY <1>1, <1>2, FS_EmptySet DEF RowInv

(* A row that is inserted gets an identity that no row of its kind and     *)
(* time has.                                                               *)
LEMMA IdentityFree ==
  ASSUME RowInv, inserted < MaxRows, NEW k,
         NEW used, used = {r.id : r \in {x \in rows : x.kind = k /\ x.created = clock}}
  PROVE  Min(1..MaxRows \ used) \in 1..MaxRows
<1> DEFINE X == {x \in rows : x.kind = k /\ x.created = clock}
           f == [r \in X |-> r.id]
<1>1. IsFiniteSet(X) /\ Cardinality(X) <= Cardinality(rows)
  <2>1. X \in SUBSET rows /\ IsFiniteSet(rows)
    BY DEF RowInv
  <2> HIDE DEF X
  <2>2. QED
    BY <2>1, FS_Subset
<1>2. IsFiniteSet(used) /\ Cardinality(used) <= Cardinality(X)
  <2>1. f \in Surjection(X, used)
    BY DEF Surjection
  <2> HIDE DEF f, X
  <2>2. QED
    BY <1>1, <2>1, FS_Surjection
<1>3. inserted \in Nat /\ Cardinality(rows) <= inserted /\ MaxRows \in Nat
  BY RetentionAssumption DEF RowInv
<1>4. Cardinality(rows) \in Nat /\ Cardinality(X) \in Nat /\ Cardinality(used) \in Nat
  BY <1>1, <1>2, FS_CardinalityType DEF RowInv
<1>5. IsFiniteSet(1..MaxRows) /\ Cardinality(1..MaxRows) = MaxRows
  <2>1. Cardinality(1..MaxRows) = IF 1 > MaxRows THEN 0 ELSE MaxRows - 1 + 1
    BY <1>3, FS_Interval
  <2>2. QED
    BY <1>3, <2>1, FS_Interval
<1>6. 1..MaxRows \ used # {}
  <2>1. SUFFICES ASSUME 1..MaxRows \in SUBSET used PROVE FALSE
    OBVIOUS
  <2>2. Cardinality(1..MaxRows) <= Cardinality(used)
    BY <1>2, <2>1, FS_Subset
  <2> HIDE DEF X
  <2>3. QED
    BY <1>1, <1>2, <1>3, <1>4, <1>5, <2>2
<1>7. 1..MaxRows \ used \in SUBSET Nat
  BY <1>3
<1>8. Min(1..MaxRows \ used) \in 1..MaxRows \ used
  BY <1>6, <1>7, LeastExists
<1>9. QED
  BY <1>8

(* Every step preserves it.                                                *)
LEMMA RowStep == RowInv /\ [Next]_vars => RowInv'
<1> SUFFICES ASSUME RowInv, [Next]_vars PROVE RowInv'
  OBVIOUS
<1>1. /\ clock \in 0..MaxClock /\ inserted \in 0..MaxRows /\ faults \in 0..MaxFaults
      /\ {MaxClock, MaxRows, MaxFaults} \subseteq Nat
      /\ IsFiniteSet(rows) /\ Cardinality(rows) <= inserted /\ Cardinality(rows) \in Nat
  BY RetentionAssumption, FS_CardinalityType DEF RowInv
<1>2. ASSUME NEW k \in Arriving, Insert(k) PROVE RowInv'
  <2> DEFINE used == {r.id : r \in {x \in rows : x.kind = k /\ x.created = clock}}
             row == [kind |-> k, id |-> Min(1..MaxRows \ used), created |-> clock]
  <2>1. /\ rows' = rows \cup {row} /\ inserted' = inserted + 1 /\ inserted < MaxRows
        /\ UNCHANGED <<broken, clock, faults>>
    BY <1>2 DEF Insert
  <2>2. row.id \in 1..MaxRows
    BY <2>1, IdentityFree
  <2>3. row.kind \in Kinds /\ row.created \in 0..clock
    BY <1>1, RetentionAssumption
  <2> HIDE DEF row
  <2>4. IsFiniteSet(rows') /\ Cardinality(rows') <= Cardinality(rows) + 1 /\ Cardinality(rows') \in Nat
    <3>1. IsFiniteSet(rows \cup {row})
          /\ Cardinality(rows \cup {row}) = IF row \in rows THEN Cardinality(rows) ELSE Cardinality(rows) + 1
      BY <1>1, FS_AddElement
    <3>2. QED
      BY <1>1, <2>1, <3>1
  <2>5. Cardinality(rows') <= inserted' /\ inserted' \in 0..MaxRows
    BY <1>1, <2>1, <2>4
  <2>6. QED
    BY <2>1, <2>2, <2>3, <2>4, <2>5 DEF RowInv
<1>3. CASE Tick
  <2>1. clock' = clock + 1 /\ clock < MaxClock /\ UNCHANGED <<broken, rows, inserted, faults>>
    BY <1>3 DEF Tick
  <2>2. clock' \in 0..MaxClock /\ \A t \in 0..clock : t \in 0..clock'
    BY <1>1, <2>1
  <2>3. QED
    BY <2>1, <2>2 DEF RowInv
<1>4. ASSUME NEW p \in Purgers, Wake(p) PROVE RowInv'
  BY <1>4 DEF Wake, RowInv
<1>5. ASSUME NEW p \in Purgers, Batch(p) PROVE RowInv'
  <2>1. rows' \in SUBSET rows /\ UNCHANGED <<broken, clock, inserted, faults>>
    BY <1>5 DEF Batch
  <2>2. IsFiniteSet(rows') /\ Cardinality(rows') <= Cardinality(rows) /\ Cardinality(rows') \in Nat
    BY <1>1, <2>1, FS_Subset, FS_CardinalityType
  <2>3. Cardinality(rows') <= inserted
    BY <1>1, <2>2
  <2>4. QED
    BY <2>1, <2>2, <2>3 DEF RowInv
<1>6. ASSUME NEW p \in Purgers, Fail(p) PROVE RowInv'
  <2>1. /\ UNCHANGED <<broken, rows, clock, inserted>>
        /\ faults' = faults \/ (faults < MaxFaults /\ faults' = faults + 1)
    BY <1>6 DEF Fail
  <2>2. faults' \in 0..MaxFaults
    BY <1>1, <2>1
  <2>3. QED
    BY <2>1, <2>2 DEF RowInv
<1>7. CASE UNCHANGED vars
  BY <1>7 DEF vars, RowInv
<1>8. QED
  BY <1>2, <1>3, <1>4, <1>5, <1>6, <1>7 DEF Next

(* The state is well typed: in particular a sweep is always at one of the  *)
(* five tables, below its ceiling of batches, and works with a cutoff that *)
(* is not in the future.                                                   *)
THEOREM TypeCorrect == Spec => []TypeOK
<1>1. SweepInv /\ RowInv => TypeOK
  <2> SUFFICES ASSUME SweepInv, RowInv PROVE TypeOK
    OBVIOUS
  <2>1. ASSUME NEW p \in Purgers, purger[p] # Asleep
        PROVE  /\ purger[p].phase \in DOMAIN Phases
               /\ purger[p].batches \in 0..(MaxBatches - 1)
               /\ purger[p].now \in 0..clock
    <3>1. purger[p] \in Sweeps
      BY <2>1 DEF SweepInv
    <3>2. purger[p].now \in Nat /\ purger[p].now <= clock /\ clock \in Nat
      BY <3>1 DEF Sweeps, SweepInv
    <3>3. DOMAIN Phases = 1..5
      BY DEF Phases
    <3>4. QED
      BY <3>1, <3>2, <3>3 DEF Sweeps
  <2>2. QED
    BY <2>1 DEF TypeOK, SweepInv, RowInv
<1>2. QED
  BY <1>1, SweepInit, SweepStep, RowInit, RowStep, PTL DEF Spec

-----------------------------------------------------------------------------
(* The smaller of two numbers.                                             *)
LEMMA SmallerOfTwo ==
  ASSUME NEW a \in Nat, NEW b \in Nat
  PROVE  Min({a, b}) = IF a <= b THEN a ELSE b
<1>1. Min({a, b}) \in {a, b} /\ \A y \in {a, b} : Min({a, b}) <= y
  BY LeastExists
<1>2. QED
  BY <1>1

(* A statement that ran undisturbed and did not fill its batch deleted     *)
(* everything the phase finds aged.                                        *)
LEMMA ShortBatchClears ==
  ASSUME NEW aged, IsFiniteSet(aged), NEW gone,
         gone \in kSubset(Min({BatchSize, Cardinality(aged)}), aged),
         Min({BatchSize, Cardinality(aged)}) # BatchSize
  PROVE  gone = aged
<1>1. BatchSize \in Nat /\ Cardinality(aged) \in Nat
  BY RetentionAssumption, FS_CardinalityType
<1>2. Min({BatchSize, Cardinality(aged)}) = Cardinality(aged)
  BY <1>1, SmallerOfTwo
<1>3. gone \in SUBSET aged /\ Cardinality(gone) = Cardinality(aged)
  BY <1>2 DEF kSubset
<1>4. QED
  BY <1>3, FS_Subset

(* Where a sweep leaves its phase after n rows: the batch was short, or    *)
(* was the last one.                                                       *)
LEMMA LeavesWhen ==
  ASSUME NEW s \in Sweeps, NEW n,
         AfterBatch(s, n) = Asleep \/ AfterBatch(s, n).phase # s.phase
  PROVE  n # BatchSize \/ s.batches + 1 = MaxBatches
<1>1. SUFFICES ASSUME n = BatchSize, s.batches + 1 # MaxBatches PROVE FALSE
  OBVIOUS
<1>2. s.batches + 1 < MaxBatches
  BY <1>1, RetentionAssumption DEF Sweeps
<1>3. AfterBatch(s, n) = [s EXCEPT !.batches = @ + 1, !.raced = FALSE]
  BY <1>1, <1>2 DEF AfterBatch
<1>4. AfterBatch(s, n).phase = s.phase /\ AfterBatch(s, n).pc = "sweep"
  BY <1>3 DEF Sweeps
<1>5. QED
  BY <1>4 DEF Asleep

(* A sweep leaves a table with aged rows in it only when its batches are   *)
(* used up, when another replica took rows from under its statement, or    *)
(* when a statement failed: for every policy, batch size, ceiling and      *)
(* number of replicas (purge.go:276).                                      *)
THEOREM TablesLeftClean == Spec => LeavesTableClean
<1>1. SweepInv /\ RowInv /\ [Next]_vars =>
        [\A p \in Purgers :
           LET s == purger[p]
           IN  s.pc = "sweep" /\ (purger'[p] = Asleep \/ purger'[p].phase # s.phase) =>
                  \/ {r \in rows' : Covers(Phases[s.phase], r.kind) /\ r.created + Window(Phases[s.phase]) < s.now} = {}
                  \/ s.batches + 1 = MaxBatches
                  \/ s.raced
                  \/ Phases[s.phase] \in broken \/ faults' > faults]_vars
  <2> DEFINE Left(s) == {r \in rows' : /\ Covers(Phases[s.phase], r.kind)
                                       /\ r.created + Window(Phases[s.phase]) < s.now}
  <2> SUFFICES ASSUME SweepInv, RowInv, Next, NEW p \in Purgers,
                      purger[p].pc = "sweep",
                      purger'[p] = Asleep \/ purger'[p].phase # purger[p].phase
               PROVE  \/ Left(purger[p]) = {}
                      \/ purger[p].batches + 1 = MaxBatches
                      \/ purger[p].raced
                      \/ Phases[purger[p].phase] \in broken \/ faults' > faults
    OBVIOUS
  <2> DEFINE s == purger[p]
             aged == Aged(Phases[s.phase], s.now)
  <2>1. s \in Sweeps /\ s # Asleep
    BY DEF SweepInv, Asleep
  <2>2. purger'[p] # s
    BY <2>1
  <2>3. CASE Batch(p)
    <3>1. SUFFICES ASSUME ~s.raced, s.batches + 1 # MaxBatches PROVE Left(s) = {}
      OBVIOUS
    <3> DEFINE want == Min({BatchSize, Cardinality(aged)})
    <3>2. PICK gone \in kSubset(want, aged) : rows' = rows \ gone /\ purger'[p] = AfterBatch(s, want)
      BY <2>3, <3>1 DEF Batch
    <3>3. want # BatchSize
      BY <2>1, <3>1, <3>2, LeavesWhen
    <3>4. IsFiniteSet(aged)
      <4>1. aged \in SUBSET rows /\ IsFiniteSet(rows)
        BY DEF Aged, RowInv
      <4> HIDE DEF aged
      <4>2. QED
        BY <4>1, FS_Subset
    <3>5. gone = aged
      <4> HIDE DEF aged
      <4>1. QED
        BY <3>2, <3>3, <3>4, ShortBatchClears
    <3>6. QED
      BY <3>2, <3>5 DEF Aged
  <2>4. ASSUME NEW q \in Purgers, q # p, Batch(q) PROVE FALSE
    <3>1. purger'[p] = s \/ purger'[p] = [s EXCEPT !.raced = TRUE]
      BY <2>4 DEF Batch
    <3>2. purger'[p].phase = s.phase /\ purger'[p].pc = "sweep"
      BY <2>1, <3>1 DEF Sweeps
    <3>3. QED
      BY <3>2 DEF Asleep
  <2>5. CASE Fail(p)
    <3>1. faults \in Nat
      BY DEF RowInv
    <3>2. QED
      BY <2>5, <3>1 DEF Fail
  <2>6. ASSUME NEW q \in Purgers, q # p, Fail(q) PROVE FALSE
    BY <2>2, <2>6 DEF Fail, SweepInv
  <2>7. ASSUME NEW q \in Purgers, Wake(q) PROVE FALSE
    BY <2>2, <2>7 DEF Wake, SweepInv
  <2>8. (\A k \in Arriving : ~Insert(k)) /\ ~Tick
    BY <2>2 DEF Insert, Tick
  <2>9. QED
    BY <2>3, <2>4, <2>5, <2>6, <2>7, <2>8 DEF Next
<1>2. QED
  BY <1>1, SweepInit, SweepStep, RowInit, RowStep, PTL DEF Spec, LeavesTableClean
=============================================================================
