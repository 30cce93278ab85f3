------------------------------ MODULE LiveProofs ------------------------------
(***************************************************************************)
(* What holds of the scheduler and of the points it has fetched, for every *)
(* table of intervals, every duration of a synchronisation, any number of  *)
(* gameweeks, versions, requests and failures.                             *)
(*                                                                         *)
(* That no policy starves is an argument about who came before: while p is *)
(* overdue by d ticks, d + 1 other policies were attempted one tick after  *)
(* another and are still d, .., 1, 0 ticks old.  Their intervals are too   *)
(* long for them to come round again, and there are only so many enabled.  *)
(***************************************************************************)
EXTENDS LiveFacts, FiniteSetTheorems, TLAPS

-----------------------------------------------------------------------------
(* The scheduler.                                                          *)

Overdue(p) == idle[p] - Interval[p]

\* Of each of the last ticks that p has waited in vain there is an enabled
\* policy that was attempted then.
Queue ==
  Spaced =>
    \A p \in Always \cap Enabled :
      /\ Overdue(p) <= Cardinality(Enabled) - 2
      /\ \A j \in 0 .. Cardinality(Enabled) - 2 :
           j <= Overdue(p) => \E q \in Enabled \ {p} : idle[q] = j

SchedulerInv == SchedulerTypeOK /\ Queue

LEMMA IntervalType ==
  ASSUME NEW p \in Policies
  PROVE  /\ Interval[p] \in Nat /\ Horizon(p) \in Nat /\ Interval[p] <= Horizon(p)
         /\ p \in Always => Horizon(p) = Interval[p] + 4
  BY SchedulerAssumption DEF Horizon

LEMMA WaitedType ==
  ASSUME SchedulerTypeOK, NEW p \in Policies
  PROVE  /\ Waited(p) \in Nat
         /\ Waited(p) <= Horizon(p)
         /\ Waited(p) = idle[p] + 1 \/ (idle[p] = Horizon(p) /\ Waited(p) = Horizon(p))
  BY IntervalType DEF SchedulerTypeOK, Waited

LEMMA TickTypes ==
  ASSUME SchedulerTypeOK, Tick
  PROVE  SchedulerTypeOK'
<1>1. CASE NothingDue
  BY <1>1, WaitedType, IntervalType, SchedulerAssumption DEF NothingDue, SchedulerTypeOK, Accepted, Horizon
<1>2. ASSUME NEW p \in Policies, Attempt(p) PROVE SchedulerTypeOK'
  <2>1. idle' \in [Policies -> Nat] /\ \A q \in Policies : idle'[q] <= Horizon(q)
    BY <1>2, WaitedType, IntervalType DEF Attempt
  <2>2. running' \in 0 .. MaxDuration + 1 /\ started' \in Policies \cup {"none"} /\ faults' \in 0 .. MaxFaults
    BY <1>2, SchedulerAssumption DEF Attempt, StartScopedSync, SchedulerTypeOK, Accepted
  <2> QED
    BY <1>2, <2>1, <2>2 DEF Attempt, SchedulerTypeOK, Horizon
<1> QED
  BY <1>1, <1>2 DEF Tick

\* There are at most five enabled policies.
LEMMA EnabledPolicies ==
  /\ IsFiniteSet(Enabled) /\ Cardinality(Enabled) \in Nat /\ Cardinality(Enabled) <= 5
  /\ Enabled \subseteq Policies
<1> DEFINE Add(S, x) == S \cup {x}
<1>1. ASSUME NEW S, NEW x, x \notin S, IsFiniteSet(S), Cardinality(S) \in Nat
      PROVE  IsFiniteSet(Add(S, x)) /\ Cardinality(Add(S, x)) = Cardinality(S) + 1
  BY <1>1, FS_AddElement
<1> HIDE DEF Add
<1> DEFINE A == Add({}, "finalization")
           B == Add(A, "live")
           C == Add(B, "fixtures")
           D == Add(C, "catalog")
           E == Add(D, "historical-reconciliation")
<1>2. IsFiniteSet(A) /\ Cardinality(A) = 1
  BY <1>1, FS_EmptySet
<1>3. IsFiniteSet(B) /\ Cardinality(B) = 2
  BY <1>1, <1>2, "live" \notin A DEF Add
<1>4. IsFiniteSet(C) /\ Cardinality(C) = 3
  BY <1>1, <1>3, "fixtures" \notin B DEF Add
<1>5. IsFiniteSet(D) /\ Cardinality(D) = 4
  BY <1>1, <1>4, "catalog" \notin C DEF Add
<1>6. IsFiniteSet(E) /\ Cardinality(E) = 5
  BY <1>1, <1>5, "historical-reconciliation" \notin D DEF Add
<1>7. Policies = E
  BY DEF Policies, Add
<1>8. Enabled \subseteq Policies
  BY DEF Enabled
<1> HIDE DEF E
<1>9. IsFiniteSet(Enabled) /\ Cardinality(Enabled) <= 5
  BY <1>6, <1>7, <1>8, FS_Subset
<1> QED
  BY <1>8, <1>9, FS_CardinalityType

\* One tick: whoever was attempted is 0 old, the others one tick older.
LEMMA TickAges ==
  ASSUME SchedulerTypeOK, Tick
  PROVE  /\ NothingDue \/ \E r \in Policies : FirstDue(r) /\ idle'[r] = 0
         /\ \A q \in Policies : idle'[q] = Waited(q) \/ (FirstDue(q) /\ idle'[q] = 0)
  BY DEF Tick, NothingDue, Attempt, SchedulerTypeOK

\* If the other enabled policies were attempted at the last ticks, one at each,
\* p itself is the next: they are not due, and there is nobody else.
LEMMA NobodyElse ==
  ASSUME SchedulerTypeOK, Spaced, NEW p \in Enabled,
         \A j \in 0 .. Cardinality(Enabled) - 2 : \E q \in Enabled \ {p} : idle[q] = j,
         NEW r \in Policies, FirstDue(r)
  PROVE  r = p
<1> DEFINE n == Cardinality(Enabled)
           Old == {q \in Enabled \ {p} : idle[q] \in 0 .. n - 2}
           Age == [q \in Old |-> idle[q]]
<1>1. n \in Nat /\ IsFiniteSet(Enabled) /\ Enabled \subseteq Policies
  BY EnabledPolicies
<1>2. r \in Enabled /\ Interval[r] >= n
  BY IntervalType DEF FirstDue, Due, Enabled, Spaced
<1>3. idle[r] >= n - 1 /\ idle[r] \in Nat
  BY <1>1, <1>2, WaitedType, IntervalType DEF FirstDue, Due, SchedulerTypeOK
<1>4. IsFiniteSet(Enabled \ {p}) /\ Cardinality(Enabled \ {p}) = n - 1 /\ n >= 1
  <2>1. IsFiniteSet(Enabled \ {p}) /\ Cardinality(Enabled \ {p}) = n - 1
    BY <1>1, FS_RemoveElement
  <2>2. Cardinality(Enabled \ {p}) \in Nat
    BY <2>1, FS_CardinalityType
  <2> QED
    BY <1>1, <2>1, <2>2
<1>5. Age \in Surjection(Old, 0 .. n - 2)
  BY DEF Surjection
<1>6. IsFiniteSet(Old)
  <2>1. Old \subseteq Enabled \ {p}
    OBVIOUS
  <2> QED
    BY <1>4, <2>1, FS_Subset
<1>7. n - 1 <= Cardinality(Old)
  <2>1. Cardinality(0 .. n - 2) = n - 1
    BY <1>1, <1>4, FS_Interval
  <2>2. Cardinality(0 .. n - 2) <= Cardinality(Old)
    BY <1>5, <1>6, FS_Surjection
  <2> QED
    BY <2>1, <2>2
<1>8. r \notin Old
  BY <1>1, <1>3
<1>9. ASSUME r # p PROVE FALSE
  <2>1. Old \subseteq (Enabled \ {p}) \ {r} /\ r \in Enabled \ {p}
    BY <1>2, <1>8, <1>9
  <2>2. IsFiniteSet((Enabled \ {p}) \ {r}) /\ Cardinality((Enabled \ {p}) \ {r}) = n - 2
    <3>1. ASSUME NEW S, NEW x \in S, IsFiniteSet(S)
          PROVE  IsFiniteSet(S \ {x}) /\ Cardinality(S \ {x}) = Cardinality(S) - 1
      BY <3>1, FS_RemoveElement
    <3>2. /\ IsFiniteSet((Enabled \ {p}) \ {r})
          /\ Cardinality((Enabled \ {p}) \ {r}) = Cardinality(Enabled \ {p}) - 1
      BY <1>4, <2>1, <3>1
    <3> QED
      BY <1>1, <1>4, <3>2
  <2>3. Cardinality(Old) <= n - 2 /\ Cardinality(Old) \in Nat
    BY <1>6, <2>1, <2>2, FS_Subset, FS_CardinalityType
  <2> QED
    BY <1>1, <1>7, <2>3
<1> QED
  BY <1>9

LEMMA TickQueue ==
  ASSUME SchedulerInv, Tick
  PROVE  Queue'
<1> DEFINE n == Cardinality(Enabled)
<1> SUFFICES ASSUME Spaced, NEW p \in Always \cap Enabled
             PROVE  /\ Overdue(p)' <= n - 2
                    /\ \A j \in 0 .. n - 2 : j <= Overdue(p)' => \E q \in Enabled \ {p} : idle'[q] = j
  BY DEF Queue, Spaced, Enabled
<1> DEFINE d == Overdue(p)
<1>1. /\ p \in Policies /\ p \in Always /\ Interval[p] \in Nat /\ Interval[p] > 0
      /\ idle[p] \in Nat /\ d \in Int
      /\ n \in Nat /\ n <= 5
  BY IntervalType, EnabledPolicies DEF Always, Policies, Enabled, SchedulerInv, SchedulerTypeOK, Overdue
<1>2. /\ d <= n - 2
      /\ \A j \in 0 .. n - 2 : j <= d => \E q \in Enabled \ {p} : idle[q] = j
  BY DEF SchedulerInv, Queue
<1>3. Waited(p) = idle[p] + 1
  BY <1>1, <1>2, WaitedType, IntervalType DEF SchedulerInv, Overdue
<1>4. CASE idle'[p] = 0
  <2>1. Interval[p] >= n
    BY DEF Spaced
  <2>2. Overdue(p)' < 0 /\ Overdue(p)' <= n - 2
    <3>1. Overdue(p)' = 0 - Interval[p]
      BY <1>4 DEF Overdue
    <3>2. n >= 1
      BY <1>1, EnabledPolicies, FS_EmptySet
    <3> QED
      BY <3>1, <3>2, <1>1
  <2> QED
    BY <2>2, <1>1, <1>4 DEF Overdue
<1>5. CASE idle'[p] # 0
  <2>1. idle'[p] = idle[p] + 1 /\ Overdue(p)' = d + 1
    BY <1>1, <1>3, <1>5, TickAges DEF SchedulerInv, Overdue
  <2>2. ASSUME d < -1 PROVE Overdue(p)' < 0
    BY <1>1, <2>1, <2>2
  <2>3. CASE d >= -1
    <3>1. Due(p)
      BY <1>1, <1>3, <2>3 DEF Due, Eligible, Always, Overdue
    <3>2. PICK r \in Policies : FirstDue(r) /\ idle'[r] = 0
      BY <3>1, <1>1, TickAges DEF NothingDue, SchedulerInv
    <3>3. r # p /\ r \in Enabled
      BY <3>2, <1>5, IntervalType DEF FirstDue, Due, Enabled
    <3>4. d <= n - 3
      <4>1. d = n - 2 => r = p
        BY <1>2, <3>2, NobodyElse DEF SchedulerInv
      <4> QED
        BY <1>1, <1>2, <3>3, <4>1
    <3>5. ASSUME NEW j \in 0 .. n - 2, j <= d + 1
          PROVE  \E q \in Enabled \ {p} : idle'[q] = j
      <4>1. CASE j = 0
        BY <3>2, <3>3, <4>1
      <4>2. CASE j > 0
        <5>1. PICK q \in Enabled \ {p} : idle[q] = j - 1
          BY <1>1, <1>2, <3>4, <3>5, <4>2
        <5>2. q \in Policies /\ Interval[q] >= n /\ Interval[q] \in Nat
          BY EnabledPolicies, IntervalType DEF Spaced
        <5>3. Waited(q) = j
          BY <1>1, <5>1, <5>2, WaitedType, IntervalType DEF SchedulerInv
        <5>4. ~FirstDue(q)
          BY <1>1, <5>2, <5>3 DEF FirstDue, Due
        <5>5. idle'[q] = Waited(q)
          BY <5>2, <5>4, TickAges DEF SchedulerInv
        <5> QED
          BY <5>1, <5>3, <5>5
      <4> QED
        BY <4>1, <4>2
    <3> QED
      BY <2>1, <3>4, <3>5, <1>1
  <2>4. CASE d < -1
    <3>1. n >= 1
      BY <1>1, EnabledPolicies, FS_EmptySet
    <3> QED
      BY <1>1, <2>1, <2>2, <2>4, <3>1
  <2> QED
    BY <1>1, <2>3, <2>4
<1> QED
  BY <1>4, <1>5

LEMMA SchedulerInitInv == SchedulerInit => SchedulerInv
<1> SUFFICES ASSUME SchedulerInit PROVE SchedulerInv
  OBVIOUS
<1> USE SchedulerAssumption DEF SchedulerInit
<1>1. SchedulerTypeOK
  BY IntervalType DEF SchedulerTypeOK
<1>2. ASSUME NEW p \in Always \cap Enabled
      PROVE  Overdue(p) = -1 /\ Cardinality(Enabled) >= 1
  <2>1. p \in Policies /\ Interval[p] \in Nat /\ Interval[p] > 0
    BY IntervalType DEF Always, Policies, Enabled
  <2>2. Cardinality(Enabled) >= 1
    BY EnabledPolicies, FS_EmptySet
  <2> QED
    BY <2>1, <2>2 DEF Overdue
<1>3. Queue
  BY <1>2, EnabledPolicies DEF Queue
<1> QED
  BY <1>1, <1>3 DEF SchedulerInv

LEMMA SchedulerNextInv ==
  ASSUME SchedulerInv, [SchedulerNext]_schedulerVars
  PROVE  SchedulerInv'
<1>1. CASE Tick
  BY <1>1, TickTypes, TickQueue DEF SchedulerInv
<1>2. CASE ManualStart
  <2>1. UNCHANGED idle /\ SchedulerTypeOK'
    BY <1>2, SchedulerAssumption DEF ManualStart, SchedulerInv, SchedulerTypeOK, Horizon
  <2> QED
    BY <2>1 DEF SchedulerInv, Queue, Spaced, Enabled, Overdue
<1>3. ASSUME NEW g \in {"none", "open", "finished"}, SyncEnds(g)
      PROVE  SchedulerInv'
  <2>1. UNCHANGED idle /\ SchedulerTypeOK'
    BY <1>3, SchedulerAssumption DEF SyncEnds, SchedulerInv, SchedulerTypeOK, Horizon
  <2> QED
    BY <2>1 DEF SchedulerInv, Queue, Spaced, Enabled, Overdue
<1>4. CASE SyncFails
  <2>1. UNCHANGED idle /\ SchedulerTypeOK'
    BY <1>4, SchedulerAssumption DEF SyncFails, SchedulerInv, SchedulerTypeOK, Horizon
  <2> QED
    BY <2>1 DEF SchedulerInv, Queue, Spaced, Enabled, Overdue
<1>5. CASE UNCHANGED schedulerVars
  <2>1. UNCHANGED idle /\ SchedulerTypeOK'
    BY <1>5 DEF schedulerVars, SchedulerInv, SchedulerTypeOK, Horizon
  <2> QED
    BY <2>1 DEF SchedulerInv, Queue, Spaced, Enabled, Overdue
<1> QED
  BY <1>1, <1>2, <1>3, <1>4, <1>5 DEF SchedulerNext

\* Types of the scheduler, and who was attempted while others waited.
THEOREM SchedulerInvariant == SchedulerSpec => []SchedulerInv
  BY SchedulerInitInv, SchedulerNextInv, PTL DEF SchedulerSpec

\* A policy that is always eligible waits at most one tick beyond its interval
\* for each of the other enabled ones but one, although the frequent ones come
\* first and one is tried per tick (runDue, scheduler.go:60).
THEOREM NoPolicyStarves == SchedulerSpec => []AttemptedInTime
<1>1. SchedulerInv => AttemptedInTime
  <2> SUFFICES ASSUME SchedulerInv, Spaced, NEW p \in Always \cap Enabled
               PROVE  idle[p] <= Interval[p] + Cardinality(Enabled) - 2
    BY DEF AttemptedInTime
  <2>1. /\ p \in Policies /\ Interval[p] \in Nat /\ idle[p] \in Nat
        /\ Overdue(p) <= Cardinality(Enabled) - 2 /\ Cardinality(Enabled) \in Nat
    BY SchedulerAssumption, EnabledPolicies DEF SchedulerInv, SchedulerTypeOK, Queue, Always, Policies
  <2> QED
    BY <2>1 DEF Overdue
<1> QED
  BY <1>1, SchedulerInvariant, PTL

-----------------------------------------------------------------------------
(* The points.                                                             *)

\* A gameweek becomes final only while a synchronisation has it in hand, and
\* nobody else writes its row meanwhile: what that synchronisation has seen
\* of the source stays true, because progress never goes back.
Named == {"fixtures", "live", "check", "write", "apply"}
Timed == {"live", "check", "write"}
Pointed == {"check", "write"}

SourceInv ==
  /\ \A w \in Gameweeks : source.version[w] <= source.changes + 1
  /\ \A w \in Gameweeks : latest[w].final => Settled(w)

SyncInv ==
  /\ sync.pc \in Named =>
       /\ sync.week \in Gameweeks /\ sync.current \in Gameweeks
       /\ sync.progress <= source.progress[sync.week]
       /\ latest[sync.week].final => sync.progress = Checked \/ sync.week \in source.declared
  /\ sync.pc \in Timed =>
       /\ latest[sync.week].final => sync.over
       /\ sync.over => source.progress[sync.week] >= Over
  /\ sync.pc \in Pointed =>
       /\ sync.version >= 1
       /\ latest[sync.week].final => sourceFinished
       /\ sync.declared => sync.week \in source.declared
  /\ sync.pc = "write" => (sync.unchanged <=> latest[sync.week].version = sync.version)

LiveInv == TypeOK /\ SourceInv /\ SyncInv

\* The step of a synchronisation on the scheduler's side.
LEMMA SchedulerSide ==
  ASSUME TypeOK, Next
  PROVE  [SchedulerNext]_schedulerVars /\ SchedulerTypeOK'
<1>1. SchedulerTypeOK
  BY DEF TypeOK
<1>2. ASSUME NEW g \in {"none", "open", "finished"}, SyncEnds(g)
      PROVE  SchedulerNext /\ SchedulerTypeOK'
  BY <1>1, <1>2, SchedulerAssumption DEF SchedulerNext, SyncEnds, SchedulerTypeOK, Horizon
<1>11. CASE SyncFails
  BY <1>1, <1>11, SchedulerAssumption DEF SchedulerNext, SyncFails, SchedulerTypeOK, Horizon
<1>3. CASE UNCHANGED schedulerVars
  BY <1>1, <1>3 DEF schedulerVars, SchedulerTypeOK, Horizon
<1>4. CASE Tick
  BY <1>1, <1>4, TickTypes DEF SchedulerNext
<1>5. CASE ManualStart
  BY <1>1, <1>5, SchedulerAssumption DEF SchedulerNext, ManualStart, SchedulerTypeOK, Horizon
<1>6. ASSUME NEW w \in Gameweeks, Score(w) \/ MoveOn(w) \/ Declare(w)
      PROVE  UNCHANGED schedulerVars
  BY <1>6 DEF Score, MoveOn, Declare, OnlySource
<1>7. CASE NextEvent
  BY <1>3, <1>7 DEF NextEvent, OnlySource
<1>8. CASE TimeStep
  BY <1>4, <1>8 DEF TimeStep, IdleTick, ScheduledStart, Tick
<1>9. ASSUME NEW live \in BOOLEAN, NEW w \in {0} \cup Gameweeks, PersonStarts(live, w)
      PROVE  ManualStart
  BY <1>9 DEF PersonStarts
<1>10. CASE SyncStep
  <2>1. CASE ApplySnapshot
    <3>1. PICK g \in {"none", "open", "finished"} : SyncEnds(g)
      BY <2>1 DEF ApplySnapshot, Seen
    <3> QED
      BY <3>1, <1>2
  <2>2. CASE FailSync
    BY <2>2, <1>11 DEF FailSync
  <2>3. CASE FetchCatalog \/ FetchFixtures \/ FetchEventLive \/ LiveGameweekFactsUnchanged \/ UpsertLiveGameweek
    BY <2>3, <1>3 DEF FetchCatalog, FetchFixtures, FetchEventLive, LiveGameweekFactsUnchanged,
                      UpsertLiveGameweek, Same
  <2> QED
    BY <2>1, <2>2, <2>3, <1>10 DEF SyncStep
<1> QED
  BY <1>3, <1>5, <1>6, <1>7, <1>8, <1>9, <1>10 DEF Next

LEMMA LiveInitInv == Init => LiveInv
<1> SUFFICES ASSUME Init PROVE LiveInv
  OBVIOUS
<1>1. SchedulerTypeOK
  BY SchedulerInitInv DEF Init, SchedulerInv
<1>2. TypeOK
  BY <1>1, LiveAssumption DEF Init, TypeOK, NoPoints, NoSync, Gameweeks, Progress
<1>3. SourceInv
  BY LiveAssumption DEF Init, SourceInv, NoPoints, Gameweeks
<1>4. SyncInv
  BY DEF Init, SyncInv, NoSync, Named, Timed, Pointed
<1> QED
  BY <1>2, <1>3, <1>4 DEF LiveInv

\* The source gains versions and progress; what was seen of it stays a lower
\* bound, and what was checked stays checked.
LEMMA SourceSteps ==
  ASSUME LiveInv, NEW w \in Gameweeks, Score(w) \/ MoveOn(w) \/ Declare(w) \/ NextEvent
  PROVE  LiveInv'
<1> USE LiveAssumption
<1>1. UNCHANGED <<schedulerVars, known, latest, facts, sync>>
  BY DEF Score, MoveOn, Declare, NextEvent, OnlySource
<1>2. TypeOK' /\ \A v \in Gameweeks : source'.version[v] <= source'.changes + 1
  <2>1. SchedulerTypeOK'
    BY <1>1 DEF LiveInv, TypeOK, SchedulerTypeOK, schedulerVars, Horizon
  <2>2. CASE Score(w)
    <3>1. /\ source'.current = source.current /\ source'.progress = source.progress
          /\ source'.version = [source.version EXCEPT ![w] = @ + 1]
          /\ source'.changes = source.changes + 1
          /\ source' \in [current : {source.current}, progress : {source.progress},
                          declared : {source.declared}, version : {source'.version}, changes : {source'.changes}]
      BY <2>2 DEF Score, LiveInv, TypeOK
    <3>2. source'.changes \in 0 .. MaxVersion
      BY <3>1, <2>2 DEF Score, LiveInv, TypeOK
    <3>3. source'.version \in [Gameweeks -> 1 .. MaxVersion + 1]
      BY <3>1, <2>2 DEF Score, LiveInv, TypeOK, SourceInv
    <3>4. \A v \in Gameweeks : source'.version[v] <= source'.changes + 1
      BY <3>1 DEF LiveInv, TypeOK, SourceInv
    <3> QED
      BY <1>1, <2>1, <3>1, <3>2, <3>3, <3>4 DEF LiveInv, TypeOK
  <2>3. CASE MoveOn(w)
    BY <2>1, <2>3, <1>1 DEF MoveOn, LiveInv, TypeOK, SourceInv, Progress, Checked
  <2>4. CASE NextEvent
    <3>1. source.current + 1 \in Gameweeks
      <4>1. source.current \in Gameweeks
        BY DEF LiveInv, TypeOK
      <4> QED
        BY <4>1, <2>4 DEF NextEvent, Gameweeks
    <3>2. /\ source' = [source EXCEPT !.current = source.current + 1]
          /\ source'.version = source.version /\ source'.changes = source.changes
      BY <2>4 DEF NextEvent, LiveInv, TypeOK
    <3> QED
      BY <2>1, <3>1, <3>2, <1>1 DEF LiveInv, TypeOK, SourceInv
  <2>5. CASE Declare(w)
    BY <2>1, <2>5, <1>1 DEF Declare, LiveInv, TypeOK, SourceInv
  <2> QED
    BY <2>2, <2>3, <2>4, <2>5
<1>3. \A v \in Gameweeks : /\ source.progress[v] \in 0 .. Checked
                           /\ source'.progress[v] \in 0 .. Checked
                           /\ source.progress[v] <= source'.progress[v]
  <2>1. \A v \in Gameweeks : source.progress[v] \in 0 .. Checked
    BY DEF LiveInv, TypeOK, Progress, Checked
  <2>2. CASE source'.progress = source.progress
    BY <2>1, <2>2 DEF Checked
  <2>3. CASE MoveOn(w)
    <3>1. /\ source'.progress = [source.progress EXCEPT ![w] = source.progress[w] + 1]
          /\ source.progress[w] < Checked
      BY <2>3 DEF MoveOn, LiveInv, TypeOK
    <3>2. source.progress \in [Gameweeks -> Progress]
      BY DEF LiveInv, TypeOK
    <3> QED
      BY <2>1, <3>1, <3>2 DEF Checked
  <2>4. Score(w) \/ Declare(w) \/ NextEvent => source'.progress = source.progress
    BY DEF Score, Declare, NextEvent, LiveInv, TypeOK
  <2> QED
    BY <2>2, <2>3, <2>4
<1>4. source.declared \subseteq source'.declared
  <2>1. source'.declared = source.declared \/ source'.declared = source.declared \cup {w}
    BY DEF Score, MoveOn, Declare, NextEvent, LiveInv, TypeOK
  <2> QED
    BY <2>1
<1>5. \A v \in Gameweeks : Settled(v) => Settled(v)'
  BY <1>3, <1>4 DEF Settled, Over, Checked
<1>6. SourceInv'
  BY <1>1, <1>2, <1>5 DEF LiveInv, SourceInv
<1>7. SyncInv'
  <2>1. sync.progress \in 0 .. Checked
    BY DEF LiveInv, TypeOK, Progress, Checked
  <2>2. sourceFinished' = sourceFinished
    BY <1>1 DEF sourceFinished
  <2> QED
    BY <1>1, <1>3, <1>4, <2>1, <2>2 DEF LiveInv, SyncInv, Named, Timed, Pointed, Checked, Over
<1> QED
  BY <1>2, <1>6, <1>7 DEF LiveInv

\* A start forgets what an earlier synchronisation has seen.
LEMMA StartSteps ==
  ASSUME LiveInv, SchedulerTypeOK',
         UNCHANGED <<source, known, latest, facts>>,
         \/ UNCHANGED sync
         \/ sync' = NoSync
         \/ \E live \in BOOLEAN, w \in {0} \cup Gameweeks : sync' = NewSync(live, w)
  PROVE  LiveInv'
<1> DEFINE Rows == [pc : {"idle", "catalog", "fixtures", "live", "check", "write", "apply"}, live : BOOLEAN,
                    week : {0} \cup Gameweeks, current : {0} \cup Gameweeks, progress : Progress,
                    over : BOOLEAN, declared : BOOLEAN, version : 0 .. MaxVersion + 1, unchanged : BOOLEAN]
<1>0. NoSync \in Rows /\ sync \in Rows
  BY LiveAssumption DEF NoSync, LiveInv, TypeOK, Progress
<1>1. /\ sync' \in Rows
      /\ sync' = sync \/ sync'.pc \in {"idle", "catalog"}
  BY <1>0 DEF NewSync, NoSync
<1>2. TypeOK'
  BY <1>1 DEF LiveInv, TypeOK
<1>3. SyncInv'
  <2>1. CASE sync' = sync
    BY <2>1 DEF LiveInv, SyncInv, sourceFinished
  <2>2. CASE sync'.pc \in {"idle", "catalog"}
    BY <2>2 DEF SyncInv, Named, Timed, Pointed
  <2> QED
    BY <1>1, <2>1, <2>2
<1> QED
  BY <1>2, <1>3 DEF LiveInv, SourceInv, Settled

\* What a synchronisation learns of the source is true when it learns it.
LEMMA FetchSteps ==
  ASSUME LiveInv, SchedulerTypeOK', FetchCatalog \/ FetchFixtures \/ FetchEventLive \/ LiveGameweekFactsUnchanged
  PROVE  LiveInv'
<1>1. UNCHANGED <<source, known, latest, facts>>
  BY DEF FetchCatalog, FetchFixtures, FetchEventLive, LiveGameweekFactsUnchanged, Same
<1> USE <1>1, LiveAssumption DEF LiveInv, Checked, Over, Progress
<1>2. CASE FetchCatalog
  <2>1. Asked \in Gameweeks /\ source.current \in Gameweeks
    BY DEF Asked, TypeOK
  <2>2. sync' = [sync EXCEPT !.pc = IF sync.live THEN "fixtures" ELSE "apply", !.current = source.current,
                             !.week = Asked, !.progress = source.progress[Asked]]
    BY <1>2 DEF FetchCatalog
  <2>3. TypeOK'
    BY <2>1, <2>2 DEF TypeOK
  <2>4. /\ sync'.pc \in {"fixtures", "apply"} /\ sync'.week = Asked /\ sync'.current = source.current
        /\ sync'.progress = source.progress[Asked] /\ source.progress[Asked] \in 0 .. 3
    BY <2>1, <2>2 DEF TypeOK
  <2>5. SyncInv'
    BY <2>1, <2>4 DEF SyncInv, SourceInv, Settled, Named, Timed, Pointed
  <2> QED
    BY <2>3, <2>5 DEF SourceInv, Settled
<1>3. CASE FetchFixtures
  <2>1. sync.pc = "fixtures" /\ sync' = [sync EXCEPT !.pc = "live", !.over = source.progress[sync.week] >= Over]
    BY <1>3 DEF FetchFixtures
  <2>2. TypeOK'
    <3>1. (source.progress[sync.week] >= Over) \in BOOLEAN
      OBVIOUS
    <3> QED
      BY <2>1, <3>1 DEF TypeOK
  <2>3. /\ sync'.pc = "live" /\ sync'.week = sync.week /\ sync'.current = sync.current
        /\ sync'.progress = sync.progress /\ (sync'.over <=> source.progress[sync.week] >= Over)
    BY <2>1 DEF TypeOK
  <2>4. SyncInv'
    <3>1. latest[sync.week].final => source.progress[sync.week] >= Over
      BY <2>1 DEF SyncInv, SourceInv, Settled, Named
    <3> QED
      BY <2>1, <2>3, <3>1 DEF SyncInv, Named, Timed, Pointed
  <2> QED
    BY <2>2, <2>4 DEF SourceInv, Settled
<1>4. CASE FetchEventLive
  <2>1. sync.pc = "live" /\ sync' = [sync EXCEPT !.pc = "check", !.version = source.version[sync.week],
                                              !.declared = sync.week \in source.declared]
    BY <1>4 DEF FetchEventLive
  <2>2. /\ sync.week \in Gameweeks /\ source.version[sync.week] \in 1 .. MaxVersion + 1
        /\ source.version[sync.week] \in 0 .. MaxVersion + 1
    BY <2>1 DEF SyncInv, TypeOK, Named
  <2>3. TypeOK'
    <3>1. (sync.week \in source.declared) \in BOOLEAN
      OBVIOUS
    <3> QED
      BY <2>1, <2>2, <3>1 DEF TypeOK
  <2>4. /\ sync'.pc = "check" /\ sync'.week = sync.week /\ sync'.current = sync.current
        /\ sync'.progress = sync.progress /\ sync'.over = sync.over /\ sync'.version >= 1
        /\ (sync'.declared => sync.week \in source.declared)
        /\ (sync.week \in source.declared => sync'.declared)
    <3>1. sync \in [pc : {"idle", "catalog", "fixtures", "live", "check", "write", "apply"}, live : BOOLEAN,
                    week : {0} \cup Gameweeks, current : {0} \cup Gameweeks, progress : Progress,
                    over : BOOLEAN, declared : BOOLEAN, version : 0 .. MaxVersion + 1, unchanged : BOOLEAN]
      BY DEF TypeOK
    <3>2. sync'.pc = "check" /\ sync'.week = sync.week /\ sync'.current = sync.current
          /\ sync'.progress = sync.progress /\ sync'.over = sync.over /\ sync'.version = source.version[sync.week]
      BY ONLY <2>1, <3>1
    <3>3. sync'.declared = (sync.week \in source.declared)
      BY ONLY <2>1, <3>1
    <3>4. /\ sync'.declared => sync.week \in source.declared
          /\ sync.week \in source.declared => sync'.declared
      BY ONLY <3>3, Zenon
    <3>5. sync'.version >= 1
      BY <3>2, <2>2
    <3> QED
      BY ONLY <3>2, <3>4, <3>5, Zenon
  <2>5. SyncInv'
    BY <2>1, <2>4 DEF SyncInv, Named, Timed, Pointed, sourceFinished
  <2> QED
    BY <2>3, <2>5 DEF SourceInv, Settled
<1>5. CASE LiveGameweekFactsUnchanged
  <2>1. /\ sync.pc = "check"
        /\ sync' = [sync EXCEPT !.pc = "write", !.unchanged = latest[sync.week].version = sync.version]
    BY <1>5 DEF LiveGameweekFactsUnchanged
  <2>2. TypeOK'
    BY <2>1 DEF TypeOK
  <2>3. /\ sync'.pc = "write" /\ sync'.week = sync.week /\ sync'.current = sync.current
        /\ sync'.progress = sync.progress /\ sync'.over = sync.over /\ sync'.version = sync.version
        /\ sync'.declared = sync.declared
        /\ (sync'.unchanged <=> latest[sync.week].version = sync.version)
    BY <2>1 DEF TypeOK
  <2>4. SyncInv'
    BY <2>1, <2>3 DEF SyncInv, Named, Timed, Pointed, sourceFinished
  <2> QED
    BY <2>2, <2>4 DEF SourceInv, Settled
<1> QED
  BY <1>2, <1>3, <1>4, <1>5

\* The row is final if the synchronisation saw the gameweek finished and over.
LEMMA WriteStep ==
  ASSUME LiveInv, SchedulerTypeOK', UpsertLiveGameweek
  PROVE  LiveInv'
<1> DEFINE row == [version |-> sync.version, final |-> liveFinalized]
           left == [NoSync EXCEPT !.pc = "apply", !.live = TRUE, !.week = sync.week, !.current = sync.current,
                                  !.progress = sync.progress]
           Rows == [pc : {"idle", "catalog", "fixtures", "live", "check", "write", "apply"}, live : BOOLEAN,
                    week : {0} \cup Gameweeks, current : {0} \cup Gameweeks, progress : Progress,
                    over : BOOLEAN, declared : BOOLEAN, version : 0 .. MaxVersion + 1, unchanged : BOOLEAN]
<1> USE LiveAssumption DEF LiveInv
<1>1. /\ sync.pc = "write" /\ sync.week \in Gameweeks /\ sync.current \in Gameweeks
      /\ latest' = [latest EXCEPT ![sync.week] = row]
      /\ facts' = [facts EXCEPT ![sync.week] = @ \cup {liveFinalized}]
      /\ sync' = left
      /\ UNCHANGED <<source, known>>
  BY DEF UpsertLiveGameweek, SyncInv, Named
<1>2. /\ liveFinalized \in BOOLEAN
      /\ liveFinalized => sourceFinished /\ sync.over
      /\ sync.version \in 1 .. MaxVersion + 1
  <2>1. sync.over \in BOOLEAN /\ sync.unchanged \in BOOLEAN /\ sync.declared \in BOOLEAN
        /\ sync.version \in 0 .. MaxVersion + 1
    BY DEF TypeOK
  <2>2. sync.version >= 1
    BY <1>1 DEF SyncInv, Pointed
  <2>3. liveFinalized \in BOOLEAN
    BY <2>1 DEF liveFinalized, sourceFinished
  <2>4. liveFinalized => sourceFinished /\ sync.over
    BY DEF liveFinalized
  <2> QED
    BY <2>1, <2>2, <2>3, <2>4
<1>3. row \in [version : 1 .. MaxVersion + 1, final : BOOLEAN]
  BY <1>2
<1>4. TypeOK'
  <2>1. latest' \in [Gameweeks -> [version : 0 .. MaxVersion + 1, final : BOOLEAN]]
    BY <1>1, <1>3 DEF TypeOK
  <2>2. facts' \in [Gameweeks -> SUBSET BOOLEAN]
    BY <1>1, <1>2 DEF TypeOK
  <2>3. sync' \in Rows
    <3>1. sync.progress \in Progress
      BY DEF TypeOK
    <3>2. NoSync \in Rows
      BY DEF NoSync, Progress
    <3> QED
      BY <1>1, <3>1, <3>2
  <2> QED
    BY <1>1, <2>1, <2>2, <2>3 DEF TypeOK
<1>5. liveFinalized => Settled(sync.week) /\ (sync.progress = Checked \/ sync.week \in source.declared)
  <2>1. sync.progress \in Progress /\ source.progress[sync.week] \in Progress
    BY <1>1 DEF TypeOK
  <2>2. /\ sync.progress <= source.progress[sync.week]
        /\ sync.over => source.progress[sync.week] >= Over
        /\ sync.declared => sync.week \in source.declared
    BY <1>1 DEF SyncInv, Named, Timed, Pointed
  <2>3. sync.progress = Checked => source.progress[sync.week] = Checked
    BY <2>1, <2>2 DEF Progress, Checked
  <2> QED
    BY <1>2, <2>2, <2>3 DEF sourceFinished, Settled
<1>6. /\ latest'[sync.week].final = liveFinalized
      /\ \A w \in Gameweeks \ {sync.week} : latest'[w] = latest[w]
  BY <1>1 DEF TypeOK
<1>7. SourceInv'
  BY <1>1, <1>5, <1>6 DEF SourceInv, Settled
<1>8. sync'.pc = "apply" /\ sync'.week = sync.week /\ sync'.current = sync.current /\ sync'.progress = sync.progress
  BY <1>1 DEF NoSync
<1>9. SyncInv'
  BY <1>1, <1>5, <1>6, <1>8 DEF SyncInv, Named, Timed, Pointed
<1> QED
  BY <1>4, <1>7, <1>9

LEMMA LiveNextInv ==
  ASSUME LiveInv, [Next]_vars
  PROVE  LiveInv'
<1>1. CASE UNCHANGED vars
  BY <1>1 DEF vars, LiveInv, TypeOK, SchedulerTypeOK, Horizon, SourceInv, Settled, SyncInv, sourceFinished
<1>2. CASE Next
  <2>1. SchedulerTypeOK'
    BY <1>2, SchedulerSide DEF LiveInv
  <2>2. ASSUME NEW w \in Gameweeks, Score(w) \/ MoveOn(w) \/ Declare(w)
        PROVE  LiveInv'
    BY <2>2, SourceSteps
  <2>3. CASE NextEvent
    <3>1. 1 \in Gameweeks
      BY LiveAssumption DEF Gameweeks
    <3> QED
      BY <2>3, <3>1, SourceSteps
  <2>4. CASE IdleTick
    BY <2>1, <2>4, StartSteps DEF IdleTick, liveVars
  <2>5. ASSUME NEW p \in Policies, ScheduledStart(p)
        PROVE  LiveInv'
    <3>1. known \in {0} \cup Gameweeks
      BY DEF LiveInv, TypeOK
    <3> QED
      BY <2>1, <2>5, <3>1, StartSteps, (p \in {"finalization", "live"}) \in BOOLEAN DEF ScheduledStart
  <2>6. ASSUME NEW live \in BOOLEAN, NEW w \in {0} \cup Gameweeks, PersonStarts(live, w)
        PROVE  LiveInv'
    BY <2>1, <2>6, StartSteps DEF PersonStarts
  <2>7. CASE FetchCatalog \/ FetchFixtures \/ FetchEventLive \/ LiveGameweekFactsUnchanged
    BY <2>1, <2>7, FetchSteps
  <2>8. CASE UpsertLiveGameweek
    BY <2>1, <2>8, WriteStep
  <2>9. CASE ApplySnapshot
    <3>1. /\ known' \in {0} \cup Gameweeks /\ sync' = NoSync
          /\ UNCHANGED <<source, latest, facts>>
      BY <2>9 DEF ApplySnapshot, LiveInv, TypeOK
    <3>2. TypeOK'
      BY <2>1, <3>1, LiveAssumption DEF LiveInv, TypeOK, NoSync, Progress
    <3> QED
      BY <3>1, <3>2 DEF LiveInv, SourceInv, Settled, SyncInv, NoSync, Named, Timed, Pointed
  <2>10. CASE FailSync
    <3>1. sync' = NoSync /\ UNCHANGED <<source, known, latest, facts>>
      BY <2>10 DEF FailSync
    <3>2. TypeOK'
      BY <2>1, <3>1, LiveAssumption DEF LiveInv, TypeOK, NoSync, Progress
    <3> QED
      BY <3>1, <3>2 DEF LiveInv, SourceInv, Settled, SyncInv, NoSync, Named, Timed, Pointed
  <2> QED
    BY <1>2, <2>2, <2>3, <2>4, <2>5, <2>6, <2>7, <2>8, <2>9, <2>10 DEF Next, TimeStep, SyncStep
<1> QED
  BY <1>1, <1>2

-----------------------------------------------------------------------------

\* The inductive invariant: what a synchronisation has seen of the source is
\* still true when it writes.
THEOREM LiveInvariant == Spec => []LiveInv
  BY LiveInitInv, LiveNextInv, PTL DEF Spec

\* The steps of the synchronisations are steps of the scheduler's own module
\* or leave it alone: nothing is started that runDue or the API would not
\* start.
THEOREM LiveUsesScheduler == Spec => UsesScheduler
<1>1. Init => SchedulerInit
  BY DEF Init
<1>2. LiveInv /\ [Next]_vars => [SchedulerNext]_schedulerVars
  BY SchedulerSide DEF LiveInv, vars, schedulerVars
<1> QED
  BY <1>1, <1>2, LiveInvariant, PTL DEF Spec, SchedulerSpec, UsesScheduler

\* Also with synchronisations that do what the API does, no policy that is
\* always eligible is put off for longer than that.
THEOREM AttemptsComeInTime == Spec => []AttemptedInTime
  BY LiveUsesScheduler, NoPolicyStarves, PTL DEF UsesScheduler

\* Who changes the rows of gameweeks, and how.
LEMMA WhoWrites ==
  ASSUME LiveInv, [Next]_vars, NEW w \in Gameweeks, latest'[w] # latest[w]
  PROVE  UpsertLiveGameweek /\ w = sync.week
<1>1. UpsertLiveGameweek \/ UNCHANGED latest
  BY DEF Next, vars, Score, MoveOn, Declare, NextEvent, OnlySource, TimeStep, IdleTick, liveVars, ScheduledStart,
         PersonStarts, SyncStep, FetchCatalog, FetchFixtures, FetchEventLive, LiveGameweekFactsUnchanged,
         Same, ApplySnapshot, FailSync
<1> QED
  BY <1>1 DEF UpsertLiveGameweek, LiveInv, TypeOK

\* liveFinalized (api.go:746): a final gameweek was observed twice with the same
\* points, its fixtures were finished and the source had called it finished, by
\* the event or with the points, however observations, corrections, failures and
\* synchronisations of other gameweeks interleave.
THEOREM FinalMeansConfirmed == Spec => FinalIsConfirmed
<1> DEFINE Confirmed == \A w \in Gameweeks : latest'[w].final =>
                          latest'[w].version = latest[w].version /\ Settled(w)
<1>1. ASSUME LiveInv, [Next]_vars, NEW w \in Gameweeks, latest'[w].final
      PROVE  latest'[w].version = latest[w].version /\ Settled(w)
  <2>1. CASE latest'[w] = latest[w]
    BY <1>1, <2>1 DEF LiveInv, SourceInv
  <2>2. CASE latest'[w] # latest[w]
    <3>1. UpsertLiveGameweek /\ w = sync.week
      BY <1>1, <2>2, WhoWrites
    <3>2. /\ latest'[w].version = sync.version /\ (latest'[w].final => liveFinalized) /\ sync.pc = "write"
          /\ UNCHANGED source
      BY <1>1, <3>1 DEF UpsertLiveGameweek, LiveInv, TypeOK
    <3>3. latest'[w].version = latest[w].version
      BY <1>1, <3>1, <3>2 DEF liveFinalized, LiveInv, SyncInv
    <3>4. LiveInv'
      BY <1>1, LiveNextInv
    <3>5. Settled(w)
      BY <1>1, <3>2, <3>4 DEF LiveInv, SourceInv, Settled
    <3> QED
      BY <3>3, <3>5
  <2> QED
    BY <2>1, <2>2
<1>2. LiveInv /\ [Next]_vars => [Confirmed]_vars
  BY <1>1
<1> QED
  BY <1>2, LiveInvariant, PTL DEF Spec, FinalIsConfirmed

\* UpsertLiveGameweek (repository.go:258): only other points reopen a gameweek
\* that was final.
THEOREM FinalStaysFinal == Spec => FinalUntilCorrected
<1> DEFINE Kept == \A w \in Gameweeks : latest[w].final /\ ~latest'[w].final =>
                     latest'[w].version # latest[w].version
<1>1. ASSUME LiveInv, [Next]_vars, NEW w \in Gameweeks, latest[w].final, ~latest'[w].final
      PROVE  latest'[w].version # latest[w].version
  <2>1. UpsertLiveGameweek /\ w = sync.week
    BY <1>1, WhoWrites
  <2>2. /\ latest'[w].version = sync.version /\ (liveFinalized => latest'[w].final) /\ sync.pc = "write"
    BY <1>1, <2>1 DEF UpsertLiveGameweek, LiveInv, TypeOK
  <2>3. sourceFinished /\ sync.over
    BY <1>1, <2>1, <2>2 DEF LiveInv, SyncInv, Timed, Pointed
  <2>4. ~sync.unchanged
    BY <1>1, <2>2, <2>3 DEF liveFinalized
  <2> QED
    BY <1>1, <2>1, <2>2, <2>4 DEF LiveInv, SyncInv
<1>2. LiveInv /\ [Next]_vars => [Kept]_vars
  BY <1>1
<1> QED
  BY <1>2, LiveInvariant, PTL DEF Spec, FinalUntilCorrected
=============================================================================
