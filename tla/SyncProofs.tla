------------------------------ MODULE SyncProofs ------------------------------
(***************************************************************************)
(* Theorems about SyncQueue, for any scopes, players, workers, number of   *)
(* runs, lease and back-off, and about SyncCoordinator, for any number of  *)
(* tasks, retries and stops, with or without failing statements.           *)
(*                                                                         *)
(* QueueInv is the inductive invariant of the queue.  Exclusive claims and *)
(* claims that stay running are not inductive: recovery takes a row by the *)
(* age of its claim, so the age of a held row has to be bounded by Timeout,*)
(* and Timeout <= Lease then keeps recovery away from it; and the hand-over*)
(* writes the rows of a run that is being inserted, so those rows must not *)
(* exist yet.                                                              *)
(*                                                                         *)
(* The coordinator implements the queue in its open environment (QueueSpec *)
(* of SyncQueue), so the theorems about the queue hold of it.  Only one of *)
(* its steps is not literally a step of the queue: the queue lets time     *)
(* pass while no claim is as old as Timeout, the coordinator while no task *)
(* is.  CrewsAtWork relates the two.                                       *)
(*                                                                         *)
(* Until a retry is requested the store's status is a lock (StoreIsLock)   *)
(* and each task has a run of its own (RunsAreOwn); if the database does   *)
(* not fail either, TriedInv follows the rows of a run while the workers   *)
(* leave one by one.                                                       *)
(***************************************************************************)
EXTENDS SyncCoordinator, TLAPS

HeldClaimsAreYoung ==
  \A w \in Workers : hold[w] # NoClaim => item[hold[w]].age <= Timeout

UnusedRunsAreEmpty == \A k \in Keys : ~Used(k[1]) => item[k].status = "absent"

QueueInv ==
  /\ QueueTypeOK
  /\ UnusedRunsAreEmpty
  /\ ClaimsAreExclusive
  /\ LiveClaimsStayRunning
  /\ HeldClaimsAreYoung

-----------------------------------------------------------------------------
(* The helpers return rows.                                                *)

\* Ageing a counter keeps it within the lease plus one.
LEMMA OlderType ==
  ASSUME NEW a \in 0 .. Lease + 1
  PROVE  Older(a) \in 0 .. Lease + 1
BY QueueAssumption DEF Older

\* The statements turn a work item into a work item.
LEMMA RowTypes ==
  ASSUME NEW x \in ItemRow
  PROVE  /\ Reset(x) \in ItemRow
         /\ Claimed(x) \in ItemRow
         /\ Completed(x) \in ItemRow
         /\ Failed(x) \in ItemRow
<1>1. Smaller(x.attempts + 1, MaxAttempts) \in 0 .. MaxAttempts
  BY QueueAssumption DEF Smaller, ItemRow
<1>2. Smaller(x.attempts * BackoffUnit, BackoffCap) \in 0 .. BackoffCap
  <2>1. x.attempts \in Nat
    BY DEF ItemRow
  <2>2. x.attempts * BackoffUnit \in Nat
    BY <2>1, QueueAssumption
  <2> QED
    BY <2>2, QueueAssumption DEF Smaller
<1> QED
  BY <1>1, <1>2, QueueAssumption DEF Reset, Claimed, Completed, Failed, ItemRow

\* Recovery of abandoned claims returns a table of work items.
LEMMA RequeuedType ==
  ASSUME QueueTypeOK
  PROVE  Requeued \in [Keys -> ItemRow]
BY RowTypes DEF QueueTypeOK, Requeued

\* Recovery of abandoned runs returns a table of runs.
LEMMA RecoveredType ==
  ASSUME QueueTypeOK
  PROVE  Recovered \in [RunIds -> RunRow]
BY DEF QueueTypeOK, Recovered, RunRow, Terminal

\* Handing open items to a new run returns a table of work items.
LEMMA ResumedType ==
  ASSUME NEW rows \in [RunIds -> RunRow], NEW items \in [Keys -> ItemRow],
         NEW r \in RunIds, NEW s \in Scopes
  PROVE  Resumed(rows, items, r, s) \in [Keys -> ItemRow]
<1> DEFINE Donor(q) == IsLast(q, {d \in RunIds : rows[d].status = "partial" /\ rows[d].scope = s})
           Moves(q, p) == Donor(q) /\ items[<<q, p>>].status \in Claimable
           Row(k) == IF k[1] = r /\ \E q \in RunIds : Moves(q, k[2])
                     THEN items[<<CHOOSE q \in RunIds : Donor(q), k[2]>>]
                     ELSE IF Moves(k[1], k[2]) THEN Absent ELSE items[k]
<1>1. Resumed(rows, items, r, s) = [k \in Keys |-> Row(k)]
  BY DEF Resumed
<1>2. Absent \in ItemRow
  BY QueueAssumption DEF Absent, ItemRow
<1>3. ASSUME NEW k \in Keys PROVE Row(k) \in ItemRow
  <2>1. k[2] \in Players /\ k \in Keys
    BY DEF Keys
  <2>2. CASE k[1] = r /\ \E q \in RunIds : Moves(q, k[2])
    <3>1. \E q \in RunIds : Donor(q)
      BY <2>2
    <3>2. (CHOOSE q \in RunIds : Donor(q)) \in RunIds
      BY <3>1
    <3>3. <<CHOOSE q \in RunIds : Donor(q), k[2]>> \in Keys
      BY <3>2, <2>1 DEF Keys
    <3> QED
      BY <2>2, <3>3
  <2>3. CASE ~(k[1] = r /\ \E q \in RunIds : Moves(q, k[2]))
    BY <2>3, <2>1, <1>2
  <2> QED
    BY <2>2, <2>3
<1> QED
  BY <1>1, <1>3

-----------------------------------------------------------------------------
(* Type correctness.                                                       *)

\* Every reachable state of the two tables and of the workers is well typed.
THEOREM TypeStep == QueueTypeOK /\ [QueueNext]_queueVars => QueueTypeOK'
<1> SUFFICES ASSUME QueueTypeOK, [QueueNext]_queueVars PROVE QueueTypeOK'
  OBVIOUS
<1> USE QueueAssumption
<1>1. ASSUME NEW r \in RunIds, NEW s \in Scopes, StartSyncRun(r, s) PROVE QueueTypeOK'
  <2>1. run' \in [RunIds -> RunRow]
    <3>1. [status |-> "running", scope |-> s, age |-> 0] \in RunRow
      BY DEF RunRow
    <3> QED
      BY <1>1, <3>1, RecoveredType DEF StartSyncRun
  <2>2. item' \in [Keys -> ItemRow]
    BY <1>1, RecoveredType, RequeuedType, ResumedType DEF StartSyncRun
  <2> QED
    BY <1>1, <2>1, <2>2 DEF StartSyncRun, QueueTypeOK
<1>2. ASSUME NEW r \in RunIds, NEW outcome \in Terminal, FinishSyncRun(r, outcome) PROVE QueueTypeOK'
  BY <1>2 DEF FinishSyncRun, QueueTypeOK, RunRow
<1>3. ASSUME NEW r \in RunIds, RetryItems(r) PROVE QueueTypeOK'
  BY <1>3, RowTypes DEF RetryItems, QueueTypeOK
<1>4. ASSUME NEW r \in RunIds, RetryRun(r) PROVE QueueTypeOK'
  BY <1>4 DEF RetryRun, QueueTypeOK, RunRow
<1>5. ASSUME NEW r \in RunIds, NEW P \in (SUBSET Players) \ {{}}, EnqueueSyncWork(r, P) PROVE QueueTypeOK'
  <2>1. NewItem \in ItemRow
    BY DEF NewItem, ItemRow
  <2> QED
    BY <1>5, <2>1 DEF EnqueueSyncWork, QueueTypeOK
<1>6. ASSUME NEW w \in Workers, NEW k \in Keys, ClaimSyncWork(w, k) PROVE QueueTypeOK'
  BY <1>6, RowTypes DEF ClaimSyncWork, QueueTypeOK
<1>7. ASSUME NEW w \in Workers, CompleteSyncWork(w) PROVE QueueTypeOK'
  BY <1>7, RowTypes DEF CompleteSyncWork, QueueTypeOK
<1>8. ASSUME NEW w \in Workers, FailSyncWork(w) PROVE QueueTypeOK'
  BY <1>8, RowTypes DEF FailSyncWork, QueueTypeOK
<1>9. ASSUME NEW W \in (SUBSET Workers) \ {{}}, LoseClaims(W) PROVE QueueTypeOK'
  BY <1>9 DEF LoseClaims, QueueTypeOK
<1>10. ASSUME Tick PROVE QueueTypeOK'
  <2>1. run' \in [RunIds -> RunRow]
    BY <1>10, OlderType DEF Tick, Age, QueueTypeOK, RunRow
  <2>2. item' \in [Keys -> ItemRow]
    <3>1. ASSUME NEW x \in ItemRow
          PROVE  [x EXCEPT !.age = IF x.status = "running" THEN Older(x.age) ELSE x.age,
                           !.wait = IF x.wait = 0 THEN 0 ELSE x.wait - 1] \in ItemRow
      <4>1. (IF x.status = "running" THEN Older(x.age) ELSE x.age) \in 0 .. Lease + 1
        BY OlderType DEF ItemRow
      <4>2. (IF x.wait = 0 THEN 0 ELSE x.wait - 1) \in 0 .. BackoffCap
        BY DEF ItemRow
      <4> QED
        BY <4>1, <4>2 DEF ItemRow
    <3> QED
      BY <1>10, <3>1 DEF Tick, Age, QueueTypeOK
  <2> QED
    BY <1>10, <2>1, <2>2 DEF Tick, Age, QueueTypeOK
<1>11. ASSUME UNCHANGED queueVars PROVE QueueTypeOK'
  BY <1>11 DEF queueVars, QueueTypeOK
<1> QED
  BY <1>1, <1>2, <1>3, <1>4, <1>5, <1>6, <1>7, <1>8, <1>9, <1>10, <1>11 DEF QueueNext

\* The variables keep their types.
THEOREM QueueTypeCorrect == QueueSpec => []QueueTypeOK
<1>1. QueueInit => QueueTypeOK
  BY QueueAssumption DEF QueueInit, QueueTypeOK, RunRow, ItemRow, UnusedRun, Absent
<1> QED
  BY <1>1, TypeStep, PTL DEF QueueSpec

-----------------------------------------------------------------------------
(* Claims.                                                                 *)

\* StartSyncRun leaves every held row alone: it is too young to be requeued,
\* not claimable and not in the run that is inserted.
LEMMA HeldRowSurvivesStart ==
  ASSUME QueueInv, NEW r \in RunIds, NEW s \in Scopes, StartSyncRun(r, s),
         NEW w \in Workers, hold[w] # NoClaim
  PROVE  item'[hold[w]] = item[hold[w]]
<1> DEFINE k == hold[w]
<1>1. k \in Keys /\ item[k] \in ItemRow /\ item[k].status = "running" /\ item[k].age <= Timeout
  BY DEF QueueInv, QueueTypeOK, LiveClaimsStayRunning, HeldClaimsAreYoung
<1>2. ~StaleClaim(k)
  BY <1>1, QueueAssumption DEF StaleClaim, ItemRow
<1>3. Requeued[k] = item[k]
  BY <1>1, <1>2 DEF Requeued
<1>4. k[1] # r
  BY <1>1 DEF QueueInv, UnusedRunsAreEmpty, StartSyncRun, NextRun
<1>5. k = <<k[1], k[2]>>
  BY <1>1 DEF Keys
<1>6. Requeued[k].status \notin Claimable
  BY <1>1, <1>3 DEF Claimable
<1>7. Resumed(Recovered, Requeued, r, s)[k] = Requeued[k]
  BY <1>1, <1>4, <1>5, <1>6 DEF Resumed
<1> QED
  BY <1>3, <1>7 DEF StartSyncRun

\* A run that has been inserted stays inserted.
LEMMA UsedStaysUsed ==
  ASSUME QueueTypeOK, [QueueNext]_queueVars, NEW r \in RunIds, Used(r)
  PROVE  Used(r)'
<1>1. ASSUME NEW q \in RunIds, NEW s \in Scopes, StartSyncRun(q, s) PROVE Used(r)'
  BY <1>1 DEF StartSyncRun, Recovered, QueueTypeOK, RunRow, Used
<1>2. ASSUME NEW q \in RunIds, NEW outcome \in Terminal, FinishSyncRun(q, outcome) PROVE Used(r)'
  BY <1>2 DEF FinishSyncRun, QueueTypeOK, RunRow, Used, Terminal
<1>3. ASSUME NEW q \in RunIds, RetryRun(q) PROVE Used(r)'
  BY <1>3 DEF RetryRun, QueueTypeOK, RunRow, Used
<1>4. ASSUME Tick PROVE Used(r)'
  BY <1>4 DEF Tick, Age, QueueTypeOK, RunRow, Used
<1>5. ASSUME UNCHANGED run PROVE Used(r)'
  BY <1>5 DEF Used
<1> QED
  BY <1>1, <1>2, <1>3, <1>4, <1>5 DEF QueueNext, queueVars, RetryItems, EnqueueSyncWork,
     ClaimSyncWork, CompleteSyncWork, FailSyncWork, LoseClaims

\* The rows of a run that is not inserted do not exist.
LEMMA EmptyStep ==
  ASSUME QueueInv, [QueueNext]_queueVars
  PROVE  UnusedRunsAreEmpty'
<1> SUFFICES ASSUME NEW k \in Keys, ~Used(k[1])' PROVE item'[k].status = "absent"
  BY DEF UnusedRunsAreEmpty
<1>1. k[1] \in RunIds /\ k[2] \in Players /\ k = <<k[1], k[2]>>
  BY DEF Keys
<1>2. ~Used(k[1])
  BY <1>1, UsedStaysUsed DEF QueueInv
<1>3. item[k].status = "absent"
  BY <1>2 DEF QueueInv, UnusedRunsAreEmpty
<1>4. item \in [Keys -> ItemRow] /\ hold \in [Workers -> Keys \cup {NoClaim}]
  BY DEF QueueInv, QueueTypeOK
<1>5. ASSUME NEW r \in RunIds, NEW s \in Scopes, StartSyncRun(r, s) PROVE item'[k].status = "absent"
  <2>1. k[1] # r
    <3>1. SUFFICES ASSUME k[1] = r PROVE FALSE
      OBVIOUS
    <3>2. run'[r].status = "running"
      BY <1>5, RecoveredType DEF StartSyncRun, QueueInv
    <3> QED
      BY <3>1, <3>2 DEF Used
  <2>2. Requeued[k] = item[k]
    BY <1>3 DEF Requeued, StaleClaim
  <2>3. Resumed(Recovered, Requeued, r, s)[k] = item[k]
    BY <1>1, <1>3, <2>1, <2>2 DEF Resumed, Claimable
  <2> QED
    BY <1>3, <1>5, <2>3 DEF StartSyncRun
<1>6. ASSUME NEW r \in RunIds, RetryItems(r) PROVE item'[k].status = "absent"
  BY <1>3, <1>6 DEF RetryItems
<1>7. ASSUME NEW r \in RunIds, NEW P \in (SUBSET Players) \ {{}}, EnqueueSyncWork(r, P)
      PROVE  item'[k].status = "absent"
  BY <1>2, <1>3, <1>7 DEF EnqueueSyncWork
<1>8. ASSUME NEW w \in Workers, NEW j \in Keys, ClaimSyncWork(w, j) PROVE item'[k].status = "absent"
  BY <1>3, <1>4, <1>8 DEF ClaimSyncWork, Ready, Claimable
<1>9. ASSUME NEW w \in Workers, CompleteSyncWork(w) \/ FailSyncWork(w) PROVE item'[k].status = "absent"
  <2>1. hold[w] # k
    BY <1>3, <1>9 DEF CompleteSyncWork, FailSyncWork, QueueInv, LiveClaimsStayRunning
  <2> QED
    BY <1>3, <1>4, <1>9, <2>1 DEF CompleteSyncWork, FailSyncWork
<1>10. ASSUME Tick PROVE item'[k].status = "absent"
  BY <1>3, <1>4, <1>10 DEF Tick, Age, ItemRow
<1>11. ASSUME UNCHANGED item PROVE item'[k].status = "absent"
  BY <1>3, <1>11
<1> QED
  BY <1>5, <1>6, <1>7, <1>8, <1>9, <1>10, <1>11
     DEF QueueNext, queueVars, FinishSyncRun, RetryRun, LoseClaims

\* What every action but a claim does to a row somebody goes on holding:
\* nothing, except that time may pass.
HeldRow(x, y) ==
  /\ y.status = x.status
  /\ y.age = x.age \/ (x.age < Timeout /\ y.age <= x.age + 1)

Claims == ClaimsAreExclusive /\ LiveClaimsStayRunning /\ HeldClaimsAreYoung

\* If the claims that exist afterwards existed before, on rows that were
\* treated well, they are as good as before.
LEMMA ClaimsKept ==
  ASSUME QueueInv, QueueTypeOK',
         \A w \in Workers : hold'[w] = hold[w] \/ hold'[w] = NoClaim,
         \A w \in Workers : hold'[w] # NoClaim => HeldRow(item[hold[w]], item'[hold[w]])
  PROVE  Claims'
<1>1. ASSUME NEW w \in Workers, hold'[w] # NoClaim
      PROVE  /\ hold'[w] = hold[w]
             /\ item'[hold'[w]].status = "running"
             /\ item'[hold'[w]].age <= Timeout
  <2>1. hold'[w] = hold[w] /\ hold[w] # NoClaim /\ hold[w] \in Keys
    BY <1>1 DEF QueueInv, QueueTypeOK
  <2>2. item[hold[w]].status = "running" /\ item[hold[w]].age <= Timeout
    BY <2>1 DEF QueueInv, LiveClaimsStayRunning, HeldClaimsAreYoung
  <2>3. item[hold[w]].age \in Int
    BY <2>1 DEF QueueInv, QueueTypeOK, ItemRow
  <2>4. HeldRow(item[hold[w]], item'[hold[w]])
    BY <1>1
  <2>5. item'[hold[w]].age \in Int
    BY <2>1 DEF QueueTypeOK, ItemRow
  <2> QED
    BY <2>1, <2>2, <2>3, <2>4, <2>5, QueueAssumption DEF HeldRow
<1> QED
  BY <1>1 DEF Claims, ClaimsAreExclusive, LiveClaimsStayRunning, HeldClaimsAreYoung, QueueInv

\* Every step keeps claims exclusive, on running rows, and young.
LEMMA ClaimStep ==
  ASSUME QueueInv, [QueueNext]_queueVars
  PROVE  Claims'
<1>1. hold \in [Workers -> Keys \cup {NoClaim}] /\ item \in [Keys -> ItemRow]
  BY DEF QueueInv, QueueTypeOK
<1> QueueTypeOK'
  BY TypeStep DEF QueueInv
<1>2. \A w \in Workers : hold[w] # NoClaim =>
        hold[w] \in Keys /\ item[hold[w]].status = "running" /\ item[hold[w]] \in ItemRow
  BY <1>1 DEF QueueInv, LiveClaimsStayRunning
<1>3. ASSUME NEW r \in RunIds, NEW s \in Scopes, StartSyncRun(r, s) PROVE Claims'
  <2>1. \A w \in Workers : hold[w] # NoClaim => item'[hold[w]] = item[hold[w]]
    BY <1>3, HeldRowSurvivesStart
  <2>2. hold' = hold
    BY <1>3 DEF StartSyncRun
  <2> QED
    BY <2>1, <2>2, ClaimsKept DEF HeldRow
<1>4. ASSUME NEW r \in RunIds, RetryItems(r) PROVE Claims'
  <2>1. hold' = hold /\ \A w \in Workers : hold[w] # NoClaim => item'[hold[w]] = item[hold[w]]
    BY <1>2, <1>4 DEF RetryItems
  <2> QED
    BY <2>1, ClaimsKept DEF HeldRow
<1>5. ASSUME NEW r \in RunIds, NEW P \in (SUBSET Players) \ {{}}, EnqueueSyncWork(r, P) PROVE Claims'
  <2>1. hold' = hold /\ \A w \in Workers : hold[w] # NoClaim => item'[hold[w]] = item[hold[w]]
    BY <1>2, <1>5 DEF EnqueueSyncWork
  <2> QED
    BY <2>1, ClaimsKept DEF HeldRow
<1>6. ASSUME NEW w \in Workers, NEW k \in Keys, ClaimSyncWork(w, k) PROVE Claims'
  <2>1. \A v \in Workers : hold[v] # k
    BY <1>2, <1>6, QueueAssumption DEF ClaimSyncWork, Ready, Claimable
  <2>2. item' = [item EXCEPT ![k] = Claimed(item[k])] /\ hold' = [hold EXCEPT ![w] = k]
    BY <1>6 DEF ClaimSyncWork
  <2>3. Claimed(item[k]).status = "running" /\ Claimed(item[k]).age = 0
    BY DEF Claimed
  <2>4. hold'[w] = k /\ item'[k].status = "running" /\ item'[k].age = 0
    BY <1>1, <2>2, <2>3
  <2>5. \A v \in Workers : v # w => hold'[v] = hold[v]
    BY <1>1, <2>2
  <2>6. \A v \in Workers : v # w /\ hold[v] # NoClaim => item'[hold[v]] = item[hold[v]]
    BY <1>1, <1>2, <2>1, <2>2
  <2>7. ClaimsAreExclusive'
    BY <2>1, <2>4, <2>5 DEF ClaimsAreExclusive, QueueInv
  <2>8. LiveClaimsStayRunning'
    BY <1>2, <2>4, <2>5, <2>6 DEF LiveClaimsStayRunning
  <2>9. HeldClaimsAreYoung'
    BY <2>4, <2>5, <2>6, QueueAssumption DEF HeldClaimsAreYoung, QueueInv
  <2> QED
    BY <2>7, <2>8, <2>9 DEF Claims
<1>7. ASSUME NEW w \in Workers, CompleteSyncWork(w) \/ FailSyncWork(w) PROVE Claims'
  <2>1. hold' = [hold EXCEPT ![w] = NoClaim] /\ hold[w] # NoClaim
    BY <1>7 DEF CompleteSyncWork, FailSyncWork
  <2>2. ASSUME NEW v \in Workers, v # w, hold[v] # NoClaim PROVE item'[hold[v]] = item[hold[v]]
    <3>1. hold[v] # hold[w]
      BY <2>2 DEF QueueInv, ClaimsAreExclusive
    <3> QED
      BY <1>1, <1>2, <1>7, <2>2, <3>1 DEF CompleteSyncWork, FailSyncWork
  <2>3. \A v \in Workers : hold'[v] # NoClaim => v # w /\ hold'[v] = hold[v]
    BY <1>1, <2>1
  <2> QED
    BY <1>1, <2>1, <2>2, <2>3, ClaimsKept DEF HeldRow
<1>8. ASSUME NEW W \in (SUBSET Workers) \ {{}}, LoseClaims(W) PROVE Claims'
  <2>1. item' = item /\ \A v \in Workers : hold'[v] = hold[v] \/ hold'[v] = NoClaim
    BY <1>1, <1>8 DEF LoseClaims
  <2> QED
    BY <2>1, ClaimsKept DEF HeldRow
<1>9. ASSUME Tick PROVE Claims'
  <2>1. hold' = hold
    BY <1>9 DEF Tick, Age
  <2>2. ASSUME NEW w \in Workers, hold[w] # NoClaim PROVE HeldRow(item[hold[w]], item'[hold[w]])
    <3>1. hold[w] \in Keys /\ item[hold[w]].age < Timeout /\ item[hold[w]].age \in 0 .. Lease + 1
      BY <1>2, <1>9, <2>2 DEF Tick, ItemRow
    <3>2. item'[hold[w]].status = item[hold[w]].status
          /\ item'[hold[w]].age = Older(item[hold[w]].age)
      BY <1>2, <1>9, <2>2, <3>1 DEF Tick, Age, ItemRow
    <3>3. Older(item[hold[w]].age) <= item[hold[w]].age + 1
      BY <3>1, QueueAssumption DEF Older
    <3> QED
      BY <3>1, <3>2, <3>3 DEF HeldRow
  <2> QED
    BY <2>1, <2>2, ClaimsKept
<1>10. ASSUME UNCHANGED <<item, hold>> PROVE Claims'
  BY <1>10, ClaimsKept DEF HeldRow
<1> QED
  BY <1>3, <1>4, <1>5, <1>6, <1>7, <1>8, <1>9, <1>10
     DEF QueueNext, queueVars, FinishSyncRun, RetryRun

\* The invariant holds initially ...
LEMMA InitInv == QueueInit => QueueInv
BY QueueAssumption DEF QueueInit, QueueInv, QueueTypeOK, UnusedRunsAreEmpty, ClaimsAreExclusive,
   LiveClaimsStayRunning, HeldClaimsAreYoung, RunRow, ItemRow, UnusedRun, Absent

\* ... and every step keeps it.
LEMMA InvStep == QueueInv /\ [QueueNext]_queueVars => QueueInv'
BY TypeStep, EmptyStep, ClaimStep DEF QueueInv, Claims

\* The queue keeps its inductive invariant.
THEOREM QueueInvariant == QueueSpec => []QueueInv
BY InitInv, InvStep, PTL DEF QueueSpec

\* Two workers never hold the same work item, however recovery, hand-over,
\* retries and lost workers interleave.
THEOREM ExclusiveClaims == QueueSpec => []ClaimsAreExclusive
<1>1. QueueInv => ClaimsAreExclusive
  BY DEF QueueInv
<1> QED
  BY <1>1, QueueInvariant, PTL

\* The row a live worker holds is running: its lease is never taken from it.
THEOREM LiveClaimsKept == QueueSpec => []LiveClaimsStayRunning
<1>1. QueueInv => LiveClaimsStayRunning
  BY DEF QueueInv
<1> QED
  BY <1>1, QueueInvariant, PTL

-----------------------------------------------------------------------------
(* Finished work.                                                          *)

\* A row in state success stays there, step by step: it is not requeued, not
\* handed over, not re-enqueued, not retried, and nobody holds it.
LEMMA DoneStep ==
  ASSUME QueueInv, [QueueNext]_queueVars, NEW k \in Keys, item[k].status = "success"
  PROVE  item'[k].status = "success"
<1>1. item \in [Keys -> ItemRow] /\ hold \in [Workers -> Keys \cup {NoClaim}]
  BY DEF QueueInv, QueueTypeOK
<1>2. \A w \in Workers : hold[w] # k
  BY QueueAssumption DEF QueueInv, LiveClaimsStayRunning
<1>3. Used(k[1])
  BY DEF QueueInv, UnusedRunsAreEmpty
<1>4. ASSUME NEW r \in RunIds, NEW s \in Scopes, StartSyncRun(r, s) PROVE item'[k].status = "success"
  <2>1. k[1] # r /\ k = <<k[1], k[2]>>
    BY <1>3, <1>4 DEF StartSyncRun, NextRun, Keys
  <2>2. Requeued[k] = item[k]
    BY DEF Requeued, StaleClaim
  <2>3. Resumed(Recovered, Requeued, r, s)[k] = item[k]
    BY <2>1, <2>2 DEF Resumed, Claimable
  <2> QED
    BY <1>4, <2>3 DEF StartSyncRun
<1>5. ASSUME NEW r \in RunIds, RetryItems(r) PROVE item'[k].status = "success"
  BY <1>5 DEF RetryItems
<1>6. ASSUME NEW r \in RunIds, NEW P \in (SUBSET Players) \ {{}}, EnqueueSyncWork(r, P)
      PROVE  item'[k].status = "success"
  BY <1>6 DEF EnqueueSyncWork
<1>7. ASSUME NEW w \in Workers, NEW j \in Keys, ClaimSyncWork(w, j) PROVE item'[k].status = "success"
  BY <1>1, <1>7 DEF ClaimSyncWork, Ready, Claimable
<1>8. ASSUME NEW w \in Workers, CompleteSyncWork(w) \/ FailSyncWork(w) PROVE item'[k].status = "success"
  BY <1>1, <1>2, <1>8 DEF CompleteSyncWork, FailSyncWork
<1>9. ASSUME Tick PROVE item'[k].status = "success"
  BY <1>1, <1>9 DEF Tick, Age, ItemRow
<1>10. ASSUME UNCHANGED item PROVE item'[k].status = "success"
  BY <1>10
<1> QED
  BY <1>4, <1>5, <1>6, <1>7, <1>8, <1>9, <1>10
     DEF QueueNext, queueVars, FinishSyncRun, RetryRun, LoseClaims

\* Completed work is never reopened.
THEOREM CompletedWorkIsFinal == QueueSpec => DoneIsFinal
<1>1. QueueInv /\ [QueueNext]_queueVars
      => [\A k \in Keys : item[k].status = "success" => item'[k].status = "success"]_queueVars
  BY DoneStep
<1> QED
  BY <1>1, QueueInvariant, PTL DEF QueueSpec, DoneIsFinal

\* Claims are sound: the types, one holder per row, and rows that stay running
\* under it.
THEOREM ClaimsSound == QueueSpec => []ClaimsAreSound
<1>1. QueueInv => ClaimsAreSound
  BY DEF QueueInv, ClaimsAreSound
<1> QED
  BY <1>1, QueueInvariant, PTL

-----------------------------------------------------------------------------
(* The hand-over.                                                          *)

\* Runs are inserted one after the other, so a new run is the newest.
NoGaps == \A q, r \in RunIds : Used(r) /\ q < r => Used(q)

LEMMA GapStep ==
  ASSUME QueueTypeOK, NoGaps, [QueueNext]_queueVars
  PROVE  NoGaps'
<1> SUFFICES ASSUME NEW q \in RunIds, NEW r \in RunIds, Used(r)', q < r PROVE Used(q)'
  BY DEF NoGaps
<1>1. CASE Used(r)
  BY <1>1, UsedStaysUsed DEF NoGaps
<1>2. CASE ~Used(r)
  <2>1. \E s \in Scopes : StartSyncRun(r, s)
    <3>1. ASSUME NEW p \in RunIds, NEW s \in Scopes, StartSyncRun(p, s), p # r PROVE FALSE
      BY <1>2, <3>1 DEF StartSyncRun, Recovered, Expired, QueueTypeOK, RunRow, Used
    <3>2. ASSUME NEW p \in RunIds, NEW outcome \in Terminal, FinishSyncRun(p, outcome) PROVE FALSE
      BY <1>2, <3>2 DEF FinishSyncRun, QueueTypeOK, RunRow, Used
    <3>3. ASSUME NEW p \in RunIds, RetryRun(p) PROVE FALSE
      BY <1>2, <3>3 DEF RetryRun, Reopens, QueueTypeOK, RunRow, Used
    <3>4. ASSUME Tick PROVE FALSE
      BY <1>2, <3>4 DEF Tick, Age, QueueTypeOK, RunRow, Used
    <3>5. ASSUME UNCHANGED run PROVE FALSE
      BY <1>2, <3>5 DEF Used
    <3> QED
      BY <3>1, <3>2, <3>3, <3>4, <3>5 DEF QueueNext, queueVars, RetryItems, EnqueueSyncWork,
         ClaimSyncWork, CompleteSyncWork, FailSyncWork, LoseClaims
  <2>2. Used(q)
    BY <2>1 DEF StartSyncRun, NextRun
  <2> QED
    BY <2>2, UsedStaysUsed
<1> QED
  BY <1>1, <1>2

\* The run that gives its open items away, and the rows it gives.
Donor(q, s) == IsLast(q, {d \in RunIds : Recovered[d].status = "partial" /\ Recovered[d].scope = s})
Gives(k, s) == Donor(k[1], s) /\ Requeued[k].status \in Claimable

\* There is one donor at most, and it is not the run that is inserted.
LEMMA OneDonor ==
  ASSUME QueueInv, NEW r \in RunIds, NEW s \in Scopes, StartSyncRun(r, s),
         NEW q \in RunIds, Donor(q, s)
  PROVE  /\ q # r /\ Used(q)
         /\ \A d \in RunIds : Donor(d, s) => d = q
<1>1. Recovered[q].status = "partial"
  BY DEF Donor, IsLast
<1>2. Used(q)
  BY <1>1 DEF Recovered, Expired, Used
<1>3. ~Used(r)
  BY DEF StartSyncRun, NextRun
<1>4. \A d \in RunIds : Donor(d, s) => d <= q /\ q <= d
  BY DEF Donor, IsLast
<1>5. \A d \in RunIds : Donor(d, s) => d = q
  BY <1>4, QueueAssumption DEF RunIds
<1> QED
  BY <1>2, <1>3, <1>5

\* What StartSyncRun leaves of each row.
LEMMA AfterStart ==
  ASSUME QueueInv, NEW r \in RunIds, NEW s \in Scopes, StartSyncRun(r, s)
  PROVE  /\ \A k \in Keys : k[1] # r => item'[k] = IF Gives(k, s) THEN Absent ELSE Requeued[k]
         /\ \A k \in Keys, p \in Players :
              k[2] = p /\ Gives(k, s) => item'[<<r, p>>] = Requeued[k]
         /\ \A p \in Players : (\A k \in Keys : k[2] = p => ~Gives(k, s)) => item'[<<r, p>>] = Requeued[<<r, p>>]
<1> DEFINE Moves(q, p) == Donor(q, s) /\ Requeued[<<q, p>>].status \in Claimable
<1>1. item' = [k \in Keys |->
        IF k[1] = r /\ \E q \in RunIds : Moves(q, k[2])
        THEN Requeued[<<CHOOSE q \in RunIds : Donor(q, s), k[2]>>]
        ELSE IF Moves(k[1], k[2]) THEN Absent ELSE Requeued[k]]
  BY DEF StartSyncRun, Resumed, Donor
<1>2. ASSUME NEW k \in Keys
      PROVE  k[1] \in RunIds /\ k[2] \in Players /\ k = <<k[1], k[2]>> /\ (Moves(k[1], k[2]) <=> Gives(k, s))
  BY DEF Keys, Gives
<1>3. \A q \in RunIds : Donor(q, s) => (CHOOSE d \in RunIds : Donor(d, s)) = q
  BY OneDonor
<1>4. ASSUME NEW k \in Keys, k[1] # r
      PROVE  item'[k] = IF Gives(k, s) THEN Absent ELSE Requeued[k]
  BY <1>1, <1>2, <1>4
<1>5. ASSUME NEW k \in Keys, NEW p \in Players, k[2] = p, Gives(k, s)
      PROVE  item'[<<r, p>>] = Requeued[k]
  <2>1. <<r, p>> \in Keys
    BY DEF Keys
  <2>2. Moves(k[1], p)
    BY <1>2, <1>5
  <2>3. (CHOOSE d \in RunIds : Donor(d, s)) = k[1]
    BY <1>2, <1>3, <2>2
  <2>4. item'[<<r, p>>] = Requeued[<<k[1], p>>]
    BY <1>1, <1>2, <2>1, <2>2, <2>3
  <2> QED
    BY <1>2, <1>5, <2>4
<1>6. ASSUME NEW p \in Players, \A k \in Keys : k[2] = p => ~Gives(k, s)
      PROVE  item'[<<r, p>>] = Requeued[<<r, p>>]
  <2>1. <<r, p>> \in Keys
    BY DEF Keys
  <2>2. \A q \in RunIds : ~Moves(q, p)
    <3> SUFFICES ASSUME NEW q \in RunIds PROVE ~Moves(q, p)
      OBVIOUS
    <3>1. <<q, p>> \in Keys
      BY DEF Keys
    <3> QED
      BY <1>2, <1>6, <3>1
  <2> QED
    BY <1>1, <2>1, <2>2
<1> QED
  BY <1>4, <1>5, <1>6

\* A row that disappears is in the table again, under a newer run of its scope.
LEMMA HandOverStep ==
  ASSUME QueueInv, NoGaps, [QueueNext]_queueVars, NEW k \in Keys,
         item[k].status # "absent", item'[k].status = "absent"
  PROVE  \E r \in RunIds : HandedOver(k, r)
<1>1. item \in [Keys -> ItemRow] /\ hold \in [Workers -> Keys \cup {NoClaim}] /\ run \in [RunIds -> RunRow]
  BY DEF QueueInv, QueueTypeOK
<1>2. k[1] \in RunIds /\ k[2] \in Players /\ k = <<k[1], k[2]>> /\ Used(k[1])
  BY DEF Keys, QueueInv, UnusedRunsAreEmpty
<1>3. ASSUME NEW r \in RunIds, NEW s \in Scopes, StartSyncRun(r, s)
      PROVE  HandedOver(k, r)
  <2>1. k[1] # r /\ k[1] < r
    BY <1>2, <1>3, QueueAssumption DEF StartSyncRun, NextRun, NoGaps, RunIds
  <2>2. Requeued[k].status # "absent" /\ Requeued[k].attempts = item[k].attempts /\ Requeued[k].wait <= item[k].wait
    BY <1>1, QueueAssumption DEF Requeued, Reset, ItemRow
  <2>3. Gives(k, s)
    BY <1>3, <2>1, <2>2, AfterStart
  <2>4. item'[<<r, k[2]>>] = Requeued[k]
    BY <1>2, <1>3, <2>3, AfterStart
  <2>5. Recovered[k[1]].status = "partial" /\ Recovered[k[1]].scope = s
    BY <2>3 DEF Gives, Donor, IsLast
  <2>6. run' = [Recovered EXCEPT ![r] = [status |-> "running", scope |-> s, age |-> 0]]
    BY <1>3 DEF StartSyncRun
  <2>7. Recovered \in [RunIds -> RunRow] /\ Recovered[k[1]].scope = run[k[1]].scope
    BY <1>1, <1>2, RecoveredType DEF Recovered, RunRow, QueueInv
  <2>8. run'[r].status = "running" /\ run'[r].scope = s /\ run'[k[1]] = Recovered[k[1]]
    BY <1>2, <2>1, <2>6, <2>7
  <2> QED
    BY <2>1, <2>2, <2>4, <2>5, <2>7, <2>8 DEF HandedOver
<1>4. ASSUME NEW r \in RunIds, RetryItems(r) PROVE FALSE
  BY <1>4 DEF RetryItems, Reset
<1>5. ASSUME NEW r \in RunIds, NEW P \in (SUBSET Players) \ {{}}, EnqueueSyncWork(r, P) PROVE FALSE
  BY <1>5 DEF EnqueueSyncWork, NewItem
<1>6. ASSUME NEW w \in Workers, NEW j \in Keys, ClaimSyncWork(w, j) PROVE FALSE
  BY <1>1, <1>6 DEF ClaimSyncWork, Claimed
<1>7. ASSUME NEW w \in Workers, CompleteSyncWork(w) \/ FailSyncWork(w) PROVE FALSE
  BY <1>1, <1>7 DEF CompleteSyncWork, FailSyncWork, Completed, Failed
<1>8. ASSUME Tick PROVE FALSE
  BY <1>1, <1>8 DEF Tick, Age, ItemRow
<1>9. ASSUME UNCHANGED item PROVE FALSE
  BY <1>9
<1> QED
  BY <1>3, <1>4, <1>5, <1>6, <1>7, <1>8, <1>9
     DEF QueueNext, queueVars, FinishSyncRun, RetryRun, LoseClaims

LEMMA GapInit == QueueInit => NoGaps
  BY DEF QueueInit, NoGaps, Used, UnusedRun

\* No work is done twice and none is lost: rows leave a run for a newer one of
\* the same scope, with their attempts (repository.go:183).
THEOREM WorkKept == QueueSpec => WorkIsKept
<1> DEFINE Kept == \A k \in Keys : item[k].status # "absent" /\ item'[k].status = "absent"
                                     => \E r \in RunIds : HandedOver(k, r)
<1>1. QueueInv /\ NoGaps /\ [QueueNext]_queueVars => [Kept]_queueVars
  BY HandOverStep
<1>2. QueueInv /\ NoGaps /\ [QueueNext]_queueVars => NoGaps'
  BY GapStep DEF QueueInv
<1>3. QueueSpec => WorkIsHandedOver
  BY <1>1, <1>2, GapInit, QueueInvariant, PTL DEF QueueSpec, WorkIsHandedOver
<1> QED
  BY <1>3, CompletedWorkIsFinal, PTL DEF WorkIsKept
-----------------------------------------------------------------------------
(* The queue implements the ledger of work.                                *)

Open == {k \in Keys : item[k].status \in {"pending", "retryable", "failed"}}
Done == {k \in Keys : item[k].status = "success"}
Lost == {k \in Keys : item[k].status = "running" /\ \A w \in Workers : hold[w] # k}

\* A row that does not exist is a free slot.
LEMMA AbsentIsFree ==
  ASSUME QueueInv, NEW k \in Keys, item[k].status = "absent"
  PROVE  k \in Ledger!Free
BY DEF QueueInv, LiveClaimsStayRunning, Ledger!Free, Ledger!Taken

\* A step that leaves the three sets and the claims alone is a stutter.
LEMMA SameLedger ==
  ASSUME Open' = Open, Done' = Done, Lost' = Lost, hold' = hold
  PROVE  UNCHANGED Ledger!ledgerVars
BY DEF Open, Done, Lost, Ledger!ledgerVars

\* StartSyncRun reopens stale claims, which nobody holds, and moves open rows
\* to rows that did not exist.
LEMMA StartReorganises ==
  ASSUME QueueInv, NEW r \in RunIds, NEW s \in Scopes, StartSyncRun(r, s)
  PROVE  Ledger!Reorganise
<1> DEFINE R == {k \in Keys : StaleClaim(k)}
           Given == {k \in Keys : Gives(k, s)}
           Taken == {j \in Keys : j[1] = r /\ \E k \in Keys : k[2] = j[2] /\ Gives(k, s)}
<1>1. item \in [Keys -> ItemRow] /\ hold' = hold
  BY DEF QueueInv, QueueTypeOK, StartSyncRun
<1>2. ASSUME NEW k \in Keys
      PROVE  /\ k[2] \in Players /\ k = <<k[1], k[2]>>
             /\ Requeued[k].status = IF StaleClaim(k) THEN "pending" ELSE item[k].status
             /\ StaleClaim(k) => item[k].status = "running"
             /\ k[1] = r => item[k].status = "absent"
  <2>1. k[1] = r => item[k].status = "absent"
    BY DEF QueueInv, UnusedRunsAreEmpty, StartSyncRun, NextRun
  <2> QED
    BY <2>1 DEF Keys, Requeued, Reset, StaleClaim
<1>3. R \subseteq Lost
  <2> SUFFICES ASSUME NEW k \in Keys, StaleClaim(k), NEW w \in Workers, hold[w] = k PROVE FALSE
    BY <1>2 DEF Lost
  <2> QED
    BY <1>1, QueueAssumption DEF StaleClaim, QueueInv, HeldClaimsAreYoung, ItemRow
<1>4. Given \subseteq Open \cup R
  BY <1>2 DEF Gives, Claimable, Open
<1>5. Taken \subseteq Ledger!Free
  BY <1>2, AbsentIsFree
<1>6. ASSUME NEW j \in Keys
      PROVE  item'[j].status = IF j \in Taken THEN item'[j].status
                               ELSE IF Gives(j, s) THEN "absent" ELSE Requeued[j].status
  <2>1. CASE j[1] # r
    BY <1>2, <2>1, AfterStart DEF Absent
  <2>2. CASE j[1] = r /\ j \notin Taken
    <3>1. \A k \in Keys : k[2] = j[2] => ~Gives(k, s)
      BY <2>2
    <3>2. item'[<<r, j[2]>>] = Requeued[<<r, j[2]>>]
      BY <1>2, <3>1, AfterStart
    <3> QED
      BY <1>2, <2>2, <3>1, <3>2
  <2> QED
    BY <2>1, <2>2
<1>7. ASSUME NEW j \in Keys, j \in Taken PROVE item'[j].status \in Claimable /\ item[j].status = "absent"
  <2>1. PICK k \in Keys : k[2] = j[2] /\ Gives(k, s)
    BY <1>7
  <2>2. item'[<<r, j[2]>>] = Requeued[k]
    BY <1>2, <2>1, AfterStart
  <2> QED
    BY <1>2, <1>7, <2>1, <2>2 DEF Gives
<1>8. Lost' = Lost \ R
  BY <1>1, <1>2, <1>6, <1>7 DEF Lost, Gives, Claimable
<1>9. Open' = ((Open \cup R) \ Given) \cup Taken
  BY <1>2, <1>6, <1>7 DEF Open, Gives, Claimable
<1>10. Done' = Done
  BY <1>2, <1>6, <1>7 DEF Done, Gives, Claimable
<1>11. R \in SUBSET Lost /\ Given \in SUBSET (Open \cup R) /\ Taken \in SUBSET Ledger!Free
  BY <1>3, <1>4, <1>5
<1> HIDE DEF R, Given, Taken
<1> QED
  BY <1>1, <1>8, <1>9, <1>10, <1>11 DEF Ledger!Reorganise, Open, Done, Lost

\* Every step of the queue is a step of the ledger, or leaves it alone.
LEMMA LedgerStep ==
  ASSUME QueueInv, [QueueNext]_queueVars
  PROVE  [Ledger!Next]_Ledger!ledgerVars
<1>1. item \in [Keys -> ItemRow] /\ hold \in [Workers -> Keys \cup {NoClaim}]
  BY DEF QueueInv, QueueTypeOK
<1>2. \A w \in Workers : hold[w] # NoClaim => hold[w] \in Keys /\ item[hold[w]].status = "running"
  BY <1>1 DEF QueueInv, LiveClaimsStayRunning
<1>3. \A v, w \in Workers : v # w /\ hold[v] # NoClaim => hold[v] # hold[w]
  BY DEF QueueInv, ClaimsAreExclusive
<1>4. ASSUME NEW r \in RunIds, NEW s \in Scopes, StartSyncRun(r, s) PROVE Ledger!Next
  BY <1>4, StartReorganises DEF Ledger!Next
<1>5. ASSUME NEW r \in RunIds, RetryItems(r) PROVE UNCHANGED Ledger!ledgerVars
  <2>1. Open' = Open /\ Done' = Done /\ Lost' = Lost /\ hold' = hold
    BY <1>1, <1>5 DEF RetryItems, Reset, Open, Done, Lost
  <2> QED
    BY <2>1, SameLedger
<1>6. ASSUME NEW r \in RunIds, NEW P \in (SUBSET Players) \ {{}}, EnqueueSyncWork(r, P) PROVE Ledger!Next
  <2> DEFINE S == {k \in Keys : k[1] = r /\ k[2] \in P /\ item[k].status = "absent"}
  <2>1. S \in SUBSET Ledger!Free
    BY AbsentIsFree
  <2>2. Open' = Open \cup S /\ Done' = Done /\ Lost' = Lost /\ hold' = hold
    BY <1>1, <1>6 DEF EnqueueSyncWork, NewItem, Open, Done, Lost
  <2> HIDE DEF S
  <2> QED
    BY <2>1, <2>2 DEF Ledger!Next, Ledger!Add, Open, Done, Lost
<1>7. ASSUME NEW w \in Workers, NEW k \in Keys, ClaimSyncWork(w, k) PROVE Ledger!Next
  <2>1. hold[w] = NoClaim /\ k \in Open /\ hold' = [hold EXCEPT ![w] = k]
    BY <1>7 DEF ClaimSyncWork, Ready, Claimable, Open
  <2>2. /\ item'[k].status = "running"
        /\ \A j \in Keys : j # k => item'[j] = item[j]
    BY <1>1, <1>7 DEF ClaimSyncWork, Claimed
  <2>3. hold'[w] = k /\ \A v \in Workers : v # w => hold'[v] = hold[v]
    BY <1>1, <2>1
  <2>4. Open' = Open \ {k}
    BY <2>2 DEF Open
  <2>5. Done' = Done
    BY <2>1, <2>2 DEF Open, Done
  <2>6. Lost' = Lost
    <3>1. k \notin Lost /\ k \notin Lost'
      BY <2>1, <2>3 DEF Open, Lost
    <3>2. ASSUME NEW j \in Keys, j # k PROVE j \in Lost' <=> j \in Lost
      <4>1. (\A v \in Workers : hold'[v] # j) <=> (\A v \in Workers : hold[v] # j)
        BY <2>1, <2>3, <3>2, QueueAssumption
      <4> QED
        BY <2>2, <3>2, <4>1 DEF Lost
    <3> QED
      BY <3>1, <3>2 DEF Lost
  <2> QED
    BY <2>1, <2>4, <2>5, <2>6 DEF Ledger!Next, Ledger!Take, Open, Done, Lost
<1>8. ASSUME NEW w \in Workers, hold[w] # NoClaim, hold' = [hold EXCEPT ![w] = NoClaim],
             item'[hold[w]].status # "running",
             \A j \in Keys : j # hold[w] => item'[j] = item[j]
      PROVE  Lost' = Lost
  <2>1. hold'[w] = NoClaim /\ \A v \in Workers : v # w => hold'[v] = hold[v]
    BY <1>1, <1>8
  <2>2. hold[w] \notin Lost /\ hold[w] \notin Lost'
    BY <1>8 DEF Lost
  <2>3. ASSUME NEW j \in Keys, j # hold[w] PROVE j \in Lost' <=> j \in Lost
    <3>1. (\A v \in Workers : hold'[v] # j) <=> (\A v \in Workers : hold[v] # j)
      BY <2>1, <2>3, QueueAssumption
    <3> QED
      BY <1>8, <2>3, <3>1 DEF Lost
  <2> QED
    BY <2>2, <2>3 DEF Lost
<1>9. ASSUME NEW w \in Workers, CompleteSyncWork(w) PROVE Ledger!Next
  <2>1. hold[w] # NoClaim /\ hold' = [hold EXCEPT ![w] = NoClaim]
        /\ item'[hold[w]].status = "success"
        /\ \A j \in Keys : j # hold[w] => item'[j] = item[j]
    BY <1>1, <1>2, <1>9 DEF CompleteSyncWork, Completed
  <2>2. Lost' = Lost
    BY <1>8, <2>1
  <2>3. Open' = Open /\ Done' = Done \cup {hold[w]}
    BY <1>2, <2>1 DEF Open, Done
  <2> QED
    BY <2>1, <2>2, <2>3 DEF Ledger!Next, Ledger!Finish, Open, Done, Lost
<1>10. ASSUME NEW w \in Workers, FailSyncWork(w) PROVE Ledger!Next
  <2>1. hold[w] # NoClaim /\ hold' = [hold EXCEPT ![w] = NoClaim]
        /\ item'[hold[w]].status = "retryable"
        /\ \A j \in Keys : j # hold[w] => item'[j] = item[j]
    BY <1>1, <1>2, <1>10 DEF FailSyncWork, Failed
  <2>2. Lost' = Lost
    BY <1>8, <2>1
  <2>3. Open' = Open \cup {hold[w]} /\ Done' = Done
    BY <1>2, <2>1 DEF Open, Done
  <2> QED
    BY <2>1, <2>2, <2>3 DEF Ledger!Next, Ledger!GiveBack, Open, Done, Lost
<1>11. ASSUME NEW W \in (SUBSET Workers) \ {{}}, LoseClaims(W) PROVE Ledger!Next
  <2>1. /\ \A w \in W : hold[w] # NoClaim
        /\ hold' = [w \in Workers |-> IF w \in W THEN NoClaim ELSE hold[w]]
        /\ item' = item
    BY <1>11 DEF LoseClaims
  <2>2. Open' = Open /\ Done' = Done
    BY <2>1 DEF Open, Done
  <2>3. ASSUME NEW k \in Keys PROVE k \in Lost' <=> k \in Lost \/ \E w \in W : hold[w] = k
    <3>1. CASE \E w \in W : hold[w] = k
      <4>1. PICK w \in W : hold[w] = k
        BY <3>1
      <4>2. \A v \in Workers : hold'[v] # k
        BY <1>3, <2>1, <4>1, QueueAssumption
      <4> QED
        BY <1>2, <2>1, <3>1, <4>1, <4>2 DEF Lost
    <3>2. CASE ~\E w \in W : hold[w] = k
      <4>1. (\A v \in Workers : hold'[v] # k) <=> (\A v \in Workers : hold[v] # k)
        BY <2>1, <3>2, QueueAssumption
      <4> QED
        BY <2>1, <3>2, <4>1 DEF Lost
    <3> QED
      BY <3>1, <3>2
  <2>4. \A w \in W : hold[w] \in Keys
    BY <1>2, <2>1
  <2>5. Lost' = Lost \cup {hold[w] : w \in W}
    BY <2>3, <2>4 DEF Lost
  <2> QED
    BY <2>1, <2>2, <2>5 DEF Ledger!Next, Ledger!Vanish, Open, Done, Lost
<1>12. ASSUME Tick PROVE UNCHANGED Ledger!ledgerVars
  <2>1. hold' = hold /\ \A k \in Keys : item'[k].status = item[k].status
    BY <1>1, <1>12 DEF Tick, Age, ItemRow
  <2>2. Open' = Open /\ Done' = Done /\ Lost' = Lost
    BY <2>1 DEF Open, Done, Lost
  <2> QED
    BY <2>1, <2>2, SameLedger
<1>13. ASSUME UNCHANGED <<item, hold>> PROVE UNCHANGED Ledger!ledgerVars
  BY <1>13, SameLedger DEF Open, Done, Lost
<1> QED
  BY <1>4, <1>5, <1>6, <1>7, <1>9, <1>10, <1>11, <1>12, <1>13
     DEF QueueNext, queueVars, FinishSyncRun, RetryRun

\* The durable queue, with its runs, leases, ages and waits, promises what the
\* ledger of work promises: the claims, hand-overs and recoveries of
\* repository.go:136-424 are its steps.
THEOREM QueueImplementsLedger == QueueSpec => ImplementsLedger
<1>1. QueueInit => Ledger!Init
  BY DEF QueueInit, Ledger!Init, Absent
<1> QED
  BY <1>1, LedgerStep, QueueInvariant, PTL DEF QueueSpec, ImplementsLedger, Ledger!Spec

-----------------------------------------------------------------------------
(* The coordinator.                                                         *)

\* Whoever holds a row works for a task that is at least as old as the claim.
CrewsAtWork ==
  \A w \in Workers : hold[w] # NoClaim =>
    \E t \in Tasks : AtWork(t, w) /\ item[hold[w]].age <= task[t].age

\* Tasks and retries that exist have a run; a task that ends has an outcome.
RunsAreKnown ==
  /\ \A t \in Tasks : Live(t) => task[t].run \in RunIds
  /\ \A t \in Tasks : task[t].pc = "finish" => task[t].status \in Terminal
  /\ retry.pc # "none" => retry.run \in RunIds

CoordInv ==
  /\ QueueInv
  /\ TypeOK
  /\ RunsAreKnown
  /\ CrewsAtWork

-----------------------------------------------------------------------------
(* Every step is a step of the queue, or none.                             *)

\* A step of the coordinator is a step of the queue or leaves it alone.
LEMMA StepIsQueueStep ==
  ASSUME CoordInv, [Next]_vars
  PROVE  [QueueNext]_queueVars
<1>1. ASSUME NEW s \in Scopes, Start(s) PROVE QueueNext
  BY <1>1 DEF Start, StartScopedSync, QueueNext
<1>2. ASSUME NEW r \in RunIds, RetryRequest(r) PROVE QueueNext
  BY <1>2 DEF RetryRequest, QueueNext
<1>3. ASSUME RetryStep PROVE [QueueNext]_queueVars
  <2>1. CASE RetryReopens
    BY <2>1 DEF RetryReopens, QueueNext, CoordInv, RunsAreKnown
  <2>2. CASE RetryRefused
    BY <2>2 DEF RetryRefused
  <2>3. CASE \E t \in Tasks : RetryLaunches(t)
    BY <2>3 DEF RetryLaunches
  <2> QED
    BY <1>3, <2>1, <2>2, <2>3 DEF RetryStep
<1>4. ASSUME NEW t \in Tasks, TaskStep(t) PROVE [QueueNext]_queueVars
  <2>1. CASE Begin(t) \/ Fetched(t) \/ StageFails(t) \/ HistoriesDone(t) \/ Persisted(t)
             \/ Publish(t) \/ End(t) \/ Expire(t)
    BY <2>1 DEF Begin, Fetched, StageFails, HistoriesDone, Persisted, Publish, End, Expire
  <2>2. CASE EnqueueHistories(t)
    <3>1. task[t].run \in RunIds
      BY <2>2 DEF EnqueueHistories, CoordInv, RunsAreKnown, Live
    <3>2. EnqueueSyncWork(task[t].run, Players)
      BY <2>2 DEF EnqueueHistories
    <3>3. CASE Players = {}
      <4>1. item' = item
        BY <3>2, <3>3 DEF EnqueueSyncWork, CoordInv, QueueInv, QueueTypeOK
      <4> QED
        BY <4>1, <3>2 DEF EnqueueSyncWork, queueVars
    <3>4. CASE Players # {}
      BY <3>1, <3>2, <3>4 DEF QueueNext
    <3> QED
      BY <3>3, <3>4
  <2>3. CASE FinishRun(t)
    <3>1. task[t].run \in RunIds /\ task[t].status \in Terminal
      BY <2>3 DEF FinishRun, CoordInv, RunsAreKnown, Live
    <3> QED
      BY <2>3, <3>1 DEF FinishRun, QueueNext
  <2>4. CASE WorkerStep(t)
    <3> PICK w \in Crew[t] :
          \/ \E p \in Players : WorkerClaims(t, w, <<task[t].run, p>>)
          \/ WorkerExits(t, w)
          \/ WorkerSucceeds(t, w)
          \/ WorkerFails(t, w)
          \/ WorkerUnreported(t, w)
      BY <2>4 DEF WorkerStep
    <3>0. w \in Workers
      BY CoordinatorAssumption
    <3>1. ASSUME NEW p \in Players, WorkerClaims(t, w, <<task[t].run, p>>) PROVE QueueNext
      <4>1. <<task[t].run, p>> \in Keys
        BY <3>1 DEF WorkerClaims, AtWork, CoordInv, RunsAreKnown, Live, Keys
      <4> QED
        BY <3>0, <3>1, <4>1 DEF WorkerClaims, QueueNext
    <3>2. CASE WorkerExits(t, w)
      BY <3>2 DEF WorkerExits
    <3>3. CASE WorkerSucceeds(t, w) \/ WorkerFails(t, w)
      BY <3>0, <3>3 DEF WorkerSucceeds, WorkerFails, QueueNext
    <3>4. CASE WorkerUnreported(t, w)
      BY <3>0, <3>4 DEF WorkerUnreported, QueueNext
    <3> QED
      BY <3>1, <3>2, <3>3, <3>4
  <2> QED
    BY <1>4, <2>1, <2>2, <2>3, <2>4 DEF TaskStep
<1>5. ASSUME Elapse PROVE QueueNext
  <2>1. ASSUME NEW w \in Workers, hold[w] # NoClaim PROVE item[hold[w]].age < Timeout
    <3>1. PICK t \in Tasks : AtWork(t, w) /\ item[hold[w]].age <= task[t].age
      BY <2>1 DEF CoordInv, CrewsAtWork
    <3>2. task[t].age < Timeout
      BY <1>5, <3>1 DEF Elapse, AtWork, Live
    <3>3. hold[w] \in Keys /\ item[hold[w]].age \in Int /\ task[t].age \in Int
      BY <2>1 DEF CoordInv, TypeOK, QueueTypeOK, ItemRow, TaskRow
    <3> QED
      BY <3>1, <3>2, <3>3, QueueAssumption
  <2> QED
    BY <1>5, <2>1 DEF Elapse, Tick, QueueNext
<1>6. CASE Shutdown \/ Restart
  BY <1>6 DEF Shutdown, Restart
<1>7. ASSUME Forget PROVE [QueueNext]_queueVars
  <2> DEFINE W == {w \in Workers : hold[w] # NoClaim}
  <2>1. LoseClaims(W)
    BY <1>7 DEF Forget
  <2>2. CASE W = {}
    BY <2>1, <2>2 DEF LoseClaims, queueVars, CoordInv, QueueInv, QueueTypeOK
  <2>3. CASE W # {}
    BY <2>1, <2>3 DEF QueueNext
  <2> QED
    BY <2>2, <2>3
<1>8. CASE UNCHANGED vars
  BY <1>8 DEF vars, queueVars
<1> QED
  BY <1>1, <1>2, <1>3, <1>4, <1>5, <1>6, <1>7, <1>8 DEF Next, Exit, Crash
-----------------------------------------------------------------------------
(* Types.                                                                  *)

\* What a step may do to the row of one task.
LEMMA TaskRows ==
  ASSUME NEW x \in TaskRow
  PROVE  /\ \A pc \in Working \cup {"idle", "finish", "end"} : [x EXCEPT !.pc = pc] \in TaskRow
         /\ \A pc \in Working \cup {"idle", "finish", "end"}, status \in StoreStatus :
              [x EXCEPT !.pc = pc, !.status = status] \in TaskRow
         /\ \A ctx \in {"ok", "cancelled", "expired"} : [x EXCEPT !.ctx = ctx] \in TaskRow
         /\ \A bad \in SUBSET Players : [x EXCEPT !.bad = bad] \in TaskRow
         /\ \A age \in 0 .. Timeout : [x EXCEPT !.age = age] \in TaskRow
BY DEF TaskRow

\* A goroutine that does not exist, and one that was just launched.
LEMMA FreshTasks ==
  /\ Idle \in TaskRow
  /\ \A r \in RunIds, s \in Scopes \cup {NoScope} : NewTask(r, s) \in TaskRow
BY QueueAssumption DEF Idle, NewTask, TaskRow, Working, StoreStatus

\* Stages lead to stages.
LEMMA StagesFollow ==
  ASSUME NEW s, NEW stage
  PROVE  After(s, stage) \subseteq Working
BY DEF After, Working

\* The variables of the process keep their types.
LEMMA ProcessTypeStep ==
  ASSUME CoordInv, [Next]_vars
  PROVE  TypeOK'
<1>0. QueueTypeOK'
  BY StepIsQueueStep, TypeStep DEF CoordInv, QueueInv
<1>1. TypeOK /\ task \in [Tasks -> TaskRow] /\ store \in StoreStatus /\ RunsAreKnown
  BY DEF CoordInv, TypeOK
<1> USE <1>0, <1>1
<1>2. ASSUME NEW t \in Tasks, NEW r \in RunIds, NEW s \in Scopes \cup {NoScope}, Launch(t, r, s)
      PROVE  task' \in [Tasks -> TaskRow] /\ exited' \subseteq Workers
  BY <1>2, FreshTasks DEF Launch, TypeOK
<1>3. ASSUME NEW s \in Scopes, Start(s) PROVE TypeOK'
  BY <1>2, <1>3 DEF Start, StartScopedSync, TypeOK, StoreStatus
<1>4. ASSUME NEW r \in RunIds, RetryRequest(r) PROVE TypeOK'
  BY <1>4, CoordinatorAssumption DEF RetryRequest, TypeOK
<1>5. ASSUME RetryStep PROVE TypeOK'
  <2>1. CASE RetryReopens
    BY <2>1 DEF RetryReopens, TypeOK
  <2>2. CASE RetryRefused
    BY <2>2 DEF RetryRefused, TypeOK, NoRetry
  <2>3. ASSUME NEW t \in Tasks, RetryLaunches(t) PROVE TypeOK'
    <3>1. ASSUME NEW r \in RunIds, Latest(r)
          PROVE  run[r].status \in StoreStatus /\ run[r].scope \in Scopes \cup {NoScope}
      <4>1. run[r] \in RunRow /\ run[r].status # "unused"
        BY <3>1 DEF Latest, IsLast, Used, TypeOK, QueueTypeOK
      <4> QED
        BY <4>1 DEF RunRow, StoreStatus
    <3>2. retry.run \in RunIds
      BY <2>3 DEF RetryLaunches, RunsAreKnown
    <3>3. PICK s \in Scopes \cup {NoScope} : Launch(t, retry.run, s)
      BY <2>3, <3>1 DEF RetryLaunches
    <3>4. store' \in StoreStatus
      BY <2>3, <3>1 DEF RetryLaunches, StoreStatus
    <3> QED
      BY <1>2, <2>3, <3>2, <3>3, <3>4 DEF RetryLaunches, TypeOK, NoRetry
  <2> QED
    BY <1>5, <2>1, <2>2, <2>3 DEF RetryStep
<1>6. ASSUME NEW t \in Tasks, TaskStep(t) PROVE TypeOK'
  <2>0. task[t] \in TaskRow
    OBVIOUS
  <2>1. ASSUME task' \in [Tasks -> TaskRow], store' \in StoreStatus, exited' \subseteq Workers,
               UNCHANGED <<phase, retry, retries, stops>>
        PROVE  TypeOK'
    BY <2>1 DEF TypeOK
  <2>2. ASSUME NEW pc \in Working \cup {"idle", "finish", "end"}, To(t, pc)
        PROVE  task' \in [Tasks -> TaskRow]
    BY <2>0, <2>2, TaskRows DEF To
  <2>3. ASSUME NEW pc \in Working \cup {"idle", "finish", "end"}, NEW status \in StoreStatus,
               task' = [task EXCEPT ![t].pc = pc, ![t].status = status]
        PROVE  task' \in [Tasks -> TaskRow]
    BY <2>0, <2>3, TaskRows
  <2>4. task[t].status \in StoreStatus
    BY <2>0 DEF TaskRow
  <2>5. CASE Begin(t)
    BY <2>1, <2>3, <2>5 DEF Begin, OnlyTask, Working, TypeOK
  <2>6. CASE Fetched(t)
    BY <2>1, <2>2, <2>4, <2>6, StagesFollow DEF Fetched, OnlyTask, TypeOK
  <2>7. CASE StageFails(t)
    BY <2>1, <2>3, <2>7 DEF StageFails, OnlyTask, TypeOK, StoreStatus, Terminal
  <2>8. CASE EnqueueHistories(t)
    BY <2>1, <2>2, <2>4, <2>8 DEF EnqueueHistories, OnlyTask, TypeOK, Working
  <2>9. CASE HistoriesDone(t)
    BY <2>1, <2>2, <2>4, <2>9 DEF HistoriesDone, OnlyTask, TypeOK, Working
  <2>10. CASE Persisted(t)
    BY <2>1, <2>2, <2>10 DEF Persisted, OnlyTask, TypeOK, Working
  <2>11. CASE Publish(t)
    BY <2>1, <2>3, <2>11 DEF Publish, OnlyTask, TypeOK, StoreStatus, Terminal
  <2>12. CASE FinishRun(t)
    BY <2>1, <2>2, <2>12 DEF FinishRun, OnlyTask, TypeOK
  <2>13. CASE End(t)
    BY <2>1, <2>13, FreshTasks DEF End, OnlyTask, TypeOK
  <2>14. CASE Expire(t)
    <3>1. task' \in [Tasks -> TaskRow]
      BY <2>0, <2>14, TaskRows DEF Expire
    <3> QED
      BY <2>1, <2>14, <3>1 DEF Expire, OnlyTask, TypeOK
  <2>15. CASE WorkerStep(t)
    <3> PICK w \in Crew[t] :
          \/ \E p \in Players : WorkerClaims(t, w, <<task[t].run, p>>)
          \/ WorkerExits(t, w)
          \/ WorkerSucceeds(t, w)
          \/ WorkerFails(t, w)
          \/ WorkerUnreported(t, w)
      BY <2>15 DEF WorkerStep
    <3>0. w \in Workers
      BY CoordinatorAssumption
    <3>1. ASSUME hold[w] # NoClaim, task' = [task EXCEPT ![t].bad = @ \cup {hold[w][2]}]
          PROVE  task' \in [Tasks -> TaskRow]
      <4>1. hold[w][2] \in Players
        BY <3>0, <3>1 DEF TypeOK, QueueTypeOK, Keys
      <4>2. task[t].bad \cup {hold[w][2]} \in SUBSET Players
        BY <2>0, <4>1 DEF TaskRow
      <4> QED
        BY <2>0, <3>1, <4>2, TaskRows
    <3>2. CASE (\E p \in Players : WorkerClaims(t, w, <<task[t].run, p>>)) \/ WorkerSucceeds(t, w)
      BY <3>2, <2>1 DEF WorkerClaims, WorkerSucceeds, OnlyQueue, TypeOK
    <3>3. CASE WorkerExits(t, w)
      BY <3>0, <3>3, <2>1 DEF WorkerExits, TypeOK
    <3>4. CASE WorkerFails(t, w)
      BY <3>1, <3>4, <2>1 DEF WorkerFails, FailSyncWork, OnlyQueue, TypeOK
    <3>5. CASE WorkerUnreported(t, w)
      BY <3>1, <3>5, <2>1 DEF WorkerUnreported, LoseClaims, OnlyQueue, TypeOK
    <3> QED
      BY <3>2, <3>3, <3>4, <3>5
  <2> QED
    BY <1>6, <2>5, <2>6, <2>7, <2>8, <2>9, <2>10, <2>11, <2>12, <2>13, <2>14, <2>15 DEF TaskStep
<1>7. ASSUME Elapse PROVE TypeOK'
  <2>1. ASSUME NEW t \in Tasks PROVE task'[t] \in TaskRow
    <3>1. CASE Live(t)
      <4>1. task[t].age + 1 \in 0 .. Timeout
        BY <1>7, <3>1, QueueAssumption DEF Elapse, TaskRow
      <4> QED
        BY <1>7, <3>1, <4>1, TaskRows DEF Elapse
    <3>2. CASE ~Live(t)
      BY <1>7, <3>2 DEF Elapse
    <3> QED
      BY <3>1, <3>2
  <2>2. task' \in [Tasks -> TaskRow]
    BY <1>7, <2>1 DEF Elapse
  <2> QED
    BY <1>7, <2>2 DEF Elapse, TypeOK
<1>8. ASSUME Shutdown PROVE TypeOK'
  <2>1. \A t \in Tasks : task'[t] \in TaskRow
    BY <1>8, TaskRows DEF Shutdown
  <2>2. task' \in [Tasks -> TaskRow]
    BY <1>8, <2>1 DEF Shutdown
  <2> QED
    BY <1>8, <2>2, CoordinatorAssumption DEF Shutdown, TypeOK
<1>9. ASSUME Exit \/ Crash PROVE TypeOK'
  <2>1. task' \in [Tasks -> TaskRow]
    BY <1>9, FreshTasks DEF Exit, Crash, Forget
  <2> QED
    BY <1>9, <2>1, CoordinatorAssumption DEF Exit, Crash, Forget, TypeOK, StoreStatus, NoRetry
<1>10. ASSUME Restart PROVE TypeOK'
  BY <1>10 DEF Restart, TypeOK
<1>11. ASSUME UNCHANGED vars PROVE TypeOK'
  BY <1>11 DEF vars, TypeOK
<1> QED
  BY <1>3, <1>4, <1>5, <1>6, <1>7, <1>8, <1>9, <1>10, <1>11 DEF Next
-----------------------------------------------------------------------------
(* Runs and outcomes.                                                      *)

\* Every task keeps a run it can close, and an outcome when it comes to that.
LEMMA RunsStep ==
  ASSUME CoordInv, [Next]_vars
  PROVE  RunsAreKnown'
<1>1. task \in [Tasks -> TaskRow] /\ RunsAreKnown
  BY DEF CoordInv, TypeOK
<1> USE <1>1 DEF RunsAreKnown, Live
<1>2. ASSUME NEW t \in Tasks, NEW r \in RunIds, NEW s, Launch(t, r, s), retry'.pc = "none" \/ retry' = retry
      PROVE  RunsAreKnown'
  BY <1>2 DEF Launch, NewTask
<1>3. ASSUME NEW s \in Scopes, Start(s) PROVE RunsAreKnown'
  BY <1>2, <1>3 DEF Start, StartScopedSync
<1>4. ASSUME NEW r \in RunIds, RetryRequest(r) PROVE RunsAreKnown'
  BY <1>4 DEF RetryRequest
<1>5. ASSUME RetryStep PROVE RunsAreKnown'
  <2>1. CASE RetryReopens
    <3>1. retry'.run = retry.run /\ retry.pc # "none"
      BY <2>1 DEF RetryReopens, CoordInv, TypeOK
    <3> QED
      BY <2>1, <3>1 DEF RetryReopens
  <2>2. CASE RetryRefused
    BY <2>2 DEF RetryRefused, NoRetry
  <2>3. CASE \E t \in Tasks : RetryLaunches(t)
    BY <1>2, <2>3 DEF RetryLaunches, NoRetry
  <2> QED
    BY <1>5, <2>1, <2>2, <2>3 DEF RetryStep
<1>6. ASSUME NEW t \in Tasks, TaskStep(t) PROVE RunsAreKnown'
  <2>1. retry' = retry
    BY <1>6 DEF TaskStep, Begin, Fetched, StageFails, EnqueueHistories, HistoriesDone, Persisted,
       Publish, FinishRun, End, Expire, OnlyTask, WorkerStep, WorkerClaims, WorkerExits,
       WorkerSucceeds, WorkerFails, WorkerUnreported, OnlyQueue
  <2>2. ASSUME NEW pc, Live(t), pc # "finish", To(t, pc) PROVE RunsAreKnown'
    BY <2>1, <2>2 DEF To
  <2>3. ASSUME NEW pc, NEW status, Live(t), pc = "finish" => status \in Terminal,
               task' = [task EXCEPT ![t].pc = pc, ![t].status = status]
        PROVE  RunsAreKnown'
    BY <2>1, <2>3
  <2>4. CASE Begin(t)
    <3>1. task' = [task EXCEPT ![t].pc = "catalog", ![t].status = store] /\ Live(t)
      BY <2>4 DEF Begin
    <3> QED
      BY <2>1, <3>1
  <2>5. CASE Fetched(t)
    <3>1. PICK next \in After(task[t].scope, task[t].pc) : To(t, next)
      BY <2>5 DEF Fetched
    <3>2. next # "finish"
      BY StagesFollow DEF Working
    <3> QED
      BY <2>2, <2>5, <3>1, <3>2 DEF Fetched
  <2>6. CASE StageFails(t)
    BY <2>3, <2>6 DEF StageFails, Terminal
  <2>7. CASE EnqueueHistories(t) \/ HistoriesDone(t) \/ Persisted(t) \/ FinishRun(t)
    BY <2>2, <2>7 DEF EnqueueHistories, HistoriesDone, Persisted, FinishRun
  <2>8. CASE Publish(t)
    BY <2>3, <2>8 DEF Publish, Terminal
  <2>9. CASE End(t)
    BY <2>1, <2>9 DEF End, Idle
  <2>10. CASE Expire(t)
    BY <2>1, <2>10 DEF Expire
  <2>11. CASE WorkerStep(t)
    <3>0. PICK w \in Crew[t] :
            \/ \E p \in Players : WorkerClaims(t, w, <<task[t].run, p>>)
            \/ WorkerExits(t, w)
            \/ WorkerSucceeds(t, w)
            \/ WorkerFails(t, w)
            \/ WorkerUnreported(t, w)
      BY <2>11 DEF WorkerStep
    <3>1. task' = task \/ task' = [task EXCEPT ![t].bad = @ \cup {hold[w][2]}]
      BY <3>0 DEF WorkerClaims, WorkerExits, WorkerSucceeds, WorkerFails, WorkerUnreported
    <3>2. \A u \in Tasks : task'[u].pc = task[u].pc /\ task'[u].run = task[u].run
                            /\ task'[u].status = task[u].status
      <4>1. CASE task' = task
        BY <4>1
      <4>2. CASE task' = [task EXCEPT ![t].bad = @ \cup {hold[w][2]}]
        BY <4>2 DEF TaskRow
      <4> QED
        BY <3>1, <4>1, <4>2
    <3> QED
      BY <2>1, <3>2
  <2> QED
    BY <1>6, <2>4, <2>5, <2>6, <2>7, <2>8, <2>9, <2>10, <2>11 DEF TaskStep
<1>7. CASE Elapse \/ Shutdown
  <2>1. ASSUME NEW u \in Tasks
        PROVE  task'[u].pc = task[u].pc /\ task'[u].run = task[u].run /\ task'[u].status = task[u].status
    <3>1. CASE Elapse
      BY <3>1 DEF Elapse
    <3>2. CASE Shutdown
      BY <3>2 DEF Shutdown
    <3> QED
      BY <1>7, <3>1, <3>2
  <2>2. retry' = retry
    BY <1>7 DEF Elapse, Shutdown
  <2> QED
    BY <2>1, <2>2
<1>8. CASE Exit \/ Crash
  BY <1>8 DEF Exit, Crash, Forget, Idle, NoRetry
<1>9. CASE Restart \/ UNCHANGED vars
  BY <1>9 DEF Restart, vars
<1> QED
  BY <1>3, <1>4, <1>5, <1>6, <1>7, <1>8, <1>9 DEF Next

-----------------------------------------------------------------------------
(* Claims and the age of their tasks.                                      *)

\* Unless time passes, a row that somebody goes on holding does not get older.
LEMMA HeldRowsKept ==
  ASSUME CoordInv, [Next]_vars, ~Elapse, NEW w \in Workers, hold[w] # NoClaim, hold'[w] = hold[w]
  PROVE  item'[hold[w]] = item[hold[w]]
<1>1. /\ QueueInv
      /\ item \in [Keys -> ItemRow]
      /\ hold \in [Workers -> Keys \cup {NoClaim}]
      /\ hold[w] \in Keys
      /\ item[hold[w]].status = "running"
  BY DEF CoordInv, QueueInv, QueueTypeOK, LiveClaimsStayRunning
<1> USE <1>1
<1>2. ASSUME NEW s \in Scopes, Start(s) PROVE item'[hold[w]] = item[hold[w]]
  BY <1>2, HeldRowSurvivesStart DEF Start, StartScopedSync
<1>3. ASSUME NEW r \in RunIds, RetryRequest(r) PROVE item'[hold[w]] = item[hold[w]]
  BY <1>3 DEF RetryRequest, RetryItems
<1>4. ASSUME RetryStep PROVE item'[hold[w]] = item[hold[w]]
  BY <1>4 DEF RetryStep, RetryReopens, RetryRun, RetryRefused, RetryLaunches, queueVars
<1>5. ASSUME NEW t \in Tasks, TaskStep(t) PROVE item'[hold[w]] = item[hold[w]]
  <2>1. CASE Begin(t) \/ Fetched(t) \/ StageFails(t) \/ HistoriesDone(t) \/ Persisted(t)
             \/ Publish(t) \/ End(t) \/ Expire(t)
    BY <2>1 DEF Begin, Fetched, StageFails, HistoriesDone, Persisted, Publish, End, Expire, queueVars
  <2>2. CASE EnqueueHistories(t)
    BY <2>2 DEF EnqueueHistories, EnqueueSyncWork
  <2>3. CASE FinishRun(t)
    BY <2>3 DEF FinishRun, FinishSyncRun, queueVars
  <2>4. CASE WorkerStep(t)
    <3> PICK v \in Crew[t] :
          \/ \E p \in Players : WorkerClaims(t, v, <<task[t].run, p>>)
          \/ WorkerExits(t, v)
          \/ WorkerSucceeds(t, v)
          \/ WorkerFails(t, v)
          \/ WorkerUnreported(t, v)
      BY <2>4 DEF WorkerStep
    <3>0. v \in Workers
      BY CoordinatorAssumption
    <3>1. ASSUME NEW p \in Players, WorkerClaims(t, v, <<task[t].run, p>>)
          PROVE  item'[hold[w]] = item[hold[w]]
      <4>1. hold[w] # <<task[t].run, p>>
        BY <3>1 DEF WorkerClaims, ClaimSyncWork, Ready, Claimable
      <4> QED
        BY <3>1, <4>1 DEF WorkerClaims, ClaimSyncWork
    <3>2. CASE WorkerExits(t, v)
      BY <3>2 DEF WorkerExits, queueVars
    <3>3. CASE WorkerSucceeds(t, v) \/ WorkerFails(t, v)
      <4>1. CompleteSyncWork(v) \/ FailSyncWork(v)
        BY <3>3 DEF WorkerSucceeds, WorkerFails
      <4>2. v # w
        BY <3>0, <4>1, QueueAssumption DEF CompleteSyncWork, FailSyncWork
      <4>3. hold[v] # hold[w]
        BY <3>0, <4>2 DEF QueueInv, ClaimsAreExclusive
      <4> QED
        BY <4>1, <4>3 DEF CompleteSyncWork, FailSyncWork
    <3>4. CASE WorkerUnreported(t, v)
      BY <3>4 DEF WorkerUnreported, LoseClaims
    <3> QED
      BY <3>1, <3>2, <3>3, <3>4
  <2> QED
    BY <1>5, <2>1, <2>2, <2>3, <2>4 DEF TaskStep
<1>6. CASE Shutdown \/ Exit \/ Crash \/ Restart \/ UNCHANGED vars
  BY <1>6 DEF Shutdown, Exit, Crash, Forget, LoseClaims, Restart, vars, queueVars
<1> QED
  BY <1>2, <1>3, <1>4, <1>5, <1>6 DEF Next

\* A worker that goes on holding a row stays at work for the same task ...
LEMMA StaysAtWork ==
  ASSUME CoordInv, [Next]_vars, ~Elapse, NEW w \in Workers, NEW t \in Tasks, AtWork(t, w),
         hold[w] # NoClaim, hold'[w] = hold[w]
  PROVE  AtWork(t, w)' /\ task'[t].age = task[t].age
<1>1. task \in [Tasks -> TaskRow] /\ hold \in [Workers -> Keys \cup {NoClaim}]
  BY DEF CoordInv, TypeOK, QueueTypeOK
<1>2. task[t].pc = "workers" /\ w \in Crew[t] /\ w \notin exited
  BY DEF AtWork
<1> USE <1>1, <1>2 DEF AtWork
<1>3. ASSUME NEW u \in Tasks, u # t, \A v \in Tasks : v # u => task'[v] = task[v], exited' \subseteq exited
      PROVE  AtWork(t, w)' /\ task'[t].age = task[t].age
  BY <1>3
<1>4. ASSUME NEW u \in Tasks, NEW r, NEW s, Launch(u, r, s) PROVE AtWork(t, w)' /\ task'[t].age = task[t].age
  BY <1>3, <1>4 DEF Launch
<1>5. ASSUME NEW s \in Scopes, Start(s) PROVE AtWork(t, w)' /\ task'[t].age = task[t].age
  BY <1>4, <1>5 DEF Start, StartScopedSync
<1>6. ASSUME RetryStep PROVE AtWork(t, w)' /\ task'[t].age = task[t].age
  BY <1>4, <1>6 DEF RetryStep, RetryReopens, RetryRefused, RetryLaunches
<1>7. ASSUME NEW u \in Tasks, TaskStep(u) PROVE AtWork(t, w)' /\ task'[t].age = task[t].age
  <2>1. CASE WorkerStep(u)
    <3>0. PICK v \in Crew[u] :
          \/ \E p \in Players : WorkerClaims(u, v, <<task[u].run, p>>)
          \/ WorkerExits(u, v)
          \/ WorkerSucceeds(u, v)
          \/ WorkerFails(u, v)
          \/ WorkerUnreported(u, v)
      BY <2>1 DEF WorkerStep
    <3>1. task' = task \/ task' = [task EXCEPT ![u].bad = @ \cup {hold[v][2]}]
      BY <3>0 DEF WorkerClaims, WorkerExits, WorkerSucceeds, WorkerFails, WorkerUnreported
    <3>2. task'[t].pc = task[t].pc /\ task'[t].age = task[t].age
      <4>1. CASE task' = task
        BY <4>1
      <4>2. CASE task' = [task EXCEPT ![u].bad = @ \cup {hold[v][2]}]
        BY <4>2 DEF TaskRow
      <4> QED
        BY <3>1, <4>1, <4>2
    <3>3. CASE WorkerExits(u, v)
      <4>1. v # w
        BY <3>3 DEF WorkerExits
      <4> QED
        BY <3>2, <3>3, <4>1 DEF WorkerExits
    <3>4. CASE ~WorkerExits(u, v)
      BY <3>0, <3>2, <3>4 DEF WorkerClaims, WorkerSucceeds, WorkerFails, WorkerUnreported, OnlyQueue
    <3> QED
      BY <3>3, <3>4
  <2>2. CASE Expire(u)
    <3>1. task'[t].pc = task[t].pc /\ task'[t].age = task[t].age /\ exited' = exited
      BY <2>2 DEF Expire, OnlyTask
    <3> QED
      BY <3>1
  <2>3. CASE Begin(u) \/ Fetched(u) \/ StageFails(u) \/ EnqueueHistories(u) \/ HistoriesDone(u)
             \/ Persisted(u) \/ Publish(u) \/ FinishRun(u) \/ End(u)
    <3>1. u # t
      BY <2>3 DEF Begin, Fetched, StageFails, EnqueueHistories, HistoriesDone, Persisted, Publish,
         FinishRun, End
    <3>2. exited' = exited /\ \A v \in Tasks : v # u => task'[v] = task[v]
      BY <2>3 DEF Begin, Fetched, StageFails, EnqueueHistories, HistoriesDone, Persisted, Publish,
         FinishRun, End, To, OnlyTask
    <3> QED
      BY <1>3, <3>1, <3>2
  <2> QED
    BY <1>7, <2>1, <2>2, <2>3 DEF TaskStep
<1>8. CASE Shutdown
  <2>1. task'[t].pc = task[t].pc /\ task'[t].age = task[t].age /\ exited' = exited
    BY <1>8 DEF Shutdown
  <2> QED
    BY <2>1
<1>9. CASE Exit \/ Crash
  BY <1>9 DEF Exit, Crash, Forget, LoseClaims
<1>10. ASSUME NEW r \in RunIds, RetryRequest(r) PROVE AtWork(t, w)' /\ task'[t].age = task[t].age
  BY <1>10 DEF RetryRequest
<1>11. CASE Restart \/ UNCHANGED vars
  BY <1>11 DEF Restart, vars
<1> QED
  BY <1>5, <1>6, <1>7, <1>8, <1>9, <1>10, <1>11 DEF Next

\* ... so claims never outlive the task they were made for.
LEMMA CrewStep ==
  ASSUME CoordInv, [Next]_vars
  PROVE  CrewsAtWork'
<1>0. /\ task \in [Tasks -> TaskRow] /\ item \in [Keys -> ItemRow]
      /\ hold \in [Workers -> Keys \cup {NoClaim}] /\ CrewsAtWork
  BY DEF CoordInv, TypeOK, QueueTypeOK
<1> SUFFICES ASSUME NEW w \in Workers, hold'[w] # NoClaim
             PROVE  \E t \in Tasks : AtWork(t, w)' /\ item'[hold'[w]].age <= task'[t].age
  BY DEF CrewsAtWork
<1>1. CASE hold'[w] = hold[w] /\ ~Elapse
  <2> PICK t \in Tasks : AtWork(t, w) /\ item[hold[w]].age <= task[t].age
    BY <1>0, <1>1 DEF CrewsAtWork
  <2>1. AtWork(t, w)' /\ task'[t].age = task[t].age
    BY <1>1, StaysAtWork
  <2>2. item'[hold[w]] = item[hold[w]]
    BY <1>1, HeldRowsKept
  <2> QED
    BY <1>1, <2>1, <2>2
<1>2. CASE Elapse
  <2>1. hold' = hold
    BY <1>2 DEF Elapse, Age
  <2> PICK t \in Tasks : AtWork(t, w) /\ item[hold[w]].age <= task[t].age
    BY <1>0, <2>1 DEF CrewsAtWork
  <2>2. task'[t] = [task[t] EXCEPT !.age = @ + 1]
    BY <1>0, <1>2 DEF Elapse, AtWork, Live
  <2>3. AtWork(t, w)' /\ task'[t].age = task[t].age + 1
    BY <1>0, <1>2, <2>2 DEF Elapse, AtWork, TaskRow
  <2>4. hold[w] \in Keys /\ item[hold[w]].status = "running" /\ item[hold[w]].age \in 0 .. Lease + 1
    BY <1>0, <2>1 DEF CoordInv, QueueInv, LiveClaimsStayRunning, ItemRow
  <2>5. item'[hold[w]].age = Older(item[hold[w]].age)
    BY <1>0, <1>2, <2>4 DEF Elapse, Age, ItemRow
  <2>6. Older(item[hold[w]].age) <= item[hold[w]].age + 1
    BY <2>4, QueueAssumption DEF Older
  <2>7. task[t].age \in Int /\ Older(item[hold[w]].age) \in Int
    BY <1>0, <2>4, OlderType, QueueAssumption DEF TaskRow
  <2> QED
    BY <2>1, <2>3, <2>4, <2>5, <2>6, <2>7, QueueAssumption
<1>3. CASE hold'[w] # hold[w]
  <2>1. PICK t \in Tasks, p \in Players : WorkerClaims(t, w, <<task[t].run, p>>)
    <3>1. \A W : LoseClaims(W) => hold'[w] = hold[w] \/ hold'[w] = NoClaim
      BY DEF LoseClaims
    <3>2. ASSUME NEW t \in Tasks, TaskStep(t), hold' # hold PROVE WorkerStep(t)
      BY <3>2 DEF TaskStep, Begin, Fetched, StageFails, EnqueueHistories, EnqueueSyncWork, HistoriesDone,
         Persisted, Publish, FinishRun, FinishSyncRun, End, Expire, queueVars
    <3>3. ASSUME NEW t \in Tasks, WorkerStep(t)
          PROVE  \E p \in Players : WorkerClaims(t, w, <<task[t].run, p>>)
      <4> PICK v \in Crew[t] :
            \/ \E p \in Players : WorkerClaims(t, v, <<task[t].run, p>>)
            \/ WorkerExits(t, v)
            \/ WorkerSucceeds(t, v)
            \/ WorkerFails(t, v)
            \/ WorkerUnreported(t, v)
        BY <3>3 DEF WorkerStep
      <4>1. v = w \/ ~\E p \in Players : WorkerClaims(t, v, <<task[t].run, p>>)
        BY <1>0, <1>3 DEF WorkerClaims, ClaimSyncWork
      <4>2. ~WorkerExits(t, v)
        BY <1>3 DEF WorkerExits, queueVars
      <4>3. ~WorkerSucceeds(t, v) /\ ~WorkerFails(t, v)
        BY <1>0, <1>3 DEF WorkerSucceeds, WorkerFails, CompleteSyncWork, FailSyncWork
      <4>4. ~WorkerUnreported(t, v)
        BY <1>3, <3>1 DEF WorkerUnreported
      <4> QED
        BY <4>1, <4>2, <4>3, <4>4
    <3>4. hold' # hold
      BY <1>3
    <3>5. ~\E s \in Scopes : Start(s)
      BY <3>4 DEF Start, StartScopedSync, StartSyncRun
    <3>6. ~\E r \in RunIds : RetryRequest(r)
      BY <3>4 DEF RetryRequest, RetryItems
    <3>7. ~RetryStep
      BY <3>4 DEF RetryStep, RetryReopens, RetryRun, RetryRefused, RetryLaunches, queueVars
    <3>8. ~Elapse /\ ~Shutdown /\ ~Restart /\ ~UNCHANGED vars
      BY <3>4 DEF Elapse, Age, Shutdown, Restart, vars, queueVars
    <3>9. ~Exit /\ ~Crash
      BY <1>3, <3>1 DEF Exit, Crash, Forget
    <3> QED
      BY <3>2, <3>3, <3>4, <3>5, <3>6, <3>7, <3>8, <3>9 DEF Next
  <2> DEFINE k == <<task[t].run, p>>
  <2>2. AtWork(t, w) /\ ClaimSyncWork(w, k) /\ task' = task /\ exited' = exited
    BY <2>1 DEF WorkerClaims, OnlyQueue
  <2>3. k \in Keys
    BY <2>2 DEF AtWork, CoordInv, RunsAreKnown, Live, Keys
  <2>4. hold'[w] = k /\ item'[k].age = 0
    BY <1>0, <2>2, <2>3 DEF ClaimSyncWork, Claimed
  <2>5. AtWork(t, w)'
    BY <2>2 DEF AtWork
  <2> QED
    BY <1>0, <2>2, <2>4, <2>5 DEF TaskRow
<1> QED
  BY <1>1, <1>2, <1>3

\* No step leaves the store with a "running" that nobody will replace: the
\* store is told so only together with a working task, and a task publishes an
\* outcome in the step that ends its work.
LEMMA StoreStep ==
  ASSUME CoordInv, NoPhantomRunning, [Next]_vars
  PROVE  NoPhantomRunning'
<1>1. task \in [Tasks -> TaskRow]
  BY DEF CoordInv, TypeOK
<1>2. "running" \notin Terminal
  BY DEF Terminal
<1> USE <1>1 DEF NoPhantomRunning
\* Three ways to keep it: a task works after the step, what works goes on, or
\* the store holds something else.
<1>3. ASSUME NEW t \in Tasks, task'[t].pc \in Working PROVE NoPhantomRunning'
  BY <1>3
<1>4. ASSUME store' = store, \A u \in Tasks : task[u].pc \in Working => task'[u].pc \in Working
      PROVE  NoPhantomRunning'
  BY <1>4
<1>5. ASSUME NEW t \in Tasks, NEW r, NEW s, Launch(t, r, s) PROVE NoPhantomRunning'
  <2>1. task'[t].pc = "begin"
    BY <1>5 DEF Launch, NewTask
  <2> QED
    BY <1>3, <2>1 DEF Working
<1>6. ASSUME NEW s \in Scopes, Start(s) PROVE NoPhantomRunning'
  BY <1>5, <1>6 DEF Start, StartScopedSync
<1>7. ASSUME NEW r \in RunIds, RetryRequest(r) PROVE NoPhantomRunning'
  BY <1>4, <1>7 DEF RetryRequest
<1>8. ASSUME RetryStep PROVE NoPhantomRunning'
  <2>1. CASE RetryReopens \/ RetryRefused
    BY <1>4, <2>1 DEF RetryReopens, RetryRefused
  <2>2. ASSUME NEW t \in Tasks, RetryLaunches(t) PROVE NoPhantomRunning'
    BY <1>5, <2>2 DEF RetryLaunches
  <2> QED
    BY <1>8, <2>1, <2>2 DEF RetryStep
<1>9. ASSUME NEW t \in Tasks, TaskStep(t) PROVE NoPhantomRunning'
  <2>1. ASSUME NEW pc \in Working, To(t, pc) PROVE NoPhantomRunning'
    <3>1. task'[t].pc = pc
      BY <2>1 DEF To, TaskRow
    <3> QED
      BY <1>3, <2>1, <3>1
  <2>2. CASE Begin(t)
    <3>1. task'[t].pc = "catalog"
      BY <2>2 DEF Begin, TaskRow
    <3> QED
      BY <1>3, <3>1 DEF Working
  <2>3. CASE Fetched(t)
    <3>1. PICK next \in After(task[t].scope, task[t].pc) : To(t, next)
      BY <2>3 DEF Fetched
    <3> QED
      BY <2>1, <3>1, StagesFollow
  <2>4. CASE EnqueueHistories(t) \/ HistoriesDone(t) \/ Persisted(t)
    BY <2>1, <2>4 DEF EnqueueHistories, HistoriesDone, Persisted, Working
  <2>5. CASE StageFails(t) \/ Publish(t)
    <3>1. store' \in {"failed", "success", "partial"}
      BY <2>5 DEF StageFails, Publish
    <3> QED
      BY <3>1
  <2>6. CASE FinishRun(t) \/ End(t)
    <3>1. store' = store /\ task[t].pc \notin Working /\ \A u \in Tasks : u # t => task'[u] = task[u]
      BY <2>6 DEF FinishRun, End, To, Working
    <3> QED
      BY <1>4, <3>1
  <2>7. CASE Expire(t)
    <3>1. store' = store /\ \A u \in Tasks : task'[u].pc = task[u].pc
      BY <2>7 DEF Expire, TaskRow
    <3> QED
      BY <1>4, <3>1
  <2>8. CASE WorkerStep(t)
    <3>1. PICK w \in Crew[t] :
            \/ \E p \in Players : WorkerClaims(t, w, <<task[t].run, p>>)
            \/ WorkerExits(t, w)
            \/ WorkerSucceeds(t, w)
            \/ WorkerFails(t, w)
            \/ WorkerUnreported(t, w)
      BY <2>8 DEF WorkerStep
    <3>2. store' = store
      BY <3>1 DEF WorkerClaims, WorkerExits, WorkerSucceeds, WorkerFails, WorkerUnreported, OnlyQueue
    <3>3. task' = task \/ task' = [task EXCEPT ![t].bad = @ \cup {hold[w][2]}]
      BY <3>1 DEF WorkerClaims, WorkerExits, WorkerSucceeds, WorkerFails, WorkerUnreported
    <3>4. CASE task' = task
      BY <1>4, <3>2, <3>4
    <3>5. CASE task' = [task EXCEPT ![t].bad = @ \cup {hold[w][2]}]
      BY <1>4, <3>2, <3>5 DEF TaskRow
    <3> QED
      BY <3>3, <3>4, <3>5
  <2> QED
    BY <1>9, <2>2, <2>3, <2>4, <2>5, <2>6, <2>7, <2>8 DEF TaskStep
<1>10. CASE Elapse
  <2>1. store' = store /\ \A u \in Tasks : task'[u].pc = task[u].pc
    BY <1>10 DEF Elapse, TaskRow
  <2> QED
    BY <1>4, <2>1
<1>11. CASE Shutdown
  <2>1. store' = store /\ \A u \in Tasks : task'[u].pc = task[u].pc
    BY <1>11 DEF Shutdown, TaskRow
  <2> QED
    BY <1>4, <2>1
<1>12. CASE Exit \/ Crash
  BY <1>12 DEF Exit, Crash, Forget
<1>13. CASE Restart \/ UNCHANGED vars
  BY <1>4, <1>13 DEF Restart, vars
<1> QED
  BY <1>6, <1>7, <1>8, <1>9, <1>10, <1>11, <1>12, <1>13 DEF Next

-----------------------------------------------------------------------------
(* The theorems.                                                           *)

\* The invariant holds when the process starts ...
LEMMA CoordInit == Init => CoordInv
<1> SUFFICES ASSUME Init PROVE CoordInv
  OBVIOUS
<1>1. QueueInv /\ QueueInit
  BY InitInv DEF Init
<1>2. TypeOK
  BY <1>1, FreshTasks, CoordinatorAssumption DEF Init, TypeOK, QueueInv, StoreStatus, NoRetry
<1>3. RunsAreKnown
  BY DEF Init, RunsAreKnown, Live, Idle, NoRetry
<1>4. CrewsAtWork
  BY <1>1 DEF QueueInit, CrewsAtWork
<1> QED
  BY <1>1, <1>2, <1>3, <1>4 DEF CoordInv

\* ... and no step ends it.
LEMMA CoordStep == CoordInv /\ [Next]_vars => CoordInv'
<1> SUFFICES ASSUME CoordInv, [Next]_vars PROVE CoordInv'
  OBVIOUS
<1>1. QueueInv'
  BY StepIsQueueStep, InvStep DEF CoordInv
<1> QED
  BY <1>1, ProcessTypeStep, RunsStep, CrewStep DEF CoordInv

\* The coordinator keeps its inductive invariant.
THEOREM CoordinatorInvariant == Spec => []CoordInv
BY CoordInit, CoordStep, PTL DEF Spec

\* The variables of process and tables keep their types.
THEOREM CoordinatorTypeCorrect == Spec => []TypeOK
<1>1. CoordInv => TypeOK
  BY DEF CoordInv
<1> QED
  BY <1>1, CoordinatorInvariant, PTL

\* What the process does is something the queue allows, so that every theorem
\* about QueueSpec is one about the process.
THEOREM CoordinatorUsesQueue == Spec => UsesQueue
<1>1. Init => QueueInit
  BY DEF Init
<1>2. CoordInv /\ [Next]_vars => [QueueNext]_queueVars
  BY StepIsQueueStep
<1> QED
  BY <1>1, <1>2, CoordinatorInvariant, PTL DEF Spec, QueueSpec, UsesQueue

\* Two workers of the process never hold the same work item, whatever the
\* process goes through: overlapping runs, retries, timeouts, crashes.
THEOREM CoordinatorClaimsExclusive == Spec => []ClaimsAreExclusive
BY CoordinatorUsesQueue, ExclusiveClaims, PTL DEF UsesQueue

\* Work the process completed is never done again.
THEOREM CoordinatorCompletesOnce == Spec => DoneIsFinal
BY CoordinatorUsesQueue, CompletedWorkIsFinal, PTL DEF UsesQueue

\* A status "running" in the store always has a task behind it that will replace
\* it: no sequence of retries, failures, shutdowns and restarts locks the
\* handlers out for ever.
THEOREM CoordinatorNeverStuck == Spec => []NoPhantomRunning
<1>1. Init => NoPhantomRunning
  BY DEF Init, NoPhantomRunning
<1>2. CoordInv /\ NoPhantomRunning /\ [Next]_vars => NoPhantomRunning'
  BY StoreStep
<1> QED
  BY <1>1, <1>2, CoordinatorInvariant, PTL DEF Spec
-----------------------------------------------------------------------------
(* Without retries the status in the store is a lock, and runs are not     *)
(* shared.                                                                 *)

\* While a task works the store says "running", and so does the status the task
\* goes on publishing.
StoreIsLock ==
  /\ retry = NoRetry
  /\ OneSyncAtATime
  /\ \A t \in Tasks : task[t].pc \in Working =>
       store = "running" /\ (task[t].pc # "begin" => task[t].status = "running")

\* A task has a run of its own, no older than itself, open until it closes it.
RunsAreOwn ==
  /\ \A t \in Tasks : Live(t) => Used(task[t].run) /\ run[task[t].run].age <= task[t].age
  /\ \A t, u \in Tasks : Live(t) /\ Live(u) /\ t # u => task[t].run # task[u].run
  /\ LiveRunStaysOpen

\* No retry is ever admitted.
LEMMA NoRetryStep ==
  ASSUME CoordInv, retries' = 0, retry = NoRetry
  PROVE  ~RetryStep /\ ~\E r \in RunIds : RetryRequest(r)
<1>1. ~\E r \in RunIds : RetryRequest(r)
  BY CoordinatorAssumption DEF CoordInv, TypeOK, RetryRequest
<1>2. ~RetryStep
  BY DEF RetryStep, RetryReopens, RetryRefused, RetryLaunches, NoRetry
<1> QED
  BY <1>1, <1>2

LEMMA LockStep ==
  ASSUME CoordInv, retries' = 0, StoreIsLock, [Next]_vars
  PROVE  StoreIsLock'
<1>1. task \in [Tasks -> TaskRow]
  BY DEF CoordInv, TypeOK
<1> USE DEF StoreIsLock, OneSyncAtATime
\* Nobody starts to work, and the store stays as it is ...
<1>2. ASSUME store' = store, retry' = retry,
             \A u \in Tasks : task'[u].pc \in Working
                                => task'[u].pc = task[u].pc /\ task'[u].status = task[u].status
      PROVE  StoreIsLock'
  BY <1>2
\* ... or the one that works goes on, and is the only one to do so.
<1>3. ASSUME NEW t \in Tasks, task[t].pc \in Working, retry' = retry,
             \A u \in Tasks : u # t => task'[u] = task[u],
             task'[t].pc \in Working =>
               store' = "running" /\ (task'[t].pc # "begin" => task'[t].status = "running")
      PROVE  StoreIsLock'
  BY <1>3
<1>4. ASSUME NEW s \in Scopes, Start(s) PROVE StoreIsLock'
  <2>1. PICK t \in Tasks, r \in RunIds : StartScopedSync(t, r, s)
    BY <1>4 DEF Start
  <2>2. /\ \A u \in Tasks : task[u].pc \notin Working
        /\ store' = "running" /\ retry' = retry
        /\ task' = [task EXCEPT ![t] = NewTask(r, s)]
    BY <2>1 DEF StartScopedSync, Launch
  <2>3. task'[t].pc = "begin" /\ \A u \in Tasks : u # t => task'[u] = task[u]
    BY <1>1, <2>2 DEF NewTask
  <2> QED
    BY <2>2, <2>3
<1>5. ASSUME NEW t \in Tasks, TaskStep(t) PROVE StoreIsLock'
  <2>1. ASSUME NEW pc, task[t].pc \in Working, task[t].pc # "begin", To(t, pc), retry' = retry,
               store' = store \/ store' = task[t].status
        PROVE  StoreIsLock'
    <3>1. task'[t].status = task[t].status /\ \A u \in Tasks : u # t => task'[u] = task[u]
      BY <1>1, <2>1 DEF To, TaskRow
    <3> QED
      BY <1>3, <2>1, <3>1
  <2>2. CASE Begin(t)
    <3>1. task'[t].pc = "catalog" /\ task'[t].status = store /\ \A u \in Tasks : u # t => task'[u] = task[u]
      BY <1>1, <2>2 DEF Begin, TaskRow
    <3>2. task[t].pc \in Working /\ store' = store /\ retry' = retry
      BY <2>2 DEF Begin, OnlyTask, Working
    <3> QED
      BY <1>3, <3>1, <3>2
  <2>3. CASE Fetched(t)
    BY <2>1, <2>3 DEF Fetched, OnlyTask, Working
  <2>4. CASE EnqueueHistories(t) \/ HistoriesDone(t) \/ Persisted(t)
    BY <2>1, <2>4 DEF EnqueueHistories, HistoriesDone, Persisted, OnlyTask, Working
  <2>5. CASE StageFails(t) \/ Publish(t)
    <3>1. task'[t].pc = "finish" /\ \A u \in Tasks : u # t => task'[u] = task[u]
      BY <1>1, <2>5 DEF StageFails, Publish, TaskRow
    <3>2. task[t].pc \in Working /\ retry' = retry
      BY <2>5 DEF StageFails, Publish, OnlyTask, Working
    <3> QED
      BY <1>3, <3>1, <3>2 DEF Working
  <2>6. CASE FinishRun(t)
    <3>1. task'[t].pc = "end" /\ \A u \in Tasks : u # t => task'[u] = task[u]
      BY <1>1, <2>6 DEF FinishRun, To, TaskRow
    <3> QED
      BY <1>2, <2>6, <3>1 DEF FinishRun, OnlyTask, Working
  <2>7. CASE End(t)
    <3>1. task'[t].pc = "idle" /\ \A u \in Tasks : u # t => task'[u] = task[u]
      BY <1>1, <2>7 DEF End, Idle, TaskRow
    <3> QED
      BY <1>2, <2>7, <3>1 DEF End, OnlyTask, Working
  <2>8. CASE Expire(t)
    <3>1. \A u \in Tasks : task'[u].pc = task[u].pc /\ task'[u].status = task[u].status
      BY <1>1, <2>8 DEF Expire, TaskRow
    <3> QED
      BY <1>2, <2>8, <3>1 DEF Expire, OnlyTask
  <2>9. CASE WorkerStep(t)
    <3>1. PICK w \in Crew[t] :
            \/ \E p \in Players : WorkerClaims(t, w, <<task[t].run, p>>)
            \/ WorkerExits(t, w)
            \/ WorkerSucceeds(t, w)
            \/ WorkerFails(t, w)
            \/ WorkerUnreported(t, w)
      BY <2>9 DEF WorkerStep
    <3>2. /\ store' = store /\ retry' = retry
          /\ task' = task \/ task' = [task EXCEPT ![t].bad = @ \cup {hold[w][2]}]
      BY <3>1 DEF WorkerClaims, WorkerExits, WorkerSucceeds, WorkerFails, WorkerUnreported, OnlyQueue
    <3>3. \A u \in Tasks : task'[u].pc = task[u].pc /\ task'[u].status = task[u].status
      BY <1>1, <3>2 DEF TaskRow
    <3> QED
      BY <1>2, <3>2, <3>3
  <2> QED
    BY <1>5, <2>2, <2>3, <2>4, <2>5, <2>6, <2>7, <2>8, <2>9 DEF TaskStep
<1>6. CASE Elapse \/ Shutdown
  <2>1. \A u \in Tasks : task'[u].pc = task[u].pc /\ task'[u].status = task[u].status
    BY <1>1, <1>6 DEF Elapse, Shutdown, TaskRow
  <2> QED
    BY <1>2, <1>6, <2>1 DEF Elapse, Shutdown
<1>7. CASE Exit \/ Crash
  <2>1. retry' = NoRetry /\ \A u \in Tasks : task'[u].pc = "idle"
    BY <1>7 DEF Exit, Crash, Forget, Idle
  <2> QED
    BY <2>1 DEF Working
<1>8. CASE Restart \/ UNCHANGED vars
  BY <1>2, <1>8 DEF Restart, vars
<1> QED
  BY <1>4, <1>5, <1>6, <1>7, <1>8, NoRetryStep DEF Next

LEMMA OwnStep ==
  ASSUME CoordInv, retries' = 0, retry = NoRetry, RunsAreOwn, [Next]_vars
  PROVE  RunsAreOwn'
<1>1. /\ task \in [Tasks -> TaskRow] /\ run \in [RunIds -> RunRow]
      /\ \A t \in Tasks : Live(t) => task[t].run \in RunIds
  BY DEF CoordInv, TypeOK, QueueTypeOK, RunsAreKnown
<1> USE DEF RunsAreOwn, LiveRunStaysOpen
\* The rows stay, and so do the tasks that go on.
<1>2. ASSUME run' = run,
             \A u \in Tasks : Live(u)' => /\ Live(u)
                                          /\ task'[u].run = task[u].run /\ task'[u].age = task[u].age
                                          /\ task'[u].pc # "end" => task[u].pc # "end"
      PROVE  RunsAreOwn'
  BY <1>2 DEF Used
<1>3. ASSUME NEW s \in Scopes, Start(s) PROVE RunsAreOwn'
  <2>1. PICK t \in Tasks, r \in RunIds : StartScopedSync(t, r, s)
    BY <1>3 DEF Start
  <2>2. /\ task' = [task EXCEPT ![t] = NewTask(r, s)] /\ task[t].pc = "idle"
        /\ run' = [Recovered EXCEPT ![r] = [status |-> "running", scope |-> s, age |-> 0]]
        /\ ~Used(r)
    BY <2>1 DEF StartScopedSync, Launch, StartSyncRun, NextRun
  <2>3. task'[t] = NewTask(r, s) /\ \A u \in Tasks : u # t => task'[u] = task[u]
    BY <1>1, <2>2
  <2>4. run'[r] = [status |-> "running", scope |-> s, age |-> 0]
    BY <2>2 DEF Recovered
  <2>5. ASSUME NEW u \in Tasks, u # t, Live(u) PROVE task[u].run # r /\ run'[task[u].run] = run[task[u].run]
    <3>1. task[u].run # r
      BY <2>2, <2>5
    <3>2. task[u].age <= Timeout /\ task[u].age \in Nat /\ run[task[u].run].age \in Nat
      BY <1>1, <2>5, QueueAssumption DEF TaskRow, RunRow
    <3>3. ~Expired(task[u].run)
      BY <2>5, <3>2, QueueAssumption DEF Expired
    <3> QED
      BY <1>1, <2>2, <2>5, <3>1, <3>3 DEF Recovered
  <2>6. NewTask(r, s).run = r /\ NewTask(r, s).age = 0 /\ NewTask(r, s).pc = "begin"
    BY DEF NewTask
  <2> QED
    BY <2>3, <2>4, <2>5, <2>6 DEF Live, Used
<1>4. ASSUME NEW t \in Tasks, TaskStep(t) PROVE RunsAreOwn'
  <2>1. ASSUME run' = run, Live(t), task[t].pc # "end", task'[t].run = task[t].run, task'[t].age = task[t].age,
               \A u \in Tasks : u # t => task'[u] = task[u]
        PROVE  RunsAreOwn'
    BY <1>2, <2>1 DEF Live
  <2>2. ASSUME NEW pc, To(t, pc)
        PROVE  task'[t].pc = pc /\ task'[t].run = task[t].run /\ task'[t].age = task[t].age
               /\ \A u \in Tasks : u # t => task'[u] = task[u]
    BY <1>1, <2>2 DEF To, TaskRow
  <2>3. CASE Begin(t) \/ StageFails(t) \/ Publish(t)
    <3>1. task'[t].run = task[t].run /\ task'[t].age = task[t].age /\ \A u \in Tasks : u # t => task'[u] = task[u]
      BY <1>1, <2>3 DEF Begin, StageFails, Publish, TaskRow
    <3> QED
      BY <2>1, <2>3, <3>1 DEF Begin, StageFails, Publish, queueVars, Live
  <2>4. CASE Fetched(t) \/ EnqueueHistories(t) \/ HistoriesDone(t) \/ Persisted(t)
    BY <2>1, <2>2, <2>4 DEF Fetched, EnqueueHistories, EnqueueSyncWork, HistoriesDone, Persisted, queueVars, Live
  <2>5. CASE FinishRun(t)
    <3>1. task[t].pc = "finish" /\ To(t, "end")
      BY <2>5 DEF FinishRun
    <3>2. CASE UNCHANGED queueVars
      BY <2>1, <2>2, <3>1, <3>2 DEF queueVars, Live
    <3>3. CASE FinishSyncRun(task[t].run, task[t].status)
      <4>1. run' = [run EXCEPT ![task[t].run].status = task[t].status] /\ task[t].status \in Terminal
        BY <3>1, <3>3 DEF FinishSyncRun, CoordInv, RunsAreKnown, Live
      <4>2. Live(t) /\ task[t].run \in RunIds
        BY <1>1, <3>1 DEF Live
      <4>3. /\ run'[task[t].run].status # "unused" /\ run'[task[t].run].age = run[task[t].run].age
            /\ \A q \in RunIds : q # task[t].run => run'[q] = run[q]
        BY <1>1, <4>1, <4>2 DEF Terminal, RunRow
      <4>4. \A u \in Tasks : u # t /\ Live(u) => run'[task[u].run] = run[task[u].run]
        BY <1>1, <4>2, <4>3
      <4> QED
        BY <2>2, <3>1, <4>2, <4>3, <4>4 DEF Live, Used
    <3> QED
      BY <2>5, <3>2, <3>3 DEF FinishRun
  <2>6. CASE End(t)
    <3>1. task'[t].pc = "idle" /\ \A u \in Tasks : u # t => task'[u] = task[u]
      BY <1>1, <2>6 DEF End, Idle, TaskRow
    <3> QED
      BY <1>2, <2>6, <3>1 DEF End, Live, queueVars
  <2>7. CASE Expire(t)
    <3>1. \A u \in Tasks : task'[u].pc = task[u].pc /\ task'[u].run = task[u].run /\ task'[u].age = task[u].age
      BY <1>1, <2>7 DEF Expire, TaskRow
    <3> QED
      BY <1>2, <2>7, <3>1 DEF Expire, Live, queueVars
  <2>8. CASE WorkerStep(t)
    <3>1. PICK w \in Crew[t] :
            \/ \E p \in Players : WorkerClaims(t, w, <<task[t].run, p>>)
            \/ WorkerExits(t, w)
            \/ WorkerSucceeds(t, w)
            \/ WorkerFails(t, w)
            \/ WorkerUnreported(t, w)
      BY <2>8 DEF WorkerStep
    <3>2. /\ run' = run
          /\ task' = task \/ task' = [task EXCEPT ![t].bad = @ \cup {hold[w][2]}]
      BY <3>1 DEF WorkerClaims, WorkerExits, WorkerSucceeds, WorkerFails, WorkerUnreported, OnlyQueue,
         ClaimSyncWork, CompleteSyncWork, FailSyncWork, LoseClaims, queueVars
    <3>3. \A u \in Tasks : task'[u].pc = task[u].pc /\ task'[u].run = task[u].run /\ task'[u].age = task[u].age
      BY <1>1, <3>2 DEF TaskRow
    <3> QED
      BY <1>2, <3>2, <3>3 DEF Live
  <2> QED
    BY <1>4, <2>3, <2>4, <2>5, <2>6, <2>7, <2>8 DEF TaskStep
<1>5. CASE Elapse
  <2>1. ASSUME NEW u \in Tasks
        PROVE  /\ task'[u].pc = task[u].pc /\ task'[u].run = task[u].run
               /\ Live(u) => task'[u].age = task[u].age + 1 /\ task[u].age < Timeout
    BY <1>1, <1>5 DEF Elapse, TaskRow
  <2>2. ASSUME NEW q \in RunIds, Used(q)
        PROVE  /\ run'[q].status = run[q].status /\ run'[q].age <= run[q].age + 1
    <3>1. run'[q] = [run[q] EXCEPT !.age = Older(@)]
      BY <1>5, <2>2 DEF Elapse, Age
    <3>2. run[q].age \in 0 .. Lease + 1 /\ run[q] \in RunRow
      BY <1>1 DEF RunRow
    <3>3. Older(run[q].age) <= run[q].age + 1
      BY <3>2, QueueAssumption DEF Older
    <3> QED
      BY <3>1, <3>2, <3>3 DEF RunRow
  <2>3. ASSUME NEW u \in Tasks, Live(u)
        PROVE  run'[task[u].run].status = run[task[u].run].status /\ run'[task[u].run].age <= task'[u].age
    <3>1. task[u].run \in RunIds /\ Used(task[u].run) /\ run[task[u].run].age <= task[u].age
      BY <1>1, <2>3
    <3>2. task[u].age \in Int /\ run[task[u].run].age \in Int
      BY <1>1, <3>1 DEF TaskRow, RunRow
    <3>3. run' \in [RunIds -> RunRow]
      BY <1>5, <1>1, OlderType DEF Elapse, Age, RunRow
    <3>4. run'[task[u].run].age \in Int
      BY <3>1, <3>3 DEF RunRow
    <3> QED
      BY <2>1, <2>2, <2>3, <3>1, <3>2, <3>4
  <2> QED
    BY <2>1, <2>3 DEF Live, Used
<1>6. CASE Shutdown
  <2>1. \A u \in Tasks : task'[u].pc = task[u].pc /\ task'[u].run = task[u].run /\ task'[u].age = task[u].age
    BY <1>1, <1>6 DEF Shutdown, TaskRow
  <2> QED
    BY <1>2, <1>6, <2>1 DEF Shutdown, Live, queueVars
<1>7. CASE Exit \/ Crash
  BY <1>7 DEF Exit, Crash, Forget, Idle, Live
<1>8. CASE Restart \/ UNCHANGED vars
  BY <1>2, <1>8 DEF Restart, vars, queueVars, Live
<1> QED
  BY <1>3, <1>4, <1>5, <1>6, <1>7, <1>8, NoRetryStep DEF Next

\* Retries are only counted up.
LEMMA RetriesCounted ==
  ASSUME CoordInv, [Next]_vars, retries' = 0
  PROVE  retries = 0
<1>1. retries \in Nat
  BY CoordinatorAssumption DEF CoordInv, TypeOK
<1>2. retries' = retries \/ retries' = retries + 1
  <2>1. ASSUME NEW t \in Tasks, TaskStep(t) PROVE retries' = retries
    BY <2>1 DEF TaskStep, Begin, Fetched, StageFails, EnqueueHistories, HistoriesDone, Persisted, Publish,
       FinishRun, End, Expire, WorkerStep, WorkerClaims, WorkerExits, WorkerSucceeds, WorkerFails,
       WorkerUnreported, OnlyTask, OnlyQueue
  <2>2. ASSUME RetryStep PROVE retries' = retries
    BY <2>2 DEF RetryStep, RetryReopens, RetryRefused, RetryLaunches
  <2> QED
    BY <2>1, <2>2 DEF Next, Start, StartScopedSync, RetryRequest, Elapse, Shutdown, Exit, Crash, Forget, Restart, vars
<1> QED
  BY <1>1, <1>2

\* The two together, from the start, until a retry is requested.
LEMMA WithoutRetries == Spec => [](retries = 0 => StoreIsLock /\ RunsAreOwn)
<1>1. Init => StoreIsLock /\ RunsAreOwn
  BY DEF Init, StoreIsLock, RunsAreOwn, OneSyncAtATime, LiveRunStaysOpen, Idle, Live, Working
<1>2. CoordInv /\ (retries = 0 => StoreIsLock /\ RunsAreOwn) /\ [Next]_vars
        => (retries = 0 => StoreIsLock /\ RunsAreOwn)'
  <2> SUFFICES ASSUME CoordInv, retries = 0 => StoreIsLock /\ RunsAreOwn, [Next]_vars, retries' = 0
               PROVE  (StoreIsLock /\ RunsAreOwn)'
    OBVIOUS
  <2>1. StoreIsLock /\ RunsAreOwn
    BY RetriesCounted
  <2>2. retry = NoRetry
    BY <2>1 DEF StoreIsLock
  <2> QED
    BY <2>1, <2>2, LockStep, OwnStep
<1> QED
  BY <1>1, <1>2, CoordinatorInvariant, PTL DEF Spec

LEMMA NoneAllowed == CoordInv /\ MaxRetries = 0 => retries = 0
BY DEF CoordInv, TypeOK

\* As long as no retry is requested, two synchronisations never run at once:
\* the status in the store, read under startMu (api.go:482-515), is a lock.
\* The run scope_locking shows that one retry breaks it.
THEOREM OneSyncWithoutRetries == MaxRetries = 0 => (Spec => []OneSyncAtATime)
<1> SUFFICES ASSUME MaxRetries = 0 PROVE Spec => []OneSyncAtATime
  OBVIOUS
<1>1. CoordInv /\ (retries = 0 => StoreIsLock /\ RunsAreOwn) => OneSyncAtATime
  BY NoneAllowed DEF StoreIsLock
<1> QED
  BY <1>1, WithoutRetries, CoordinatorInvariant, PTL

\* As long as no retry is requested, recovery never closes a run that a task is
\* executing: Timeout <= Lease, and no task outlives its context by much.
THEOREM LiveRunsStayOpen == MaxRetries = 0 => (Spec => []LiveRunStaysOpen)
<1> SUFFICES ASSUME MaxRetries = 0 PROVE Spec => []LiveRunStaysOpen
  OBVIOUS
<1>1. CoordInv /\ (retries = 0 => StoreIsLock /\ RunsAreOwn) => LiveRunStaysOpen
  BY NoneAllowed DEF RunsAreOwn
<1> QED
  BY <1>1, WithoutRetries, CoordinatorInvariant, PTL

\* The whole process, with its handlers, tasks, retries, stops and restarts,
\* promises what the ledger of work promises.
THEOREM ProcessImplementsLedger == Spec => ImplementsLedger
BY CoordinatorUsesQueue, QueueImplementsLedger, PTL DEF UsesQueue
-----------------------------------------------------------------------------
(* What the workers leave of an undisturbed run.                           *)

HistoryScopes == {"full", "player-history"}
Early == {"begin", "catalog", "fixtures", "live", "player-history"}

\* Only runs that fetch histories have items, a row that was never tried does not
\* wait, and no row is given up.
ItemsFit ==
  /\ \A k \in Keys : run[k[1]].scope \notin HistoryScopes => item[k].status = "absent"
  /\ \A k \in Keys : item[k].status = "pending" => item[k].wait = 0
  /\ \A k \in Keys : item[k].status # "failed"

\* A task goes through the stages of its scope.
StagesFit ==
  \A t \in Tasks : Live(t) =>
    /\ task[t].scope = run[task[t].run].scope /\ task[t].scope \in Scopes
    /\ task[t].pc = "fixtures" => task[t].scope # "catalog"
    /\ task[t].pc = "live" => task[t].scope \in {"live", "full"}
    /\ task[t].pc \in {"player-history", "workers"} => task[t].scope \in HistoryScopes
    /\ task[t].pc \in Early => Crew[t] \cap exited = {}

\* What a worker of t still has to report, and whether one has left.
InHand(t, k) == \E w \in Crew[t] \ exited : hold[w] = k
Left(t) == Crew[t] \cap exited # {}

\* Before the workers start no row of the run is claimed; while they work each
\* claimed row is in the hands of one of them, and once one has left no row is
\* without a try; when the last has left all are done or wait.
RowFits(pc, scope, status, inHand, left) ==
  /\ pc \in Early => status \in {"absent", "pending", "retryable"}
  /\ pc = "workers" =>
       /\ status # "absent"
       /\ status = "running" => inHand
       /\ left => status # "pending"
  /\ pc \in {"persist", "publish"} /\ scope \in HistoryScopes => status \in {"success", "retryable"}

RowsFit(t) ==
  \A p \in Players :
    LET k == <<task[t].run, p>>
    IN RowFits(task[t].pc, task[t].scope, item[k].status, InHand(t, k), Left(t))

TriedInv ==
  /\ ItemsFit /\ StagesFit
  /\ \A t \in Tasks : Live(t) /\ Alive(t) => RowsFit(t)

LEMMA NextStage ==
  ASSUME NEW s \in Datasets, NEW stage \in {"catalog", "fixtures", "live"}, NEW next \in After(s, stage),
         stage = "fixtures" => s # "catalog", stage = "live" => s \in {"live", "full"}
  PROVE  /\ next \in {"fixtures", "live", "player-history", "persist"}
         /\ next = "fixtures" => s # "catalog"
         /\ next = "live" => s \in {"live", "full"}
         /\ next = "player-history" => s \in HistoryScopes
         /\ next = "persist" => s \notin HistoryScopes
<1>1. CASE stage = "catalog"
  BY <1>1 DEF After, HistoryScopes
<1>2. CASE stage = "fixtures"
  BY <1>2 DEF After, HistoryScopes, Datasets
<1>3. CASE stage = "live"
  BY <1>3 DEF After, HistoryScopes
<1> QED
  BY <1>1, <1>2, <1>3

\* What the step of a task leaves alone.
LEMMA OthersKept ==
  ASSUME CoordInv, NEW t \in Tasks, TaskStep(t)
  PROVE  /\ \A u \in Tasks : u # t => task'[u] = task[u] /\ Crew[u] \cap exited' = Crew[u] \cap exited
         /\ \/ task'[t].pc = "idle"
            \/ /\ Live(t) /\ task'[t].run = task[t].run /\ task'[t].scope = task[t].scope
               /\ Alive(t)' => Alive(t)
         /\ \A r \in RunIds : run'[r].scope = run[r].scope
<1>1. task \in [Tasks -> TaskRow] /\ run \in [RunIds -> RunRow]
  BY DEF CoordInv, TypeOK, QueueTypeOK
<1> USE DEF Live, Alive
<1>2. ASSUME NEW pc, To(t, pc)
      PROVE  /\ task'[t].run = task[t].run /\ task'[t].scope = task[t].scope /\ task'[t].ctx = task[t].ctx
             /\ \A u \in Tasks : u # t => task'[u] = task[u]
  BY <1>1, <1>2 DEF To, TaskRow
<1>3. CASE Begin(t) \/ StageFails(t) \/ Publish(t) \/ Expire(t)
  BY <1>1, <1>3 DEF Begin, StageFails, Publish, Expire, OnlyTask, queueVars, TaskRow
<1>4. CASE Fetched(t) \/ EnqueueHistories(t) \/ HistoriesDone(t) \/ Persisted(t)
  BY <1>2, <1>4 DEF Fetched, EnqueueHistories, EnqueueSyncWork, HistoriesDone, Persisted, OnlyTask, queueVars
<1>5. CASE FinishRun(t)
  <2>1. \A r \in RunIds : run'[r].scope = run[r].scope
    BY <1>1, <1>5 DEF FinishRun, FinishSyncRun, queueVars, RunRow
  <2> QED
    BY <1>2, <1>5, <2>1 DEF FinishRun, OnlyTask
<1>6. CASE End(t)
  BY <1>1, <1>6 DEF End, Idle, OnlyTask, queueVars
<1>7. CASE WorkerStep(t)
  <2>1. PICK w \in Crew[t] :
          \/ \E p \in Players : WorkerClaims(t, w, <<task[t].run, p>>)
          \/ WorkerExits(t, w)
          \/ WorkerSucceeds(t, w)
          \/ WorkerFails(t, w)
          \/ WorkerUnreported(t, w)
    BY <1>7 DEF WorkerStep
  <2>2. /\ run' = run /\ task[t].pc = "workers"
        /\ task' = task \/ task' = [task EXCEPT ![t].bad = @ \cup {hold[w][2]}]
        /\ exited' = exited \/ exited' = exited \cup {w}
    BY <2>1 DEF WorkerClaims, WorkerExits, WorkerSucceeds, WorkerFails, WorkerUnreported, OnlyQueue, AtWork,
       ClaimSyncWork, CompleteSyncWork, FailSyncWork, LoseClaims, queueVars
  <2>3. \A u \in Tasks : u # t => task'[u] = task[u] /\ w \notin Crew[u]
    BY <1>1, <2>2, CoordinatorAssumption
  <2>4. task'[t].run = task[t].run /\ task'[t].scope = task[t].scope /\ task'[t].ctx = task[t].ctx
    BY <1>1, <2>2 DEF TaskRow
  <2> QED
    BY <2>2, <2>3, <2>4
<1> QED
  BY <1>3, <1>4, <1>5, <1>6, <1>7 DEF TaskStep

LEMMA StagesTask ==
  ASSUME CoordInv, StagesFit, NEW t \in Tasks, TaskStep(t)
  PROVE  StagesFit'
<1>1. task \in [Tasks -> TaskRow] /\ \A u \in Tasks : Live(u) => task[u].run \in RunIds
  BY DEF CoordInv, TypeOK, RunsAreKnown
<1>2. /\ \A u \in Tasks : u # t => task'[u] = task[u] /\ Crew[u] \cap exited' = Crew[u] \cap exited
      /\ \/ task'[t].pc = "idle"
         \/ /\ Live(t) /\ task'[t].run = task[t].run /\ task'[t].scope = task[t].scope
            /\ Alive(t)' => Alive(t)
      /\ \A r \in RunIds : run'[r].scope = run[r].scope
  BY OthersKept
<1>3. ASSUME NEW u \in Tasks, u # t, Live(u)'
      PROVE  /\ task'[u].scope = run'[task'[u].run].scope /\ task'[u].scope \in Scopes
             /\ task'[u].pc = "fixtures" => task'[u].scope # "catalog"
             /\ task'[u].pc = "live" => task'[u].scope \in {"live", "full"}
             /\ task'[u].pc \in {"player-history", "workers"} => task'[u].scope \in HistoryScopes
             /\ task'[u].pc \in Early => Crew[u] \cap exited' = {}
  BY <1>1, <1>2, <1>3 DEF StagesFit, Live
<1>4. ASSUME Live(t)'
      PROVE  /\ task'[t].scope = run'[task'[t].run].scope /\ task'[t].scope \in Scopes
             /\ task'[t].pc = "fixtures" => task'[t].scope # "catalog"
             /\ task'[t].pc = "live" => task'[t].scope \in {"live", "full"}
             /\ task'[t].pc \in {"player-history", "workers"} => task'[t].scope \in HistoryScopes
             /\ task'[t].pc \in Early => Crew[t] \cap exited' = {}
  <2>1. /\ Live(t) /\ task'[t].run = task[t].run /\ task'[t].scope = task[t].scope
        /\ task'[t].scope = run'[task'[t].run].scope /\ task[t].scope \in Scopes
    BY <1>1, <1>2, <1>4 DEF StagesFit, Live
  <2>2. ASSUME task'[t].pc \in {"catalog", "finish", "end", "persist", "publish"} \/ task'[t].pc = task[t].pc,
               exited' = exited \/ task'[t].pc \notin Early,
               task'[t].pc \in Early => task[t].pc \in Early
        PROVE  /\ task'[t].pc = "fixtures" => task[t].scope # "catalog"
               /\ task'[t].pc = "live" => task[t].scope \in {"live", "full"}
               /\ task'[t].pc \in {"player-history", "workers"} => task[t].scope \in HistoryScopes
               /\ task'[t].pc \in Early => Crew[t] \cap exited' = {}
    BY <2>1, <2>2 DEF StagesFit
  <2>3. ASSUME NEW pc, To(t, pc) PROVE task'[t].pc = pc
    BY <1>1, <2>3 DEF To, TaskRow
  <2>4. CASE Begin(t) \/ StageFails(t) \/ Publish(t) \/ Expire(t)
    <3>1. /\ task'[t].pc \in {"catalog", "finish"} \/ task'[t].pc = task[t].pc
          /\ exited' = exited /\ (task'[t].pc \in Early => task[t].pc \in Early)
      BY <1>1, <2>4 DEF Begin, StageFails, Publish, Expire, OnlyTask, TaskRow, Early
    <3> QED
      BY <2>1, <2>2, <3>1
  <2>5. CASE HistoriesDone(t) \/ Persisted(t) \/ FinishRun(t)
    <3>1. task'[t].pc \in {"persist", "publish", "end"} /\ exited' = exited
      BY <2>3, <2>5 DEF HistoriesDone, Persisted, FinishRun, OnlyTask
    <3> QED
      BY <2>1, <2>2, <3>1 DEF Early
  <2>6. CASE Fetched(t)
    <3>1. PICK next \in After(task[t].scope, task[t].pc) : task'[t].pc = next
      BY <2>3, <2>6 DEF Fetched
    <3>2. /\ task[t].pc \in {"catalog", "fixtures", "live"} /\ exited' = exited /\ task[t].pc \in Early
          /\ task[t].scope \in Datasets
      BY <2>1, <2>6, CoordinatorAssumption DEF Fetched, OnlyTask, Early
    <3>3. task[t].pc = "fixtures" => task[t].scope # "catalog"
      BY <2>1 DEF StagesFit
    <3>4. task[t].pc = "live" => task[t].scope \in {"live", "full"}
      BY <2>1 DEF StagesFit
    <3>5. Crew[t] \cap exited' = {}
      BY <2>1, <3>2 DEF StagesFit
    <3> QED
      BY <2>1, <3>1, <3>2, <3>3, <3>4, <3>5, NextStage
  <2>7. CASE EnqueueHistories(t)
    <3>1. task[t].pc = "player-history" /\ task'[t].pc = "workers"
      BY <2>3, <2>7 DEF EnqueueHistories
    <3> QED
      BY <2>1, <3>1 DEF StagesFit, Early
  <2>8. CASE WorkerStep(t)
    <3>1. task[t].pc = "workers" /\ task'[t].pc = task[t].pc
      <4>1. PICK w \in Crew[t] :
              \/ \E p \in Players : WorkerClaims(t, w, <<task[t].run, p>>)
              \/ WorkerExits(t, w)
              \/ WorkerSucceeds(t, w)
              \/ WorkerFails(t, w)
              \/ WorkerUnreported(t, w)
        BY <2>8 DEF WorkerStep
      <4>2. /\ task[t].pc = "workers"
            /\ task' = task \/ task' = [task EXCEPT ![t].bad = @ \cup {hold[w][2]}]
        BY <4>1 DEF WorkerClaims, WorkerExits, WorkerSucceeds, WorkerFails, WorkerUnreported, AtWork
      <4> QED
        BY <1>1, <4>2 DEF TaskRow
    <3> QED
      BY <2>1, <2>2, <3>1 DEF Early
  <2>9. ~End(t)
    BY <1>1, <1>4 DEF End, Idle, Live
  <2> QED
    BY <2>1, <2>4, <2>5, <2>6, <2>7, <2>8, <2>9 DEF TaskStep
<1> QED
  BY <1>3, <1>4 DEF StagesFit

\* What StartScopedSync does to the tasks there are: their runs stay open, and
\* none of their rows is moved or requeued.
LEMMA StartSpares ==
  ASSUME CoordInv, RunsAreOwn, NEW t \in Tasks, NEW r \in RunIds, NEW s \in Scopes, StartScopedSync(t, r, s),
         NEW u \in Tasks, Live(u), task[u].pc # "end"
  PROVE  /\ u # t /\ task[u].run # r /\ task'[u] = task[u] /\ run'[task[u].run].scope = run[task[u].run].scope
         /\ Crew[u] \cap exited' = Crew[u] \cap exited
         /\ \A p \in Players : item'[<<task[u].run, p>>] = item[<<task[u].run, p>>]
<1>1. /\ task \in [Tasks -> TaskRow] /\ run \in [RunIds -> RunRow] /\ QueueInv
      /\ task[u].run \in RunIds
  BY DEF CoordInv, TypeOK, QueueTypeOK, RunsAreKnown
<1>2. /\ StartSyncRun(r, s) /\ ~Used(r) /\ task[t].pc = "idle"
      /\ task' = [task EXCEPT ![t] = NewTask(r, s)] /\ exited' = exited \ Crew[t]
      /\ run' = [Recovered EXCEPT ![r] = [status |-> "running", scope |-> s, age |-> 0]]
  BY DEF StartScopedSync, Launch, StartSyncRun, NextRun
<1>3. u # t /\ task'[u] = task[u]
  BY <1>1, <1>2 DEF Live
<1>4. PICK q \in RunIds : q = task[u].run
  BY <1>1
<1>5. Used(q) /\ run[q].status = "running" /\ run[q].age <= task[u].age
  BY <1>4 DEF RunsAreOwn, LiveRunStaysOpen
<1>6. ~Expired(q) /\ q # r
  <2>1. task[u].age <= Timeout /\ task[u].age \in Nat /\ run[q].age \in Nat
    BY <1>1, QueueAssumption DEF TaskRow, RunRow
  <2>2. ~Expired(q)
    BY <1>5, <2>1, QueueAssumption DEF Expired
  <2> QED
    BY <1>2, <1>5, <2>2
<1>7. Recovered[q] = run[q] /\ run'[q] = run[q]
  BY <1>1, <1>2, <1>6 DEF Recovered
<1>8. Crew[u] \cap exited' = Crew[u] \cap exited
  BY <1>2, <1>3, CoordinatorAssumption
<1>9. ASSUME NEW p \in Players
      PROVE  item'[<<q, p>>] = item[<<q, p>>]
  <2>1. <<q, p>> \in Keys /\ <<q, p>>[1] = q
    BY DEF Keys
  <2>2. ~Gives(<<q, p>>, s)
    BY <1>5, <1>7, <2>1 DEF Gives, Donor, IsLast
  <2>3. Requeued[<<q, p>>] = item[<<q, p>>]
    BY <1>6, <2>1 DEF Requeued, StaleClaim
  <2> QED
    BY <1>1, <1>2, <1>6, <2>1, <2>2, <2>3, AfterStart
<1> QED
  BY <1>3, <1>4, <1>6, <1>7, <1>8, <1>9

\* The run that is inserted has open rows at most, and none if its scope has none.
LEMMA StartFills ==
  ASSUME CoordInv, ItemsFit, NEW t \in Tasks, NEW r \in RunIds, NEW s \in Scopes, StartScopedSync(t, r, s)
  PROVE  /\ \A p \in Players : item'[<<r, p>>].status \in {"absent", "pending", "retryable"}
         /\ ItemsFit'
<1>1. /\ run \in [RunIds -> RunRow] /\ QueueInv /\ item \in [Keys -> ItemRow]
  BY DEF CoordInv, TypeOK, QueueTypeOK
<1>2. /\ StartSyncRun(r, s) /\ ~Used(r)
      /\ run' = [Recovered EXCEPT ![r] = [status |-> "running", scope |-> s, age |-> 0]]
  BY DEF StartScopedSync, StartSyncRun, NextRun
<1>3. /\ \A q \in RunIds : Recovered[q].scope = run[q].scope
      /\ \A q \in RunIds : q # r => run'[q].scope = run[q].scope
      /\ run'[r].scope = s
  BY <1>1, <1>2 DEF Recovered, RunRow
<1>4. ASSUME NEW k \in Keys
      PROVE  /\ Requeued[k].status \in {item[k].status, "pending"} /\ Requeued[k].status # "failed"
             /\ Requeued[k].status = "pending" => Requeued[k].wait = 0
             /\ item[k].status = "absent" => Requeued[k].status = "absent"
  BY DEF Requeued, Reset, StaleClaim, ItemsFit
<1>5. \A k \in Keys : k[1] = r => Requeued[k].status = "absent"
  BY <1>1, <1>2, <1>4 DEF QueueInv, UnusedRunsAreEmpty
<1>6. \A k \in Keys : Gives(k, s) => /\ Requeued[k].status \in Claimable
                                     /\ run[k[1]].scope = s
  BY <1>3 DEF Gives, Donor, IsLast
<1>7. ASSUME NEW k \in Keys, k[1] # r
      PROVE  item'[k] = Absent \/ item'[k] = Requeued[k]
  BY <1>1, <1>2, <1>7, AfterStart
<1>8. ASSUME NEW p \in Players
      PROVE  \/ item'[<<r, p>>].status = "absent"
             \/ /\ item'[<<r, p>>].status \in Claimable /\ s \in HistoryScopes
                /\ item'[<<r, p>>].status = "pending" => item'[<<r, p>>].wait = 0
  <2>0. <<r, p>> \in Keys /\ <<r, p>>[1] = r
    BY DEF Keys
  <2>1. CASE \E k \in Keys : k[2] = p /\ Gives(k, s)
    <3>1. PICK k \in Keys : k[2] = p /\ Gives(k, s)
      BY <2>1
    <3>2. item'[<<r, p>>] = Requeued[k]
      BY <1>1, <1>2, <3>1, AfterStart
    <3>3. Requeued[k].status \in Claimable /\ run[k[1]].scope = s
      BY <1>6, <3>1
    <3>4. s \in HistoryScopes
      BY <1>4, <3>3 DEF ItemsFit, Claimable
    <3> QED
      BY <1>4, <3>2, <3>3, <3>4
  <2>2. CASE \A k \in Keys : k[2] = p => ~Gives(k, s)
    <3>1. item'[<<r, p>>] = Requeued[<<r, p>>]
      BY <1>1, <1>2, <2>2, AfterStart
    <3> QED
      BY <1>5, <2>0, <3>1
  <2> QED
    BY <2>1, <2>2
<1>9. ItemsFit'
  <2>1. ASSUME NEW k \in Keys
        PROVE  /\ run'[k[1]].scope \notin HistoryScopes => item'[k].status = "absent"
               /\ item'[k].status = "pending" => item'[k].wait = 0
               /\ item'[k].status # "failed"
    <3>1. CASE k[1] = r
      <4>1. k[2] \in Players /\ k = <<r, k[2]>>
        BY <3>1 DEF Keys
      <4> QED
        BY <1>3, <1>8, <3>1, <4>1 DEF Claimable
    <3>2. CASE k[1] # r
      <4>1. k[1] \in RunIds /\ run'[k[1]].scope = run[k[1]].scope
        BY <1>3, <3>2 DEF Keys
      <4>2. Absent.status = "absent"
        BY DEF Absent
      <4> QED
        BY <1>4, <1>7, <3>2, <4>1, <4>2 DEF ItemsFit
    <3> QED
      BY <3>1, <3>2
  <2> QED
    BY <2>1 DEF ItemsFit
<1> QED
  BY <1>8, <1>9 DEF Claimable

LEMMA StagesStep ==
  ASSUME CoordInv, retries' = 0, retry = NoRetry, RunsAreOwn, StagesFit, [Next]_vars
  PROVE  StagesFit'
<1>1. task \in [Tasks -> TaskRow] /\ \A u \in Tasks : Live(u) => task[u].run \in RunIds
  BY DEF CoordInv, TypeOK, RunsAreKnown
<1>2. ASSUME exited' = exited, \A r \in RunIds : run'[r].scope = run[r].scope,
             \A u \in Tasks : /\ task'[u].pc = task[u].pc /\ task'[u].run = task[u].run
                              /\ task'[u].scope = task[u].scope
      PROVE  StagesFit'
  BY <1>1, <1>2 DEF StagesFit, Live
<1>3. ASSUME NEW s \in Scopes, Start(s) PROVE StagesFit'
  <2>1. PICK t \in Tasks, r \in RunIds : StartScopedSync(t, r, s)
    BY <1>3 DEF Start
  <2>2. /\ task' = [task EXCEPT ![t] = NewTask(r, s)] /\ exited' = exited \ Crew[t] /\ ~Used(r)
        /\ run' = [Recovered EXCEPT ![r] = [status |-> "running", scope |-> s, age |-> 0]]
    BY <2>1 DEF StartScopedSync, Launch, StartSyncRun, NextRun
  <2>3. run'[r].scope = s /\ \A q \in RunIds : q # r => run'[q].scope = run[q].scope
    <3>1. run \in [RunIds -> RunRow]
      BY DEF CoordInv, TypeOK, QueueTypeOK
    <3> QED
      BY <2>2, <3>1 DEF Recovered, RunRow
  <2>4. task'[t] = NewTask(r, s) /\ \A u \in Tasks : u # t => task'[u] = task[u]
    BY <1>1, <2>2
  <2>5. ASSUME NEW u \in Tasks, u # t, Live(u)
        PROVE  run'[task[u].run].scope = run[task[u].run].scope
    BY <1>1, <2>2, <2>3, <2>5 DEF RunsAreOwn
  <2>6. NewTask(r, s).run = r /\ NewTask(r, s).scope = s /\ NewTask(r, s).pc = "begin"
    BY DEF NewTask
  <2>7. \A u \in Tasks : Crew[u] \cap exited' \subseteq Crew[u] \cap exited
    BY <2>2
  <2>8. Crew[t] \cap exited' = {}
    BY <2>2
  <2>9. ASSUME NEW u \in Tasks, u # t, Live(u)'
        PROVE  /\ task'[u].scope = run'[task'[u].run].scope /\ task'[u].scope \in Scopes
               /\ task'[u].pc = "fixtures" => task'[u].scope # "catalog"
               /\ task'[u].pc = "live" => task'[u].scope \in {"live", "full"}
               /\ task'[u].pc \in {"player-history", "workers"} => task'[u].scope \in HistoryScopes
               /\ task'[u].pc \in Early => Crew[u] \cap exited' = {}
    BY <2>4, <2>5, <2>7, <2>9 DEF StagesFit, Live
  <2> QED
    BY <2>3, <2>4, <2>6, <2>8, <2>9 DEF StagesFit
<1>4. ASSUME NEW t \in Tasks, TaskStep(t) PROVE StagesFit'
  BY <1>4, StagesTask
<1>5. CASE Elapse \/ Shutdown \/ Restart \/ UNCHANGED vars
  <2>1. \A u \in Tasks : task'[u].pc = task[u].pc /\ task'[u].run = task[u].run /\ task'[u].scope = task[u].scope
    BY <1>1, <1>5 DEF Elapse, Shutdown, Restart, vars, TaskRow
  <2>2. \A r \in RunIds : run'[r].scope = run[r].scope
    <3>1. run \in [RunIds -> RunRow]
      BY DEF CoordInv, TypeOK, QueueTypeOK
    <3> QED
      BY <1>5, <3>1 DEF Elapse, Age, Shutdown, Restart, vars, queueVars, RunRow
  <2> QED
    BY <1>2, <1>5, <2>1, <2>2 DEF Elapse, Shutdown, Restart, vars
<1>6. CASE Exit \/ Crash
  BY <1>6 DEF Exit, Crash, Forget, Idle, StagesFit, Live
<1> QED
  BY <1>3, <1>4, <1>5, <1>6, NoRetryStep DEF Next

LEMMA ItemsStep ==
  ASSUME CoordInv, retries' = 0, retry = NoRetry, ItemsFit, StagesFit, [Next]_vars
  PROVE  ItemsFit'
<1>1. /\ run \in [RunIds -> RunRow] /\ item \in [Keys -> ItemRow] /\ hold \in [Workers -> Keys \cup {NoClaim}]
      /\ \A u \in Tasks : Live(u) => task[u].run \in RunIds
      /\ LiveClaimsStayRunning
  BY DEF CoordInv, TypeOK, QueueTypeOK, RunsAreKnown, QueueInv
<1>2. \A k \in Keys : k[1] \in RunIds
  BY DEF Keys
<1>3. ASSUME item' = item, \A r \in RunIds : run'[r].scope = run[r].scope
      PROVE  ItemsFit'
  BY <1>2, <1>3 DEF ItemsFit
<1>4. ASSUME NEW s \in Scopes, Start(s) PROVE ItemsFit'
  BY <1>4, StartFills DEF Start
<1>5. ASSUME NEW t \in Tasks, TaskStep(t) PROVE ItemsFit'
  <2>1. \A r \in RunIds : run'[r].scope = run[r].scope
    BY <1>5, OthersKept
  <2>2. CASE \/ Begin(t) \/ Fetched(t) \/ StageFails(t) \/ HistoriesDone(t) \/ Persisted(t) \/ Publish(t)
             \/ FinishRun(t) \/ End(t) \/ Expire(t)
    BY <1>3, <2>1, <2>2 DEF Begin, Fetched, StageFails, HistoriesDone, Persisted, Publish, FinishRun,
       FinishSyncRun, End, Expire, queueVars
  <2>3. CASE EnqueueHistories(t)
    <3>1. /\ Live(t) /\ task[t].pc = "player-history"
          /\ item' = [k \in Keys |-> IF k[1] = task[t].run /\ k[2] \in Players /\ item[k].status = "absent"
                                     THEN NewItem ELSE item[k]]
      BY <2>3 DEF EnqueueHistories, EnqueueSyncWork, Live
    <3>2. run[task[t].run].scope \in HistoryScopes
      BY <3>1 DEF StagesFit
    <3> QED
      BY <1>2, <2>1, <3>1, <3>2 DEF ItemsFit, NewItem
  <2>4. CASE WorkerStep(t)
    <3>1. PICK w \in Crew[t] :
            \/ \E p \in Players : WorkerClaims(t, w, <<task[t].run, p>>)
            \/ WorkerExits(t, w)
            \/ WorkerSucceeds(t, w)
            \/ WorkerFails(t, w)
            \/ WorkerUnreported(t, w)
      BY <2>4 DEF WorkerStep
    <3>2. w \in Workers
      BY CoordinatorAssumption
    <3>3. ASSUME NEW k \in Keys, NEW x, item' = [item EXCEPT ![k] = x], item[k].status # "absent",
                 x.status \in {"running", "success", "retryable"}
          PROVE  ItemsFit'
      BY <1>1, <1>2, <2>1, <3>3 DEF ItemsFit
    <3>4. CASE WorkerExits(t, w) \/ WorkerUnreported(t, w)
      BY <1>3, <2>1, <3>4 DEF WorkerExits, WorkerUnreported, LoseClaims, queueVars
    <3>5. ASSUME NEW p \in Players, WorkerClaims(t, w, <<task[t].run, p>>)
          PROVE  ItemsFit'
      <4>1. PICK k \in Keys : k = <<task[t].run, p>>
        BY <1>1, <3>5 DEF WorkerClaims, AtWork, Live, Keys
      <4>2. item' = [item EXCEPT ![k] = Claimed(item[k])] /\ item[k].status \in Claimable
        BY <1>1, <3>5, <4>1 DEF WorkerClaims, ClaimSyncWork, Ready
      <4> QED
        BY <3>3, <4>2 DEF Claimed, Claimable
    <3>6. CASE WorkerSucceeds(t, w) \/ WorkerFails(t, w)
      <4>1. PICK k \in Keys : k = hold[w]
        BY <1>1, <3>2, <3>6 DEF WorkerSucceeds, WorkerFails, CompleteSyncWork, FailSyncWork
      <4>2. item[k].status = "running"
        BY <1>1, <3>2, <4>1, QueueAssumption DEF LiveClaimsStayRunning
      <4>3. item' = [item EXCEPT ![k] = Completed(item[k])] \/ item' = [item EXCEPT ![k] = Failed(item[k])]
        BY <1>1, <3>6, <4>1 DEF WorkerSucceeds, WorkerFails, CompleteSyncWork, FailSyncWork
      <4> QED
        BY <3>3, <4>2, <4>3 DEF Completed, Failed
    <3> QED
      BY <3>1, <3>4, <3>5, <3>6
  <2> QED
    BY <1>5, <2>2, <2>3, <2>4 DEF TaskStep
<1>6. CASE Elapse
  <2>1. \A k \in Keys : /\ item'[k].status = item[k].status
                        /\ item[k].wait = 0 => item'[k].wait = 0
    BY <1>1, <1>6 DEF Elapse, Age, ItemRow
  <2>2. \A r \in RunIds : run'[r].scope = run[r].scope
    BY <1>1, <1>6 DEF Elapse, Age, RunRow
  <2> QED
    BY <1>2, <2>1, <2>2 DEF ItemsFit
<1>7. CASE Shutdown \/ Exit \/ Crash \/ Restart \/ UNCHANGED vars
  BY <1>3, <1>7 DEF Shutdown, Exit, Crash, Forget, LoseClaims, Restart, vars, queueVars
<1> QED
  BY <1>4, <1>5, <1>6, <1>7, NoRetryStep DEF Next

\* A task that goes on without touching a row.
LEMMA RowsKept ==
  ASSUME NEW t \in Tasks, RowsFit(t), task'[t].run = task[t].run, task'[t].scope = task[t].scope,
         \/ task'[t].pc = task[t].pc
         \/ task'[t].pc \in Early /\ task[t].pc \in Early
         \/ task'[t].pc \in {"finish", "end"}
         \/ task'[t].pc = "publish" /\ task[t].pc = "persist"
         \/ task'[t].pc = "persist" /\ task[t].scope \notin HistoryScopes,
         \A p \in Players : item'[<<task[t].run, p>>].status = item[<<task[t].run, p>>].status,
         \A p \in Players : InHand(t, <<task[t].run, p>>) => InHand(t, <<task[t].run, p>>)',
         Crew[t] \cap exited' = Crew[t] \cap exited
  PROVE  RowsFit(t)'
<1>1. Left(t)' = Left(t)
  BY DEF Left
<1>2. ASSUME NEW p \in Players, NEW k, k = <<task[t].run, p>>
      PROVE  RowFits(task'[t].pc, task'[t].scope, item'[k].status, InHand(t, k)', Left(t)')
  <2>1. RowFits(task[t].pc, task[t].scope, item[k].status, InHand(t, k), Left(t))
    BY <1>2 DEF RowsFit
  <2>2. item'[k].status = item[k].status /\ (InHand(t, k) => InHand(t, k)')
    BY <1>2
  <2> QED
    BY <1>1, <2>1, <2>2 DEF RowFits, Early
<1> QED
  BY <1>2 DEF RowsFit

\* A row that a worker of t has claimed is not of another run that still counts.
LEMMA ClaimsOfOthers ==
  ASSUME CoordInv, TriedInv, NEW t \in Tasks, NEW u \in Tasks, u # t, Live(u), Alive(u),
         NEW w \in Crew[t], NEW p \in Players, hold[w] = <<task[u].run, p>>
  PROVE  task[u].pc \in {"finish", "end"}
<1>1. task[u] \in TaskRow /\ task[u].run \in RunIds /\ w \in Workers
  BY CoordinatorAssumption DEF CoordInv, TypeOK, RunsAreKnown
<1>2. PICK k \in Keys : k = <<task[u].run, p>> /\ k[1] = task[u].run
  BY <1>1 DEF Keys
<1>3. item[k].status = "running"
  BY <1>1, <1>2, QueueAssumption DEF CoordInv, QueueInv, LiveClaimsStayRunning
<1>4. ~InHand(u, k)
  <2>1. ASSUME NEW v \in Crew[u], hold[v] = k PROVE FALSE
    <3>1. v # w /\ v \in Workers
      BY CoordinatorAssumption
    <3> QED
      BY <1>1, <1>2, <2>1, <3>1, QueueAssumption DEF CoordInv, QueueInv, ClaimsAreExclusive
  <2> QED
    BY <2>1 DEF InHand
<1>5. RowFits(task[u].pc, task[u].scope, item[k].status, InHand(u, k), Left(u))
  BY <1>2 DEF TriedInv, RowsFit
<1>6. task[u].scope \in HistoryScopes
  BY <1>2, <1>3 DEF TriedInv, ItemsFit, StagesFit
<1> QED
  BY <1>1, <1>3, <1>4, <1>5, <1>6 DEF RowFits, Early, Working, TaskRow, Live

\* What a worker's step does to the rows of its own run.
LEMMA OwnWorkerRows ==
  ASSUME CoordInv, TriedInv, ~DBFaults, NEW t \in Tasks, WorkerStep(t), Alive(t)
  PROVE  RowsFit(t)'
<1>0. /\ task \in [Tasks -> TaskRow] /\ item \in [Keys -> ItemRow] /\ hold \in [Workers -> Keys \cup {NoClaim}]
      /\ Crew[t] \subseteq Workers
  BY CoordinatorAssumption DEF CoordInv, TypeOK, QueueTypeOK
<1>1. PICK w \in Crew[t] :
        \/ \E p \in Players : WorkerClaims(t, w, <<task[t].run, p>>)
        \/ WorkerExits(t, w)
        \/ WorkerSucceeds(t, w)
        \/ WorkerFails(t, w)
        \/ WorkerUnreported(t, w)
  BY DEF WorkerStep
<1>2. /\ task[t].pc = "workers" /\ w \notin exited
      /\ task' = task \/ task' = [task EXCEPT ![t].bad = @ \cup {hold[w][2]}]
  BY <1>1 DEF WorkerClaims, WorkerExits, WorkerSucceeds, WorkerFails, WorkerUnreported, AtWork
<1>3. /\ task'[t].pc = "workers" /\ task'[t].run = task[t].run /\ task'[t].scope = task[t].scope
      /\ task[t].run \in RunIds
  BY <1>0, <1>2 DEF TaskRow, CoordInv, RunsAreKnown, Live
<1>4. ~WorkerUnreported(t, w)
  BY DEF WorkerUnreported
<1>5. \A p \in Players : <<task[t].run, p>> \in Keys
  BY <1>3 DEF Keys
<1> SUFFICES ASSUME NEW p \in Players, NEW k \in Keys, k = <<task[t].run, p>>
             PROVE  RowFits("workers", task[t].scope, item'[k].status, InHand(t, k)', Left(t)')
  BY <1>3, <1>5 DEF RowsFit
<1>6. RowFits("workers", task[t].scope, item[k].status, InHand(t, k), Left(t))
  BY <1>2 DEF TriedInv, RowsFit, Live
<1>7. CASE WorkerExits(t, w)
  <2>1. /\ exited' = exited \cup {w} /\ UNCHANGED queueVars /\ hold[w] = NoClaim
        /\ \A q \in Players : ~Ready(<<task[t].run, q>>)
    BY <1>7 DEF WorkerExits
  <2>2. item[k].status # "pending"
    BY <2>1 DEF Ready, Claimable, TriedInv, ItemsFit
  <2>3. ASSUME InHand(t, k) PROVE InHand(t, k)'
    <3>1. PICK v \in Crew[t] \ exited : hold[v] = k
      BY <2>3 DEF InHand
    <3>2. v # w
      BY <2>1, <3>1, QueueAssumption
    <3>3. v \in Crew[t] \ exited' /\ hold'[v] = hold[v] /\ task'[t].run = task[t].run
      BY <1>3, <2>1, <3>1, <3>2 DEF queueVars
    <3> QED
      BY <3>1, <3>3 DEF InHand
  <2> QED
    BY <1>6, <2>1, <2>2, <2>3 DEF RowFits, queueVars, Early
<1>8. ASSUME NEW q \in Players, WorkerClaims(t, w, <<task[t].run, q>>)
      PROVE  RowFits("workers", task[t].scope, item'[k].status, InHand(t, k)', Left(t)')
  <2>1. PICK c \in Keys : c = <<task[t].run, q>>
    BY <1>5
  <2>2. /\ item' = [item EXCEPT ![c] = Claimed(@)] /\ hold' = [hold EXCEPT ![w] = c] /\ hold[w] = NoClaim
        /\ exited' = exited
    BY <1>8, <2>1 DEF WorkerClaims, ClaimSyncWork, OnlyQueue
  <2>3. Left(t)' = Left(t)
    BY <2>2 DEF Left
  <2>4. CASE k = c
    <3>1. item'[k].status = "running"
      BY <1>0, <2>2, <2>4 DEF Claimed
    <3>2. InHand(t, k)'
      BY <1>0, <1>2, <2>2, <2>4 DEF InHand
    <3> QED
      BY <3>1, <3>2 DEF RowFits, Early
  <2>5. CASE k # c
    <3>1. item'[k] = item[k]
      BY <1>0, <2>2, <2>5
    <3>2. ASSUME InHand(t, k) PROVE InHand(t, k)'
      <4>1. PICK v \in Crew[t] \ exited : hold[v] = k
        BY <3>2 DEF InHand
      <4>2. v # w /\ hold'[v] = k
        BY <1>0, <2>2, <4>1, QueueAssumption
      <4> QED
        BY <2>2, <4>1, <4>2 DEF InHand
    <3> QED
      BY <1>6, <2>3, <3>1, <3>2 DEF RowFits
  <2> QED
    BY <2>4, <2>5
<1>9. CASE WorkerSucceeds(t, w) \/ WorkerFails(t, w)
  <2>1. PICK c \in Keys : c = hold[w]
    BY <1>0, <1>9 DEF WorkerSucceeds, WorkerFails, CompleteSyncWork, FailSyncWork
  <2>2. /\ item' = [item EXCEPT ![c] = Completed(item[c])] \/ item' = [item EXCEPT ![c] = Failed(item[c])]
        /\ hold' = [hold EXCEPT ![w] = NoClaim] /\ exited' = exited
    BY <1>0, <1>9, <2>1 DEF WorkerSucceeds, WorkerFails, CompleteSyncWork, FailSyncWork, OnlyQueue
  <2>3. Left(t)' = Left(t)
    BY <2>2 DEF Left
  <2>4. CASE k = c
    <3>1. item'[k].status \in {"success", "retryable"}
      BY <1>0, <2>2, <2>4 DEF Completed, Failed
    <3> QED
      BY <3>1 DEF RowFits, Early
  <2>5. CASE k # c
    <3>1. item'[k] = item[k]
      BY <1>0, <2>2, <2>5
    <3>2. ASSUME InHand(t, k) PROVE InHand(t, k)'
      <4>1. PICK v \in Crew[t] \ exited : hold[v] = k
        BY <3>2 DEF InHand
      <4>2. v # w /\ hold'[v] = k
        BY <1>0, <2>1, <2>2, <2>5, <4>1
      <4> QED
        BY <2>2, <4>1, <4>2 DEF InHand
    <3> QED
      BY <1>6, <2>3, <3>1, <3>2 DEF RowFits
  <2> QED
    BY <2>4, <2>5
<1> QED
  BY <1>1, <1>4, <1>7, <1>8, <1>9

\* ... and to those of the others.
LEMMA OtherRows ==
  ASSUME CoordInv, RunsAreOwn, TriedInv, NEW t \in Tasks, TaskStep(t),
         NEW u \in Tasks, u # t, Live(u), Alive(u)
  PROVE  RowsFit(u)'
<1>0. /\ task \in [Tasks -> TaskRow] /\ item \in [Keys -> ItemRow] /\ hold \in [Workers -> Keys \cup {NoClaim}]
      /\ Crew[t] \subseteq Workers /\ Crew[u] \subseteq Workers /\ Crew[t] \cap Crew[u] = {}
      /\ \A v \in Tasks : Live(v) => task[v].run \in RunIds
  BY CoordinatorAssumption DEF CoordInv, TypeOK, QueueTypeOK, RunsAreKnown
<1>1. task'[u] = task[u] /\ Crew[u] \cap exited' = Crew[u] \cap exited
  BY OthersKept
<1>2. RowsFit(u)
  BY DEF TriedInv
<1>3. \A p \in Players : <<task[u].run, p>> \in Keys
  BY <1>0 DEF Keys
<1>4. ASSUME \A p \in Players : item'[<<task[u].run, p>>].status = item[<<task[u].run, p>>].status,
             \A w \in Crew[u] : hold'[w] = hold[w]
      PROVE  RowsFit(u)'
  <2>1. \A p \in Players : InHand(u, <<task[u].run, p>>) => InHand(u, <<task[u].run, p>>)'
    BY <1>1, <1>4 DEF InHand
  <2> QED
    BY <1>1, <1>2, <1>4, <2>1, RowsKept
<1>5. CASE task[u].pc \in {"finish", "end"}
  BY <1>1, <1>5 DEF RowsFit, RowFits, Early
<1>6. CASE \/ Begin(t) \/ Fetched(t) \/ StageFails(t) \/ HistoriesDone(t) \/ Persisted(t) \/ Publish(t)
           \/ FinishRun(t) \/ End(t) \/ Expire(t)
  BY <1>4, <1>6 DEF Begin, Fetched, StageFails, HistoriesDone, Persisted, Publish, FinishRun,
     FinishSyncRun, End, Expire, queueVars
<1>7. CASE EnqueueHistories(t)
  <2>1. task[t].run # task[u].run
    BY <1>7 DEF EnqueueHistories, RunsAreOwn, Live
  <2>2. /\ item' = [k \in Keys |-> IF k[1] = task[t].run /\ k[2] \in Players /\ item[k].status = "absent"
                                   THEN NewItem ELSE item[k]]
        /\ hold' = hold
    BY <1>7 DEF EnqueueHistories, EnqueueSyncWork
  <2> QED
    BY <1>3, <1>4, <2>1, <2>2
<1>8. CASE WorkerStep(t) /\ task[u].pc \notin {"finish", "end"}
  <2>1. PICK w \in Crew[t] :
          \/ \E p \in Players : WorkerClaims(t, w, <<task[t].run, p>>)
          \/ WorkerExits(t, w)
          \/ WorkerSucceeds(t, w)
          \/ WorkerFails(t, w)
          \/ WorkerUnreported(t, w)
    BY <1>8 DEF WorkerStep
  <2>2. w \in Workers /\ w \notin Crew[u]
    BY <1>0
  <2>3. CASE WorkerExits(t, w)
    BY <1>4, <2>3 DEF WorkerExits, queueVars
  <2>4. CASE WorkerUnreported(t, w)
    <3>1. item' = item /\ \A v \in Crew[u] : hold'[v] = hold[v]
      BY <1>0, <2>2, <2>4 DEF WorkerUnreported, LoseClaims
    <3> QED
      BY <1>4, <3>1
  <2>5. ASSUME NEW p \in Players, WorkerClaims(t, w, <<task[t].run, p>>) PROVE RowsFit(u)'
    <3>1. task[t].run # task[u].run
      BY <2>5 DEF WorkerClaims, AtWork, RunsAreOwn, Live
    <3>2. /\ item' = [item EXCEPT ![<<task[t].run, p>>] = Claimed(@)]
          /\ hold' = [hold EXCEPT ![w] = <<task[t].run, p>>]
      BY <2>5 DEF WorkerClaims, ClaimSyncWork
    <3>3. \A q \in Players : item'[<<task[u].run, q>>] = item[<<task[u].run, q>>]
      BY <1>0, <1>3, <3>1, <3>2
    <3>4. \A v \in Crew[u] : hold'[v] = hold[v]
      BY <1>0, <2>2, <3>2
    <3> QED
      BY <1>4, <3>3, <3>4
  <2>6. CASE WorkerSucceeds(t, w) \/ WorkerFails(t, w)
    <3>1. PICK c \in Keys : c = hold[w]
      BY <1>0, <2>2, <2>6 DEF WorkerSucceeds, WorkerFails, CompleteSyncWork, FailSyncWork
    <3>2. /\ item' = [item EXCEPT ![c] = Completed(item[c])] \/ item' = [item EXCEPT ![c] = Failed(item[c])]
          /\ hold' = [hold EXCEPT ![w] = NoClaim]
      BY <1>0, <2>6, <3>1 DEF WorkerSucceeds, WorkerFails, CompleteSyncWork, FailSyncWork
    <3>3. \A q \in Players : <<task[u].run, q>> # c
      BY <1>8, <3>1, ClaimsOfOthers
    <3>4. \A q \in Players : item'[<<task[u].run, q>>] = item[<<task[u].run, q>>]
      BY <1>0, <1>3, <3>2, <3>3
    <3>5. \A v \in Crew[u] : hold'[v] = hold[v]
      BY <1>0, <2>2, <3>2
    <3> QED
      BY <1>4, <3>4, <3>5
  <2> QED
    BY <2>1, <2>3, <2>4, <2>5, <2>6
<1> QED
  BY <1>5, <1>6, <1>7, <1>8 DEF TaskStep

\* A task's own step and its rows.
LEMMA OwnRows ==
  ASSUME CoordInv, TriedInv, ~DBFaults, NEW t \in Tasks, TaskStep(t), Live(t)', Alive(t)'
  PROVE  RowsFit(t)'
<1>0. /\ task \in [Tasks -> TaskRow] /\ item \in [Keys -> ItemRow]
  BY DEF CoordInv, TypeOK, QueueTypeOK
<1>1. /\ Live(t) /\ task'[t].run = task[t].run /\ task'[t].scope = task[t].scope /\ Alive(t)
  BY OthersKept DEF Live
<1>2. RowsFit(t) /\ task[t].run \in RunIds /\ task[t].scope \in Scopes
  BY <1>1 DEF TriedInv, StagesFit, CoordInv, RunsAreKnown
<1>3. ASSUME NEW pc, To(t, pc) PROVE task'[t].pc = pc
  BY <1>0, <1>3 DEF To, TaskRow
<1>4. ASSUME UNCHANGED <<item, hold, exited>>,
             \/ task'[t].pc \in Early /\ task[t].pc \in Early
             \/ task'[t].pc \in {"finish", "end"}
             \/ task'[t].pc = "publish" /\ task[t].pc = "persist"
             \/ task'[t].pc = "persist" /\ task[t].scope \notin HistoryScopes
      PROVE  RowsFit(t)'
  <2>1. \A p \in Players : InHand(t, <<task[t].run, p>>) => InHand(t, <<task[t].run, p>>)'
    BY <1>1, <1>4 DEF InHand
  <2> QED
    BY <1>1, <1>2, <1>4, <2>1, RowsKept
<1>5. CASE Begin(t) \/ StageFails(t) \/ Publish(t)
  <2>1. \/ task'[t].pc = "catalog" /\ task[t].pc = "begin"
        \/ task'[t].pc = "finish"
    BY <1>0, <1>5 DEF Begin, StageFails, Publish, TaskRow
  <2> QED
    BY <1>4, <1>5, <2>1 DEF Begin, StageFails, Publish, OnlyTask, queueVars, Early
<1>6. CASE Persisted(t) \/ FinishRun(t)
  <2>1. \/ task'[t].pc = "publish" /\ task[t].pc = "persist"
        \/ task'[t].pc = "end"
    BY <1>3, <1>6 DEF Persisted, FinishRun
  <2> QED
    BY <1>4, <1>6, <2>1 DEF Persisted, FinishRun, FinishSyncRun, OnlyTask, queueVars
<1>7. CASE Fetched(t)
  <2>1. PICK next \in After(task[t].scope, task[t].pc) : task'[t].pc = next
    BY <1>3, <1>7 DEF Fetched
  <2>2. /\ task[t].pc \in {"catalog", "fixtures", "live"} /\ task[t].scope \in Datasets
        /\ task[t].pc = "fixtures" => task[t].scope # "catalog"
        /\ task[t].pc = "live" => task[t].scope \in {"live", "full"}
    BY <1>1, <1>2, <1>7, CoordinatorAssumption DEF Fetched, TriedInv, StagesFit
  <2>3. next \in {"fixtures", "live", "player-history"} \/ (next = "persist" /\ task[t].scope \notin HistoryScopes)
    BY <2>1, <2>2, NextStage
  <2> QED
    BY <1>4, <1>7, <2>1, <2>2, <2>3 DEF Fetched, OnlyTask, queueVars, Early
<1>8. CASE EnqueueHistories(t)
  <2>1. /\ task[t].pc = "player-history" /\ task'[t].pc = "workers" /\ exited' = exited
        /\ item' = [k \in Keys |-> IF k[1] = task[t].run /\ k[2] \in Players /\ item[k].status = "absent"
                                   THEN NewItem ELSE item[k]]
    BY <1>3, <1>8 DEF EnqueueHistories, EnqueueSyncWork, OnlyTask
  <2>2. ~Left(t)'
    BY <1>1, <2>1 DEF TriedInv, StagesFit, Early, Left
  <2>3. ASSUME NEW p \in Players, NEW k \in Keys, k = <<task[t].run, p>>
        PROVE  RowFits("workers", task[t].scope, item'[k].status, InHand(t, k)', Left(t)')
    <3>1. item[k].status \in {"absent", "pending", "retryable"}
      BY <1>2, <2>1, <2>3 DEF RowsFit, RowFits, Early
    <3>2. item'[k].status \in {"pending", "retryable"}
      BY <2>1, <2>3, <3>1 DEF NewItem
    <3> QED
      BY <2>2, <3>2 DEF RowFits, Early
  <2>4. \A p \in Players : <<task[t].run, p>> \in Keys
    BY <1>2 DEF Keys
  <2> QED
    BY <1>1, <2>1, <2>3, <2>4 DEF RowsFit
<1>9. CASE HistoriesDone(t)
  <2>1. /\ task[t].pc = "workers" /\ task'[t].pc = "persist" /\ Crew[t] \subseteq exited /\ item' = item
    BY <1>3, <1>9 DEF HistoriesDone, queueVars
  <2>2. Left(t)
    BY <2>1, CoordinatorAssumption DEF Left
  <2>3. ASSUME NEW p \in Players, NEW k \in Keys, k = <<task[t].run, p>>
        PROVE  RowFits("persist", task[t].scope, item'[k].status, InHand(t, k)', Left(t)')
    <3>1. RowFits("workers", task[t].scope, item[k].status, InHand(t, k), Left(t))
      BY <1>2, <2>1, <2>3 DEF RowsFit
    <3>2. ~InHand(t, k)
      BY <2>1 DEF InHand
    <3>3. item[k].status # "failed" /\ item[k] \in ItemRow
      BY <1>0 DEF TriedInv, ItemsFit
    <3>4. item[k].status \in {"success", "retryable"}
      BY <2>2, <3>1, <3>2, <3>3 DEF RowFits, ItemRow
    <3> QED
      BY <2>1, <3>4 DEF RowFits, Early
  <2>4. \A p \in Players : <<task[t].run, p>> \in Keys
    BY <1>2 DEF Keys
  <2> QED
    BY <1>1, <2>1, <2>3, <2>4 DEF RowsFit
<1>10. ~End(t)
  BY <1>0 DEF End, Idle, Live
<1>11. ~Expire(t)
  <2>1. Expire(t) => task'[t].ctx = "expired"
    BY <1>0 DEF Expire, TaskRow
  <2> QED
    BY <2>1 DEF Alive
<1> QED
  BY <1>1, <1>5, <1>6, <1>7, <1>8, <1>9, <1>10, <1>11, OwnWorkerRows DEF TaskStep

LEMMA TriedStep ==
  ASSUME CoordInv, retries' = 0, retry = NoRetry, RunsAreOwn, ~DBFaults, TriedInv, [Next]_vars
  PROVE  TriedInv'
<1>0. task \in [Tasks -> TaskRow] /\ item \in [Keys -> ItemRow]
  BY DEF CoordInv, TypeOK, QueueTypeOK
<1>1. ItemsFit' /\ StagesFit'
  BY ItemsStep, StagesStep DEF TriedInv
<1> SUFFICES ASSUME NEW u \in Tasks, Live(u)', Alive(u)'
             PROVE  RowsFit(u)'
  BY <1>1 DEF TriedInv
<1>2. ASSUME Live(u), Alive(u), task'[u].run = task[u].run, task'[u].scope = task[u].scope, task'[u].pc = task[u].pc,
             \A p \in Players : item'[<<task[u].run, p>>].status = item[<<task[u].run, p>>].status,
             hold' = hold, Crew[u] \cap exited' = Crew[u] \cap exited
      PROVE  RowsFit(u)'
  <2>1. \A p \in Players : InHand(u, <<task[u].run, p>>) => InHand(u, <<task[u].run, p>>)'
    BY <1>2 DEF InHand
  <2> QED
    BY <1>2, <2>1, RowsKept DEF TriedInv
<1>3. ASSUME NEW s \in Scopes, Start(s) PROVE RowsFit(u)'
  <2>1. PICK t \in Tasks, r \in RunIds : StartScopedSync(t, r, s)
    BY <1>3 DEF Start
  <2>2. task' = [task EXCEPT ![t] = NewTask(r, s)] /\ hold' = hold
    BY <2>1 DEF StartScopedSync, Launch, StartSyncRun
  <2>3. CASE u = t
    <3>1. task'[u].run = r /\ task'[u].pc = "begin"
      BY <1>0, <2>2, <2>3 DEF NewTask
    <3>2. \A p \in Players : item'[<<r, p>>].status \in {"absent", "pending", "retryable"}
      BY <2>1, StartFills DEF TriedInv
    <3> QED
      BY <3>1, <3>2 DEF RowsFit, RowFits
  <2>4. CASE u # t
    <3>1. task'[u] = task[u] /\ Live(u) /\ Alive(u)
      BY <1>0, <2>2, <2>4 DEF Live, Alive
    <3>2. CASE task[u].pc = "end"
      BY <3>1, <3>2 DEF RowsFit, RowFits, Early
    <3>3. CASE task[u].pc # "end"
      <4>1. /\ Crew[u] \cap exited' = Crew[u] \cap exited
            /\ \A p \in Players : item'[<<task[u].run, p>>] = item[<<task[u].run, p>>]
        BY <2>1, <3>1, <3>3, StartSpares
      <4> QED
        BY <1>2, <2>2, <3>1, <4>1
    <3> QED
      BY <3>2, <3>3
  <2> QED
    BY <2>3, <2>4
<1>4. ASSUME NEW t \in Tasks, TaskStep(t) PROVE RowsFit(u)'
  <2>1. CASE u = t
    BY <1>4, <2>1, OwnRows
  <2>2. CASE u # t
    <3>1. Live(u) /\ Alive(u)
      BY <1>4, <2>2, OthersKept DEF Live, Alive
    <3> QED
      BY <1>4, <2>2, <3>1, OtherRows
  <2> QED
    BY <2>1, <2>2
<1>5. CASE Elapse
  <2>1. /\ task'[u].pc = task[u].pc /\ task'[u].run = task[u].run /\ task'[u].scope = task[u].scope
        /\ task'[u].ctx = task[u].ctx
    BY <1>0, <1>5 DEF Elapse, TaskRow
  <2>2. task[u].run \in RunIds
    BY <2>1 DEF CoordInv, RunsAreKnown, Live
  <2>3. \A p \in Players : item'[<<task[u].run, p>>].status = item[<<task[u].run, p>>].status
    <3>1. \A p \in Players : <<task[u].run, p>> \in Keys
      BY <2>2 DEF Keys
    <3>2. \A k \in Keys : item'[k].status = item[k].status
      BY <1>0, <1>5 DEF Elapse, Age, ItemRow
    <3> QED
      BY <3>1, <3>2
  <2>4. Live(u) /\ Alive(u)
    BY <2>1 DEF Live, Alive
  <2> QED
    BY <1>2, <1>5, <2>1, <2>3, <2>4 DEF Elapse, Age
<1>6. ~Exit /\ ~Crash
  BY DEF Exit, Crash, Forget, Idle, Live
<1>7. CASE Shutdown
  <2>1. task'[u] = task[u] /\ ~(Live(u) /\ Alive(u))
    BY <1>0, <1>7 DEF Shutdown, Alive, Live, TaskRow
  <2> QED
    BY <2>1 DEF Live, Alive
<1>8. CASE Restart \/ UNCHANGED vars
  BY <1>2, <1>8 DEF Restart, vars, queueVars, Live, Alive
<1> QED
  BY <1>3, <1>4, <1>5, <1>6, <1>7, <1>8, NoRetryStep DEF Next

\* When the last worker of a synchronisation has gone, every player of the
\* catalogue has been tried in this run or waits from an earlier one, however the
\* workers share the rows and whatever tasks were stopped, expired or abandoned
\* before; without a retry and without errors of the database (api.go:850-880,
\* ClaimSyncWork, repository.go).
THEOREM EveryPlayerIsTried == Spec => []NothingLeftUntried
<1> DEFINE Steady == retries = 0 => StoreIsLock /\ RunsAreOwn
           Tried == retries = 0 /\ ~DBFaults => TriedInv
<1>1. Init => Tried
  <2> SUFFICES ASSUME Init PROVE TriedInv
    OBVIOUS
  <2>1. ItemsFit
    BY DEF Init, QueueInit, Absent, ItemsFit
  <2>2. \A t \in Tasks : ~Live(t)
    BY DEF Init, Idle, Live
  <2> QED
    BY <2>1, <2>2 DEF TriedInv, StagesFit
<1>2. CoordInv /\ Steady /\ Tried /\ [Next]_vars => Tried'
  <2> SUFFICES ASSUME CoordInv, Steady, Tried, [Next]_vars, retries' = 0, ~DBFaults
               PROVE  TriedInv'
    OBVIOUS
  <2>1. retries = 0
    BY RetriesCounted
  <2>2. retry = NoRetry /\ RunsAreOwn /\ TriedInv
    BY <2>1 DEF StoreIsLock
  <2> QED
    BY <2>2, TriedStep
<1>3. CoordInv /\ Tried => NothingLeftUntried
  <2> SUFFICES ASSUME CoordInv, TriedInv, NEW t \in Tasks, NEW p \in Players,
                      task[t].pc \in {"persist", "publish"}, Alive(t)
               PROVE  item[<<task[t].run, p>>].status \in
                        (IF task[t].scope \in {"full", "player-history"} THEN {"success", "retryable"} ELSE {"absent"})
    BY DEF NothingLeftUntried
  <2>1. Live(t)
    BY DEF Live
  <2>2. <<task[t].run, p>> \in Keys
    BY <2>1 DEF CoordInv, RunsAreKnown, Keys
  <2>3. RowFits(task[t].pc, task[t].scope, item[<<task[t].run, p>>].status, InHand(t, <<task[t].run, p>>), Left(t))
    BY <2>1 DEF TriedInv, RowsFit
  <2>4. CASE task[t].scope \in HistoryScopes
    BY <2>3, <2>4 DEF RowFits, HistoryScopes
  <2>5. CASE task[t].scope \notin HistoryScopes
    BY <2>1, <2>2, <2>5 DEF TriedInv, StagesFit, ItemsFit, HistoryScopes
  <2> QED
    BY <2>4, <2>5 DEF HistoryScopes
<1> QED
  BY <1>1, <1>2, <1>3, WithoutRetries, CoordinatorInvariant, PTL DEF Spec
=============================================================================
