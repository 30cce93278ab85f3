------------------------------ MODULE SyncQueue ------------------------------
(***************************************************************************)
(* The durable queue of the public synchronisation: the tables sync_runs   *)
(* and sync_work_items and the transactions PostgresRepository runs on     *)
(* them (backend/internal/app/repository.go), with the claims that the     *)
(* workers of syncQueuedHistories (api.go) hold between two transactions.  *)
(*                                                                         *)
(* Each action is one SQL statement or one WithTransaction call, hence     *)
(* atomic.  A row of sync_work_items is identified by its key              *)
(* <<sync_run_id, player>>, which the table declares UNIQUE; moving a row  *)
(* to another run changes its key.                                         *)
(*                                                                         *)
(* Time is kept as ages that stop growing once they exceed Lease: the code *)
(* only ever compares started_at and claimed_at with a ten minute lease    *)
(* and available_at with the present.  The claimed_at of a row that is not *)
(* running is never read: its age is kept at 0.                            *)
(***************************************************************************)
EXTENDS Integers, FiniteSets

CONSTANTS
  Scopes,       \* the (dataset, season, gameweek) triples a run may have
  NoScope,      \* the scope of a row that has not been inserted
  Players,      \* the players of the catalogue; one work item each
  Workers,      \* the goroutines that claim items
  NoClaim,      \* what a worker without an item holds
  MaxRuns,      \* bound: how many rows sync_runs may get
  Lease,        \* the ten minute lease of StartSyncRun, in ticks
  Timeout,      \* the five minute context of startSync, in ticks
  BackoffUnit,  \* the wait one failed attempt costs, in ticks
  BackoffCap,   \* the longest wait after a failure, in ticks
  MaxAttempts   \* bound: attempts are not counted beyond this

RunIds == 1 .. MaxRuns
Keys == RunIds \X Players

ASSUME QueueAssumption ==
  /\ NoScope \notin Scopes
  /\ NoClaim \notin Keys
  /\ MaxRuns \in Nat
  /\ Lease \in Nat
  /\ Timeout \in Nat
  /\ Timeout <= Lease
  /\ BackoffUnit \in Nat
  /\ BackoffCap \in Nat
  /\ MaxAttempts \in Nat

\* Counting no further than MaxAttempts does not change any wait.
ASSUME AttemptsAssumption == MaxAttempts * BackoffUnit >= BackoffCap

VARIABLES
  run,   \* sync_runs: run[r] is the row with id r
  item,  \* sync_work_items: item[<<r, p>>] is the row of player p in run r
  hold   \* hold[w] is the key worker w has claimed and not yet reported

queueVars == <<run, item, hold>>

Terminal == {"success", "partial", "failed"}
RunRow == [status : {"unused", "running"} \cup Terminal,
           scope  : Scopes \cup {NoScope},
           age    : 0 .. Lease + 1]
ItemRow == [status   : {"absent", "pending", "running", "retryable", "failed", "success"},
            attempts : 0 .. MaxAttempts,
            wait     : 0 .. BackoffCap,
            age      : 0 .. Lease + 1]

UnusedRun == [status |-> "unused", scope |-> NoScope, age |-> 0]
Absent == [status |-> "absent", attempts |-> 0, wait |-> 0, age |-> 0]
NewItem == [status |-> "pending", attempts |-> 0, wait |-> 0, age |-> 0]

QueueTypeOK ==
  /\ run \in [RunIds -> RunRow]
  /\ item \in [Keys -> ItemRow]
  /\ hold \in [Workers -> Keys \cup {NoClaim}]

QueueInit ==
  /\ run = [r \in RunIds |-> UnusedRun]
  /\ item = [k \in Keys |-> Absent]
  /\ hold = [w \in Workers |-> NoClaim]

-----------------------------------------------------------------------------
(* What the WHERE clauses select.                                          *)

Claimable == {"pending", "retryable"}

Used(r) == run[r].status # "unused"
\* Faulty variant: the lease is over one tick early.
ExpiredEarly(r) == run[r].status = "running" /\ run[r].age >= Lease

Expired(r) == run[r].status = "running" /\ run[r].age > Lease
\* Faulty variant: the age of the claim is not looked at.
StaleRunOnly(k) == item[k].status = "running" /\ Expired(k[1])

StaleClaim(k) == item[k].status = "running" /\ item[k].age > Lease /\ Expired(k[1])
ScopeBusy(rows, s) == \E r \in RunIds : rows[r].status = "running" /\ rows[r].scope = s
IsLast(r, S) == r \in S /\ \A q \in S : q <= r

\* Rows are ordered by started_at and id, which grow together.
Latest(r) == IsLast(r, {q \in RunIds : Used(q)})
NextRun(r) == ~Used(r) /\ \A q \in RunIds : q < r => Used(q)
Ready(k) == item[k].status \in Claimable /\ item[k].wait = 0

-----------------------------------------------------------------------------
(* A row before and after the statements that change it.                   *)

Smaller(a, b) == IF a < b THEN a ELSE b

\* available_at = NOW(), claimed_at = NULL
Reset(x) == [status |-> "pending", attempts |-> x.attempts, wait |-> 0, age |-> 0]

Claimed(x) == [status |-> "running", attempts |-> Smaller(x.attempts + 1, MaxAttempts),
               wait |-> x.wait, age |-> 0]

Completed(x) == [status |-> "success", attempts |-> x.attempts, wait |-> x.wait, age |-> 0]

\* Faulty variant: a failure costs no wait.
FailedAtOnce(x) == [status |-> "retryable", attempts |-> x.attempts, wait |-> 0, age |-> 0]

\* The wait grows with the attempts, up to a cap.
Failed(x) == [status |-> "retryable", attempts |-> x.attempts,
              wait |-> Smaller(x.attempts * BackoffUnit, BackoffCap), age |-> 0]

-----------------------------------------------------------------------------
(* The statements of StartSyncRun's transaction, in their order.           *)

\* Claims that outlived the lease, in runs that did, go back to pending.
Requeued ==
  [k \in Keys |-> IF StaleClaim(k) THEN Reset(item[k]) ELSE item[k]]

\* Faulty variant: no recovery.
RecoveredNever == run

\* Runs that outlived the lease are closed as partial.
Recovered ==
  [r \in RunIds |-> IF Expired(r) THEN [run[r] EXCEPT !.status = "partial"] ELSE run[r]]

\* Faulty variant: the scope is not compared.
ResumedAnyScope(rows, items, r, s) ==
  LET Donor(q) == IsLast(q, {d \in RunIds : rows[d].status = "partial"})
      Moves(q, p) == Donor(q) /\ items[<<q, p>>].status \in Claimable
  IN [k \in Keys |->
        IF k[1] = r /\ \E q \in RunIds : Moves(q, k[2])
        THEN items[<<CHOOSE q \in RunIds : Donor(q), k[2]>>]
        ELSE IF Moves(k[1], k[2]) THEN Absent ELSE items[k]]

\* The open items of the scope's latest partial run are handed to the new run r.
Resumed(rows, items, r, s) ==
  LET Donor(q) == IsLast(q, {d \in RunIds : rows[d].status = "partial" /\ rows[d].scope = s})
      Moves(q, p) == Donor(q) /\ items[<<q, p>>].status \in Claimable
  IN [k \in Keys |->
        IF k[1] = r /\ \E q \in RunIds : Moves(q, k[2])
        THEN items[<<CHOOSE q \in RunIds : Donor(q), k[2]>>]
        ELSE IF Moves(k[1], k[2]) THEN Absent ELSE items[k]]

StartSyncRun(r, s) ==
  /\ NextRun(r)
  /\ ~ScopeBusy(Recovered, s)   \* else the partial unique index rolls everything back
  /\ run' = [Recovered EXCEPT ![r] = [status |-> "running", scope |-> s, age |-> 0]]
  /\ item' = Resumed(Recovered, Requeued, r, s)
  /\ UNCHANGED hold

\* An UPDATE by id: no error if there is no such row.
FinishSyncRun(r, outcome) ==
  /\ run' = IF Used(r) THEN [run EXCEPT ![r].status = outcome] ELSE run
  /\ UNCHANGED <<item, hold>>

-----------------------------------------------------------------------------
(* RetrySyncRun is two statements outside a transaction: the items first,  *)
(* then the run, whose update the unique index may refuse.                 *)

RetryItems(r) ==
  /\ item' = [k \in Keys |-> IF k[1] = r /\ item[k].status \in {"failed", "retryable"}
                             THEN Reset(item[k]) ELSE item[k]]
  /\ UNCHANGED <<run, hold>>

Reopens(r) == run[r].status \in {"failed", "partial"}

\* started_at is not touched: a reopened run keeps its age.
RetryRun(r) ==
  /\ Reopens(r) => ~ScopeBusy(run, run[r].scope)
  /\ run' = IF Reopens(r) THEN [run EXCEPT ![r].status = "running"] ELSE run
  /\ UNCHANGED <<item, hold>>

-----------------------------------------------------------------------------
(* Work items.                                                             *)

\* Faulty variant: the conflict clause overwrites instead of doing nothing.
EnqueueOverwrites(r, P) ==
  /\ Used(r)
  /\ item' = [k \in Keys |-> IF k[1] = r /\ k[2] \in P THEN NewItem ELSE item[k]]
  /\ UNCHANGED <<run, hold>>

EnqueueSyncWork(r, P) ==
  /\ Used(r)   \* foreign key
  /\ item' = [k \in Keys |-> IF k[1] = r /\ k[2] \in P /\ item[k].status = "absent"
                             THEN NewItem ELSE item[k]]
  /\ UNCHANGED <<run, hold>>

\* FOR UPDATE SKIP LOCKED: any ready row may be the first that is not locked.
ClaimSyncWork(w, k) ==
  /\ hold[w] = NoClaim
  /\ Ready(k)
  /\ item' = [item EXCEPT ![k] = Claimed(@)]
  /\ hold' = [hold EXCEPT ![w] = k]
  /\ UNCHANGED run

CompleteSyncWork(w) ==
  /\ hold[w] # NoClaim
  /\ item' = [item EXCEPT ![hold[w]] = Completed(@)]
  /\ hold' = [hold EXCEPT ![w] = NoClaim]
  /\ UNCHANGED run

\* Its only caller in this queue, syncQueuedHistories, passes retryable = true.
FailSyncWork(w) ==
  /\ hold[w] # NoClaim
  /\ item' = [item EXCEPT ![hold[w]] = Failed(@)]
  /\ hold' = [hold EXCEPT ![w] = NoClaim]
  /\ UNCHANGED run

\* The workers die, or the writes that report their results fail: their rows
\* stay running.  A process that stops takes all its workers with it.
LoseClaims(W) ==
  /\ \A w \in W : hold[w] # NoClaim
  /\ hold' = [w \in Workers |-> IF w \in W THEN NoClaim ELSE hold[w]]
  /\ UNCHANGED <<run, item>>

-----------------------------------------------------------------------------
(* Time.  Whoever claims an item does so under a context of length         *)
(* Timeout, so no claim is held longer than that.                          *)

Older(a) == IF a > Lease THEN a ELSE a + 1

Age ==
  /\ run' = [r \in RunIds |-> IF Used(r) THEN [run[r] EXCEPT !.age = Older(@)] ELSE run[r]]
  /\ item' = [k \in Keys |->
                [item[k] EXCEPT !.age = IF item[k].status = "running" THEN Older(@) ELSE @,
                                !.wait = IF @ = 0 THEN 0 ELSE @ - 1]]
  /\ UNCHANGED hold

Tick ==
  /\ \A w \in Workers : hold[w] # NoClaim => item[hold[w]].age < Timeout
  /\ Age

-----------------------------------------------------------------------------
(* The queue in an environment that may call any operation at any time;    *)
(* SyncCoordinator restricts the calls to those the API makes.             *)

QueueNext ==
  \/ \E r \in RunIds, s \in Scopes : StartSyncRun(r, s)
  \/ \E r \in RunIds, outcome \in Terminal : FinishSyncRun(r, outcome)
  \/ \E r \in RunIds : RetryItems(r)
  \/ \E r \in RunIds : RetryRun(r)
  \/ \E r \in RunIds, P \in (SUBSET Players) \ {{}} : EnqueueSyncWork(r, P)
  \/ \E w \in Workers, k \in Keys : ClaimSyncWork(w, k)
  \/ \E w \in Workers : CompleteSyncWork(w)
  \/ \E w \in Workers : FailSyncWork(w)
  \/ \E W \in (SUBSET Workers) \ {{}} : LoseClaims(W)
  \/ Tick

QueueSpec == QueueInit /\ [][QueueNext]_queueVars

-----------------------------------------------------------------------------
(* Properties.                                                             *)

\* No two workers are ever working on the same row, whatever mixture of
\* recovery, resumption, retries and restarts came before: SKIP LOCKED, the
\* status written by ClaimSyncWork and the lease together keep claims exclusive.
ClaimsAreExclusive ==
  \A v, w \in Workers : v # w /\ hold[v] = hold[w] => hold[v] = NoClaim

\* A row stays "running" under its key for as long as its claimant works on
\* it: the recovery in StartSyncRun, the hand-over to a new run and
\* RetrySyncRun never take the row of a live worker, because a claim is given
\* up (Timeout) before it looks abandoned (Lease).  So the unconditional
\* UPDATE ... WHERE id of CompleteSyncWork and FailSyncWork hits that row.
LiveClaimsStayRunning ==
  \A w \in Workers : hold[w] # NoClaim => item[hold[w]].status = "running"

\* The claims are sound: types, exclusiveness and the state of the rows together.
ClaimsAreSound == QueueTypeOK /\ ClaimsAreExclusive /\ LiveClaimsStayRunning

\* Finished work is never done again: neither EnqueueSyncWork's conflict
\* clause, nor the recovery, the hand-over or a retry reopens a row that
\* reached success.
DoneIsFinal ==
  [][\A k \in Keys : item[k].status = "success" => item'[k].status = "success"]_queueVars

\* Work is handed over, not lost: a row leaves a run only for a newer run of
\* the same scope, which keeps its attempts and its wait, and only from a run
\* that is closed by then.
HandedOver(k, r) ==
  /\ k[1] < r
  /\ run[k[1]].scope = run'[r].scope
  /\ run'[r].status = "running"
  /\ run'[k[1]].status = "partial"
  /\ item'[<<r, k[2]>>].attempts = item[k].attempts
  /\ item'[<<r, k[2]>>].wait <= item[k].wait

WorkIsHandedOver ==
  [][\A k \in Keys : item[k].status # "absent" /\ item'[k].status = "absent"
                       => \E r \in RunIds : HandedOver(k, r)]_queueVars

\* No work is lost and none is done twice, over any sequence of runs.
WorkIsKept == DoneIsFinal /\ WorkIsHandedOver

\* The queue promises no more than a ledger of work: see WorkLedger.
Ledger == INSTANCE WorkLedger WITH
            open <- {k \in Keys : item[k].status \in {"pending", "retryable", "failed"}},
            done <- {k \in Keys : item[k].status = "success"},
            lost <- {k \in Keys : item[k].status = "running" /\ \A w \in Workers : hold[w] # k}

ImplementsLedger == Ledger!Spec

=============================================================================
