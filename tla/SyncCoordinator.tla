--------------------------- MODULE SyncCoordinator ---------------------------
(***************************************************************************)
(* The process that runs synchronisations (backend/internal/app/api.go and *)
(* cmd/server/main.go) on top of the durable queue of SyncQueue: the two   *)
(* handlers that start work, the goroutines of startSync with the workers  *)
(* of syncQueuedHistories, the status kept in the in-memory Store that the *)
(* handlers consult, Shutdown, and the death and restart of the   *)
(* process.  The tables survive; everything else is memory.                *)
(*                                                                         *)
(* A scope stands for its dataset: season and gameweek are fixed, and only *)
(* scopes that pass the source policy are requested.  What is fetched and  *)
(* stored is left out; a source or database call succeeds or fails.        *)
(***************************************************************************)
EXTENDS SyncQueue

CONSTANTS
  Tasks,       \* the goroutines of startSync that may exist at once (bound)
  Crew,        \* Crew[t] are the workers task t starts (SYNC_WORKERS)
  MaxRetries,  \* bound: retry requests
  MaxStops,    \* bound: crashes and shutdowns
  DBFaults     \* may a statement fail although its context is alive?

Datasets == {"catalog", "fixtures", "live", "player-history", "full"}

ASSUME CoordinatorAssumption ==
  /\ Scopes \subseteq Datasets
  /\ NoScope \notin Datasets
  /\ Crew \in [Tasks -> SUBSET Workers]
  /\ \A t \in Tasks : Crew[t] # {}   \* workers < 1 counts as one
  /\ \A t, u \in Tasks : t # u => Crew[t] \cap Crew[u] = {}
  /\ DBFaults \in BOOLEAN
  /\ MaxRetries \in Nat
  /\ MaxStops \in Nat

VARIABLES
  phase,    \* "up", "draining" after SIGTERM, "down"
  store,    \* Status of Store.SyncStatus()
  task,     \* task[t] is the goroutine in slot t
  exited,   \* workers that returned from their loop
  retry,    \* the retry handler that holds startMu, if any
  retries,  \* retry requests so far
  stops     \* crashes and shutdowns so far

processVars == <<phase, store, task, exited, retry, retries, stops>>
vars == <<run, item, hold, phase, store, task, exited, retry, retries, stops>>

\* A task is working until it has published its final status.
Working == {"begin", "catalog", "fixtures", "live", "player-history", "workers", "persist", "publish"}
StoreStatus == {"empty", "running"} \cup Terminal
TaskRow == [pc     : Working \cup {"idle", "finish", "end"},
            run    : {0} \cup RunIds,
            scope  : Scopes \cup {NoScope},
            ctx    : {"ok", "cancelled", "expired"},
            age    : 0 .. Timeout,
            status : StoreStatus,   \* the status it will publish next
            bad    : SUBSET Players] \* players whose history could not be fetched
Idle == [pc |-> "idle", run |-> 0, scope |-> NoScope, ctx |-> "ok", age |-> 0,
         status |-> "empty", bad |-> {}]
NewTask(r, s) == [pc |-> "begin", run |-> r, scope |-> s, ctx |-> "ok", age |-> 0,
                  status |-> "empty", bad |-> {}]
NoRetry == [pc |-> "none", run |-> 0]

TypeOK ==
  /\ QueueTypeOK
  /\ phase \in {"up", "draining", "down"}
  /\ store \in StoreStatus
  /\ task \in [Tasks -> TaskRow]
  /\ exited \subseteq Workers
  /\ retry \in [pc : {"none", "items", "launch"}, run : {0} \cup RunIds]
  /\ retries \in 0 .. MaxRetries
  /\ stops \in 0 .. MaxStops

Init ==
  /\ QueueInit
  /\ phase = "up"
  /\ store = "empty"
  /\ task = [t \in Tasks |-> Idle]
  /\ exited = {}
  /\ retry = NoRetry
  /\ retries = 0
  /\ stops = 0

Live(t) == task[t].pc # "idle"
Executing(r) == {t \in Tasks : Live(t) /\ task[t].run = r}

-----------------------------------------------------------------------------
(* Starting.  startMu is held by at most one handler.  StartScopedSync is  *)
(* one step: what it reads, the store, is otherwise written only by a task *)
(* that is working, and it goes on only if the store says that none is.  A *)
(* retry is three steps, because its statements commit one by one.         *)

\* startSync: register the goroutine under syncMu and let it go.
Launch(t, r, s) ==
  /\ task[t].pc = "idle"
  /\ task' = [task EXCEPT ![t] = NewTask(r, s)]
  /\ exited' = exited \ Crew[t]

\* Faulty variant: the status in the store is not looked at.
StartUnguarded(t, r, s) ==
  /\ phase # "down"
  /\ retry.pc = "none"
  /\ StartSyncRun(r, s)
  /\ store' = "running"
  /\ Launch(t, r, s)
  /\ UNCHANGED <<phase, retry, retries, stops>>

StartScopedSync(t, r, s) ==
  /\ phase # "down"
  /\ retry.pc = "none"
  /\ store # "running"
  /\ StartSyncRun(r, s)
  /\ store' = "running"
  /\ Launch(t, r, s)
  /\ UNCHANGED <<phase, retry, retries, stops>>

\* The identifier is only parsed: r need not be the id of a row.
RetryRequest(r) ==
  /\ phase # "down"
  /\ retry.pc = "none"
  /\ store # "running"
  /\ retries < MaxRetries
  /\ retries' = retries + 1
  /\ RetryItems(r)
  /\ retry' = [pc |-> "items", run |-> r]
  /\ UNCHANGED <<phase, store, task, exited, stops>>

RetryReopens ==
  /\ retry.pc = "items"
  /\ RetryRun(retry.run)
  /\ retry' = [retry EXCEPT !.pc = "launch"]
  /\ UNCHANGED <<phase, store, task, exited, retries, stops>>

\* The unique index refuses the update, or a statement fails, the one that
\* loads the status included: 409, and what was written stays.
RetryRefused ==
  /\ retry # NoRetry
  /\ \/ retry.pc = "items" /\ Reopens(retry.run) /\ ScopeBusy(run, run[retry.run].scope)
     \/ DBFaults
  /\ retry' = NoRetry
  /\ UNCHANGED <<queueVars, phase, store, task, exited, retries, stops>>

\* RetrySyncRun returns the status of the latest run, whichever was retried;
\* of an empty table, an empty status with an empty scope.
RetryLaunches(t) ==
  /\ retry.pc = "launch"
  /\ \/ \E latest \in RunIds :
          /\ Latest(latest)
          /\ store' = run[latest].status
          /\ Launch(t, retry.run, run[latest].scope)
     \/ /\ \A r \in RunIds : ~Used(r)
        /\ store' = "empty"
        /\ Launch(t, retry.run, NoScope)
  /\ retry' = NoRetry
  /\ UNCHANGED <<queueVars, phase, retries, stops>>

-----------------------------------------------------------------------------
(* runSync.                                                                *)

To(t, pc) == task' = [task EXCEPT ![t].pc = pc]
Alive(t) == task[t].ctx = "ok"
OnlyTask == UNCHANGED <<phase, exited, retry, retries, stops>>

Begin(t) ==
  /\ task[t].pc = "begin"
  /\ task' = [task EXCEPT ![t].pc = "catalog", ![t].status = store]
  /\ UNCHANGED <<queueVars, store>>
  /\ OnlyTask

\* The stages a scope goes through.  A full sync without a current gameweek
\* has no live stage; the empty scope has neither that nor histories.
After(s, stage) ==
  CASE stage = "catalog"  -> IF s = "catalog" THEN {"persist"} ELSE {"fixtures"}
    [] stage = "fixtures" -> CASE s = "live"           -> {"live"}
                               [] s = "player-history" -> {"player-history"}
                               [] s = "full"           -> {"live", "player-history"}
                               [] OTHER                -> {"persist"}
    [] OTHER              -> IF s = "full" THEN {"player-history"} ELSE {"persist"}

Fetched(t) ==
  /\ task[t].pc \in {"catalog", "fixtures", "live"}
  /\ Alive(t)
  /\ \E next \in After(task[t].scope, task[t].pc) : To(t, next)
  /\ store' = task[t].status
  /\ UNCHANGED queueVars
  /\ OnlyTask

\* Faulty variant: the failure is not published.
StageFailsSilently(t) ==
  /\ task[t].pc \in {"catalog", "fixtures", "live", "player-history", "persist"}
  /\ task' = [task EXCEPT ![t].pc = "finish", ![t].status = "failed"]
  /\ UNCHANGED <<queueVars, store>>
  /\ OnlyTask

\* failStage: the source, the queue or the warehouse refused.
StageFails(t) ==
  /\ task[t].pc \in {"catalog", "fixtures", "live", "player-history", "persist"}
  /\ task' = [task EXCEPT ![t].pc = "finish", ![t].status = "failed"]
  /\ store' = "failed"
  /\ UNCHANGED queueVars
  /\ OnlyTask

EnqueueHistories(t) ==
  /\ task[t].pc = "player-history"
  /\ Alive(t)
  /\ EnqueueSyncWork(task[t].run, Players)
  /\ To(t, "workers")
  /\ store' = task[t].status
  /\ OnlyTask

\* Faulty variant: the results channel is closed by the first worker that ends.
FirstWorkerDone(t) ==
  /\ task[t].pc = "workers"
  /\ Crew[t] \cap exited # {}
  /\ To(t, "persist")
  /\ store' = IF task[t].bad = {} THEN task[t].status ELSE store
  /\ UNCHANGED queueVars
  /\ OnlyTask

HistoriesDone(t) ==
  /\ task[t].pc = "workers"
  /\ Crew[t] \subseteq exited
  /\ To(t, "persist")
  /\ store' = IF task[t].bad = {} THEN task[t].status ELSE store
  /\ UNCHANGED queueVars
  /\ OnlyTask

Persisted(t) ==
  /\ task[t].pc = "persist"
  /\ Alive(t)
  /\ To(t, "publish")
  /\ UNCHANGED <<queueVars, store>>
  /\ OnlyTask

Publish(t) ==
  LET outcome == IF task[t].bad = {} THEN "success" ELSE "partial" IN
  /\ task[t].pc = "publish"
  /\ task' = [task EXCEPT ![t].pc = "finish", ![t].status = outcome]
  /\ store' = outcome
  /\ UNCHANGED queueVars
  /\ OnlyTask

\* persistSyncStatus, under the task's own context; its error is dropped.
FinishRun(t) ==
  /\ task[t].pc = "finish"
  /\ \/ Alive(t) /\ FinishSyncRun(task[t].run, task[t].status)
     \/ (~Alive(t) \/ DBFaults) /\ UNCHANGED queueVars
  /\ To(t, "end")
  /\ UNCHANGED store
  /\ OnlyTask

\* The deferred function, which also counts the outcome in SyncMetrics.
End(t) ==
  /\ task[t].pc = "end"
  /\ task' = [task EXCEPT ![t] = Idle]
  /\ UNCHANGED <<queueVars, store>>
  /\ OnlyTask

-----------------------------------------------------------------------------
(* The workers of syncQueuedHistories.                                     *)

AtWork(t, w) == task[t].pc = "workers" /\ w \in Crew[t] \ exited
OnlyQueue == UNCHANGED <<phase, store, exited, retry, retries, stops>>

WorkerClaims(t, w, k) ==
  /\ AtWork(t, w)
  /\ Alive(t)
  /\ k[1] = task[t].run
  /\ ClaimSyncWork(w, k)
  /\ UNCHANGED task
  /\ OnlyQueue

\* Nothing to claim right now, or the claim failed: the worker returns.
WorkerExits(t, w) ==
  /\ AtWork(t, w)
  /\ hold[w] = NoClaim
  /\ \/ \A p \in Players : ~Ready(<<task[t].run, p>>)
     \/ ~Alive(t)
     \/ DBFaults
  /\ exited' = exited \cup {w}
  /\ UNCHANGED <<queueVars, phase, store, task, retry, retries, stops>>

WorkerSucceeds(t, w) ==
  /\ AtWork(t, w)
  /\ Alive(t)
  /\ CompleteSyncWork(w)
  /\ UNCHANGED task
  /\ OnlyQueue

WorkerFails(t, w) ==
  /\ AtWork(t, w)
  /\ Alive(t)
  /\ FailSyncWork(w)
  /\ task' = [task EXCEPT ![t].bad = @ \cup {hold[w][2]}]
  /\ OnlyQueue

\* The result, good or bad, is counted; the row that records it is not written.
WorkerUnreported(t, w) ==
  /\ AtWork(t, w)
  /\ LoseClaims({w})
  /\ ~Alive(t) \/ DBFaults
  /\ \/ UNCHANGED task
     \/ task' = [task EXCEPT ![t].bad = @ \cup {hold[w][2]}]
  /\ OnlyQueue

-----------------------------------------------------------------------------
(* Time and the life of the process.                                       *)

\* A task whose five minutes are over unwinds before time goes on: source
\* calls and statements all take its context.
Elapse ==
  /\ \A t \in Tasks : Live(t) => task[t].age < Timeout
  /\ Age
  /\ task' = [t \in Tasks |-> IF Live(t) THEN [task[t] EXCEPT !.age = @ + 1] ELSE task[t]]
  /\ UNCHANGED <<phase, store, exited, retry, retries, stops>>

Expire(t) ==
  /\ Live(t)
  /\ Alive(t)
  /\ task[t].age = Timeout
  /\ task' = [task EXCEPT ![t].ctx = "expired"]
  /\ UNCHANGED <<queueVars, store>>
  /\ OnlyTask

\* Shutdown cancels the tasks it finds; requests are still served meanwhile.
Shutdown ==
  /\ phase = "up"
  /\ stops < MaxStops
  /\ stops' = stops + 1
  /\ phase' = "draining"
  /\ task' = [t \in Tasks |-> IF Live(t) /\ Alive(t)
                              THEN [task[t] EXCEPT !.ctx = "cancelled"] ELSE task[t]]
  /\ UNCHANGED <<queueVars, store, exited, retry, retries>>

\* Faulty variant: claims are handed back on the way out.
ForgetReleasing ==
  /\ phase' = "down"
  /\ store' = "empty"
  /\ task' = [t \in Tasks |-> Idle]
  /\ exited' = {}
  /\ retry' = NoRetry
  /\ UNCHANGED <<retries, run>>
  /\ hold' = [w \in Workers |-> NoClaim]
  /\ item' = [k \in Keys |-> IF \E w \in Workers : hold[w] = k THEN Reset(item[k]) ELSE item[k]]

Forget ==
  /\ phase' = "down"
  /\ store' = "empty"
  /\ task' = [t \in Tasks |-> Idle]
  /\ exited' = {}
  /\ retry' = NoRetry
  /\ UNCHANGED retries
  /\ LoseClaims({w \in Workers : hold[w] # NoClaim})

\* The process exits: nothing is left to wait for, or the wait timed out.
Exit ==
  /\ phase = "draining"
  /\ Forget
  /\ UNCHANGED stops

Crash ==
  /\ phase # "down"
  /\ stops < MaxStops
  /\ stops' = stops + 1
  /\ Forget

Restart ==
  /\ phase = "down"
  /\ phase' = "up"
  /\ UNCHANGED <<queueVars, store, task, exited, retry, retries, stops>>

-----------------------------------------------------------------------------

WorkerStep(t) ==
  \E w \in Crew[t] :
    \/ \E p \in Players : WorkerClaims(t, w, <<task[t].run, p>>)
    \/ WorkerExits(t, w)
    \/ WorkerSucceeds(t, w)
    \/ WorkerFails(t, w)
    \/ WorkerUnreported(t, w)

TaskStep(t) ==
  \/ Begin(t)
  \/ Fetched(t)
  \/ StageFails(t)
  \/ EnqueueHistories(t)
  \/ WorkerStep(t)
  \/ HistoriesDone(t)
  \/ Persisted(t)
  \/ Publish(t)
  \/ FinishRun(t)
  \/ End(t)
  \/ Expire(t)

Start(s) == \E t \in Tasks, r \in RunIds : StartScopedSync(t, r, s)

RetryStep ==
  \/ RetryReopens
  \/ RetryRefused
  \/ \E t \in Tasks : RetryLaunches(t)

Next ==
  \/ \E s \in Scopes : Start(s)
  \/ \E r \in RunIds : RetryRequest(r)
  \/ RetryStep
  \/ \E t \in Tasks : TaskStep(t)
  \/ Elapse
  \/ Shutdown
  \/ Exit
  \/ Crash
  \/ Restart

Spec == Init /\ [][Next]_vars

\* Goroutines are scheduled and their contexts expire, a handler that holds
\* startMu returns, time passes, the process is restarted by its supervisor, and
\* the scheduler keeps asking for every scope.
Fairness ==
  /\ \A t \in Tasks : WF_vars(TaskStep(t))
  /\ \A s \in Scopes : WF_vars(Start(s))
  /\ WF_vars(RetryStep)
  /\ WF_vars(Elapse)
  /\ WF_vars(Restart)

FairSpec == Spec /\ Fairness

-----------------------------------------------------------------------------
(* Properties.                                                             *)

\* Two synchronisations never run at once: whatever a scheduler and a person
\* ask for, the store's status under startMu lets one in only after the one
\* before it has published its outcome.
OneSyncAtATime ==
  \A t, u \in Tasks : task[t].pc \in Working /\ task[u].pc \in Working => t = u

\* The row of a run stays "running" until its own task has closed it: the
\* recovery of abandoned runs never closes a run that a task of this process
\* still executes, although it looks at nothing but started_at.
LiveRunStaysOpen ==
  \A t \in Tasks : Live(t) /\ task[t].pc # "end" => run[task[t].run].status = "running"

\* The status that blocks every further synchronisation is not a leftover: when
\* the store says "running" a task is there that will replace it, in every
\* order of retries, failures and restarts.
NoPhantomRunning ==
  store = "running" => \E t \in Tasks : task[t].pc \in Working

\* The workers stop one by one, each when it finds nothing to claim; when the
\* last has gone, an undisturbed run has no item that was never tried: what is
\* not done has failed and waits.  (Disturbed: by errors of the database, or by
\* a retry, which does not free what a worker had claimed when it was stopped.)
NothingLeftUntried ==
  ~DBFaults /\ retries = 0 =>
    \A t \in Tasks, p \in Players :
      task[t].pc \in {"persist", "publish"} /\ Alive(t) =>
        item[<<task[t].run, p>>].status \in
          (IF task[t].scope \in {"full", "player-history"} THEN {"success", "retryable"} ELSE {"absent"})

\* The coordinator makes no call that SyncQueue does not allow: a task and its
\* claims end before their lease does, whatever the process goes through.
UsesQueue == QueueSpec

\* A run that is left "running" with no task to close it - the process died, its
\* context expired, the last write failed - does not block its scope for ever:
\* some later request of that scope closes it, while the bound lets runs start.
StrandedRunsAreClosed ==
  \A r \in RunIds :
    (run[r].status = "running" /\ Executing(r) = {} /\ run[MaxRuns].status = "unused")
      ~> run[r].status # "running"

\* Every synchronisation ends, however its calls fail.
SyncsEnd == \A t \in Tasks : Live(t) ~> ~Live(t)

\* A run reported as a success has no unfinished work item.  Refuted: an item
\* moved from a partial run keeps its wait, nobody can claim it, and a run
\* whose workers found nothing to do ends as a success.
SuccessIsComplete ==
  \A k \in Keys : run[k[1]].status = "success" => item[k].status \in {"absent", "success"}

\* Work that a stopped process left behind is resumed: a run is not closed
\* while it holds a claim of nobody, which no later run would look at.
\* Refuted: the lease of the run may be over before that of the claim.
NoOrphanClaims ==
  \A k \in Keys : item[k].status = "running" /\ (\A w \in Workers : hold[w] # k)
                    => run[k[1]].status = "running"
=============================================================================
