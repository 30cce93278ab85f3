# fantasy-helper: a TLA+ verification of its server

The repository is a Go API (with a React client and PostgreSQL) that
mirrors public Fantasy Premier League data, keeps accounts, private squads and
leagues, and answers research questions from what it has stored. Paths below
are relative to `src/`; `app/` stands for `backend/internal/app/`.

## 1. Inventory

| component | code | state it keeps | operations | talks to |
|---|---|---|---|---|
| durable sync queue | `app/repository.go`, migrations 2, 5, 6 | tables `sync_runs`, `sync_work_items` | start (recover, insert, hand over), finish, retry, enqueue, claim, complete, fail | the coordinator, through SQL |
| sync coordinator | `app/api.go`, `cmd/server/main.go` | `startMu`, `syncMu`, the goroutines and their contexts | start a scope, retry a run, run the stages, fan out to workers, publish, shut down | queue, store, source, warehouse |
| in-memory store | `app/store.go` | current data, status of the sync | `SetSyncStatus`, `ApplySnapshot`, reads | every handler |
| warehouse persistence | `app/repository.go`, migration 7 | seasons, catalogue, fixtures, histories, dataset snapshots, points | `UpsertSnapshot`, `CreateDatasetSnapshot`, facts, `LoadSnapshot` | coordinator, archive import, start-up |
| sync scheduler | `app/scheduler.go` | `lastAttempt` per policy | `runDue` on each tick | `StartScopedSync` |
| source client, normalisation | `app/source.go` | semaphore, conditional-request cache | `get` with retries and back-off | the FPL service |
| archive import | `app/source_profile.go`, `cmd/import-archive` | none of its own | validate a manifest, write a season | warehouse |
| payload retention | `app/retention.go` | none of its own | clean up bodies by age and finality | payload and live-fact tables |
| local authentication | `app/auth*.go`, `app/api_auth.go` | users, sessions, attempts | register, log in and out, change password, bootstrap | private handlers |
| manager and league sync | `app/manager_service.go`, `manager_repository.go`, `manager_source.go`, `api_manager.go` | runs, entries, picks, links, connection, `MemorySessionProvider` | sync one entry, fan out to a league, connect, disconnect, delete | FPL service, accounts |
| league analysis | `app/manager.go`, `manager_service.go`, `manager_read_repository.go`, `api_analysis.go` | none | select members, compare, summarise, autopsy | what the syncs store |
| squad rules, optimizer, transfer research | `app/domain.go`, `optimizer.go`, `transfer_research.go` | none | validate, recommend, simulate | planning handlers |
| planning squads, squad import, scenarios | `app/repository.go`, `manager_import_repository.go`, `api_transfer_research.go`, `repository_transfer_research.go` | plans, imports, drafts, scenarios | save, preview, import, simulate, confirm | market, snapshots, active teams |
| season defaults, configuration | `app/season.go`, `app/config.go` | none | pure functions | handlers, start-up |
| web client | `frontend/src` | selected season and gameweek | reads and forms | the API |

The scheduler and people ask the API for a scope (*catalog*, *fixtures*,
*live*, *player-history* or *full*); the API inserts a run and starts a
goroutine with a five minute context; the goroutine fetches the stages of its
scope, enqueues one work item per player, lets `SYNC_WORKERS` goroutines claim
and report the items, writes the warehouse, replaces the cache and closes its
run. Beside it a request of a user synchronises an entry and a league inside of
its handler, one goroutine per member. The private handlers read what both have
stored by several queries each, outside of a transaction, while they go on.

What is hard, and where:

* *Interleaving.* Workers claim with `FOR UPDATE SKIP LOCKED` while other
  transactions recover, hand over and retry the same rows; requests of one user
  run side by side in every private handler.
* *Crash and timeout.* A dead process leaves running rows; only the age of a
  row tells them from live ones, with one constant in `api.go` (five minutes)
  and another in `repository.go` (ten).
* *Partial failure.* Errors of last writes are dropped; `RetrySyncRun` is two
  statements and a read; one member of a league may fail among others.
* *Shared status.* The guard against overlapping synchronisations is a string
  in the store that five functions write.
* *Stale data.* A scope that does not fetch a dataset writes back the cached
  one; a session is refreshed on what was read of it; an analysis mixes what it
  read before and after a sync.

`PROJECT.json` lists the components with their status and every hazard at its line.

## 2. Plan, and what became of it

Written in this order, the most important behaviour first: the queue with its
abstract ledger, the coordinator on top of it, the warehouse with the cache;
then the scheduler and the points it fetches, accounts, the manager sync, the
analyses that read what it stores, the rules and the advice, and the planning
workspace. Composition: `SyncCoordinator` extends `SyncQueue`, which implements
`WorkLedger`; `LiveFacts` extends `Scheduler` with the synchronisations it
starts; `Advice` and `Planning` extend `SquadRules`. `Lists` holds the two
operators on sequences that several of them share.

Left for later: the retry loop of the source client (`source.go:427`: retries,
waits, the semaphore and a context in one loop), which every model abstracts to
*a call answers or fails*; the composition of `Sessions` with the private
handlers, which take an authenticated user for granted.

## 3. Modules and code

| module | models | state ↔ code |
|---|---|---|
| `WorkLedger` | nothing of the code: what the queue promises | slots that are free, open, taken, lost or done |
| `SyncQueue` | the SQL of `sync_runs` and `sync_work_items` in an open environment (`repository.go:167-200, 376-434`) | `run`, `item`: the two tables; `hold`: the item a worker has claimed and not reported |
| `SyncCoordinator` | `StartScopedSync`, the retry handler, `startSync`, `runSync`, the workers, `Shutdown`, crash and restart (`api.go`, `main.go`) | `store`: the status in the `Store`; `task`: the goroutines with their program counter and context; `exited`: workers that have returned; `retry`: the retry handler between its statements; `phase`: the life of the process |
| `Warehouse` | `UpsertSnapshot`, `CreateDatasetSnapshot`, facts, `ApplySnapshot`, `mergeFixtures`, `NormalizeSnapshot`'s identity, `ImportHistoricalArchive`, `LoadSnapshot` | `seasons`, `rows`, `snapshot`: tables; `cache`: the `Store`; `sync`: the local variables of `runSync`; `upstream`: what the source serves; `config`: the configured season |
| `Scheduler` | `SyncScheduler`: the policies in their order, `runDue`, `lastAttempt` | `idle`: ticks since the attempt of a policy; `running`: the synchronisation that occupies the store; `started`: the policy it was started for |
| `LiveFacts` | the points of gameweeks: `runSync` as far as they are concerned, `liveFinalized`, `LiveGameweekFactsUnchanged`, `UpsertLiveGameweek`, `LoadPlayerGameweekPoints` | `source`: progress, points and the live payload's own finished flag (`declared`) of a gameweek at the FPL service; `latest`, `facts`: `player_gameweek_facts`; `sync`: local variables |
| `Sessions` | `AuthService`, `CredentialLimiter`, `authRepository`, the handlers of `api_auth.go` | `password`, `sessions`, `legacy`: tables; `limiter`; `cookie`: what a browser presents; `request`: a handler between two statements; `boot`: how far `Bootstrap` is |
| `ManagerSync` | `ManagerService.Sync` with `syncEntry`, `syncLeague` and the goroutines of the members, connect, disconnect, delete | the tables by name; `status`: `ManagerService.status`; `credential`: the `MemorySessionProvider`; `task`, `member`, `dialog`: handlers and goroutines |
| `LeagueAnalysis` | `CompareLeague`, `SummarizeLeague`, the autopsy, as sequences of queries | `page`, `team`, `cost`, `failed`, `facts`: tables; `request`: all a handler has read |
| `SquadRules` | operators: `ValidateSquad`, `ValidateLineup`, `Recommend`, `simulateTransfers` | no state |
| `Advice` | the recommendation and the simulation of one squad, request after request | `advice`: the last answer with what was asked |
| `Planning` | `squad` (PUT), recommendations, preview and import of the active team, simulation at a deadline, confirmed scenarios, each as its queries | `plan`, `imports`, `drafts`, `scenarios`, `latest`: tables; `market`, `late`, `cutoff`, `priced`: what the syncs store, the snapshot and its players apart; `sync`: the next statement of the public sync; `request`: handlers between two queries |
| `Lists` | a loop that keeps some elements of a slice (`auth.go:489-496`, `api.go:736-744`, `manager.go:335-367`), an `ORDER BY` or `sort.Slice` | operators, no state |
| `*Proofs` | the theorems, one module per component (`SyncProofs` for queue and coordinator, `LiveProofs` for scheduler and points) | |
| `CollectionTheorems` | lemmas about sequences, sums, orders and sorted lists that the proofs share | |
| `MC*` | bounds, symmetry sets, crews, teams and squads for TLC | |

Operators named *faulty variant* in a comment are plausible mistakes in the
definition that follows them; nothing uses them but `PROJECT.json`, where each
is the mutant that breaks one property.

What is one step, and why:

* a transaction is a step (`StartSyncRun`, `ClaimSyncWork`, `UpsertSnapshot`),
  and so is one statement or one call; a sequence without a transaction is
  several (`RetryRun` in three steps, the three reads of a squad in `Planning`, the
  snapshot of a deadline and the players it prices);
* `StartScopedSync` is one step although it reads the store, inserts a run and
  writes the store: it holds `startMu`, and the only other writers of what it
  read are tasks, of which there is none when the store is not *running*;
* a stage of `syncEntry` in `ManagerSync` is one step: call, transaction and
  mark touch rows that no other handler decides on in between;
* time is the age of rows and contexts in `SyncQueue` and `SyncCoordinator`,
  minutes in `Sessions` and ticks in `Scheduler`; it stops growing where
  nothing distinguishes later moments.

Abstractions that a reader of the code will look for:

* rows are reduced to what decides something: season, version and gameweek in
  `Warehouse`, one version for all points of a gameweek in `LiveFacts`, *is in
  the table* in `ManagerSync`; the `source` column of a gameweek's facts is not
  modelled;
* a password is its own hash; whether one is upgraded to newer parameters is
  left open (`Sessions!Upgrade` may write at any successful log-in);
* a retry request names any run, one that does not exist too: the handler then
  updates no row, publishes the status of the latest run all the same and starts
  a synchronisation under the unknown identifier (`api.go:376-398`);
* in `Warehouse` the histories of all players are fetched at one moment, of any
  of them, and whether a failure is reported is left open (the dataset snapshot
  is *partial* only when one is, `api.go:631-678`); an import is one transaction with its dataset snapshot or
  without it;
* a player's score, a weighted sum of five floating-point signals, is a
  parameter of the optimizer; the points of an analysis are exact;
* `Scheduler` leaves out the refusals that never end: no source, a historical
  one, a season the source does not serve (`api.go:485-495`);
* transfers of a simulation are applied one after the other and may chain (sell
  what was just bought), as in `simulateTransfers`.

## 4. Runs

| run | bounds | what it shows |
|---|---|---|
| `queue` | 2 workers, 1 player, 2 runs, 2 scopes, lease 2, timeout 1, 2 attempts | `ClaimsAreSound`: claims are exclusive and on running rows; `WorkIsKept`: no row is lost, *success* is final, rows move only to a newer run of the scope; the queue implements `WorkLedger` |
| `coordinator` | 2 tasks with a worker each, a *full* and a *catalog* scope, failing statements, 1 stop, no retry | synchronisations do not overlap; a live run is not closed by the recovery; *running* is not a leftover; every call is one the queue allows |
| `sync_liveness` | 1 task with 2 workers, 1 scope, 1 retry, 1 stop, fairness | every synchronisation ends; nothing is left untried when the last worker returns; a stranded run of a scope is closed |
| `warehouse` | 2 seasons, 1 archive, a fixture that loses its gameweek, failing calls, 1 restart | one current season; the marker never moves back; past seasons change by imports only; the cache takes over only what the tables hold by then |
| `clean_syncs` | 1 season, 2 gameweeks, 2 fixtures, 2 players, 3 versions, no failing call, no moved fixture | the cache equals the tables between synchronisations; stored facts do not get older |
| `live` | 2 gameweeks, 5 policies of which 3 have a cadence (of 3 ticks), 1 request, 1 correction, 1 gameweek with the finished flag, 1 failing call or start that cannot be recorded | every policy is attempted in time and starts again and again; a gameweek is final only when the source calls it finished, its fixtures are over and two observations are equal, stays so until a correction, and is final in the end |
| `manager_sync` | 2 syncs, a league of 2 (one the user's own entry), scopes enabled or not, 1 member at once, 1 failing call, 1 other request (a change of a scope too) or restart | the status says *running* only while the run it names is worked on (an older sync that finishes may still replace the status of a newer one, `manager_service.go:104`); neither a success nor a complete team hides a failure; a session is kept only if the source accepted it; every sync ends |
| `sessions` | 2 users, 2 browsers, 2 tabs, 2 sessions, 3 requests, 1 fault or restart, 3 minutes | sessions end when they should; a revoked one stays revoked; concurrent guesses pass the limiter by at most one for each tab; none is left behind |
| `league_analysis` | 3 entries on 2 pages that disagree, 3 players, 2 teams, 1 write between two queries | an entry is selected once; an *actual* answer rests on final points of complete teams; the differences are explained to the point |
| `advice` | 19 players, 1 squad, 3780 score functions, up to 3 of 20 transfers | a recommended line-up is legal and the best there is, with the two best captains; players and money of a simulation account for every transfer |
| `planning` | 2 tabs, 3 squads, 2 active teams, 1 transfer, 2 markets, 1 late fixture, 2 requests, 1 failing statement of a request or of the sync | the plan is legal and what was confirmed; a team is imported once; a mixture of two squads is refused; a simulation uses the prices of the snapshot it names, which was fetched before the deadline; a scenario is never changed |
| `scope_locking` | as small as possible | counterexample, section 7 |

Several invariants are conjunctions whose parts are named and commented in the
module, so that a run asks one question: `ClaimsAreSound`, `WorkIsKept`,
`DataIsSound` (the types, and the action property
`CacheTakesWhatIsCommitted`), `SuccessHidesNothing`, `SessionsEnd`, `LimiterHolds`,
`SelectionIsSound`, `AdviceIsBest`, `SavedIsSound`, `StoredAsConfirmed`.

Why the bounds are enough: two tasks, two workers and two runs are where
overlap, recovery, hand-over and double claims first happen, and one stop lets a
process die at every point of a synchronisation and the next one meet what it
left. The lease is longer than the timeout in `queue` and equal to it (the
weakest assumption) in the others. Two seasons give a rollover, and ids repeat
between them. Two gameweeks let one become final while the next is live; one
correction meets both observations. Two tabs are two requests of one user at
every pair of statements; three log-ins, changes or log-outs reach every order
of check, change and refresh. Two syncs of a user overlap from start to end, and
one failing call at every place separates what a failure may hide. One write
between two queries tears any answer that two would. Two squads that differ in
a player and in the captain give every torn read. The theorems of section 6
remove these bounds for the properties they name. Symmetry is used only where
no liveness is checked.

`CHECK_DEADLOCK FALSE` stands in two configurations, where the system may really
stop: in `sessions` and `manager_sync` the numbers of requests are bounds of the
run, and after the last one nothing moves.

Further configurations are kept beside the runs, to be run by hand (with the
module of the same component). `MCSeasonArrives` passes: in discovery mode the
warehouse reaches the season the source has rolled over to, under
`Warehouse!FairSpec` and without failing calls. The others are counterexamples,
section 7.

## 5. Fairness

* `SyncCoordinator!Fairness`: a goroutine that can step does (the Go scheduler;
  a blocked call returns because every context has a deadline of five minutes,
  `api.go:73`); time passes; a handler that holds `startMu` returns; a process
  that died is restarted (`docker-compose.prod.yml`: `restart: unless-stopped`);
  and a scope is requested again whenever the store stays free
  (`scheduler.go:53`: every policy comes round). Nothing is assumed about
  success: every call may fail for ever.
* `LiveFacts!FairSpec`: the ticker ticks, and a synchronisation under way goes
  on. `EveryPolicyStarts` and `SettledBecomesFinal` say in their premise that a
  synchronisation is over by the next tick: a refused attempt counts as one
  (`scheduler.go:60`), so a policy can be refused at every turn by longer ones.
  Their other premise, cadences not shorter than the number of enabled policies
  in ticks, is needed too: one policy is tried per tick and the first ones come
  first, so that two cadences of one tick would starve the rest.
* `ManagerSync!FairSpec`: weak fairness of each synchronisation as a whole; that
  it ends (`SyncsEnd`) rests on the semaphore being given back and on every
  goroutine telling the wait group. Calls answer or fail because the client has
  a timeout.
* `Warehouse!FairSpec` assumes that requests go on and that a synchronisation
  proceeds; there failures are excluded, since a source that fails at every
  attempt brings no season.

## 6. Theorems

All are proved by TLAPS for every value of the constants that the named
assumptions of the modules allow (`QueueAssumption`: a timeout not longer than
the lease, and natural bounds; `CoordinatorAssumption`: crews of different tasks
are disjoint and none is empty (`api.go:851`); `WarehouseAssumption`: a finite set
of fixtures, positive identifiers; `SchedulerAssumption` and `LiveAssumption`:
cadences and bounds are natural; `SessionsAssumption`: the policy lets some
password through, finitely many tabs; `PlanningAssumption`: there is a market and
a legal squad; `AdviceAssumption`: identifiers are positive, since 0 is nobody,
the squad advised is legal, since any other is answered with its errors
(`optimizer.go:35`), and a score is a number for each player of the season;
`ManagerAssumption`: a league is listed without repetition;
`LeagueAssumption`: finite pages, and teams of finitely many players).

* **Queue.** `QueueInv` adds to the two properties that claims held by a worker
  are younger than the timeout, and that runs that do not exist have no items.
  Neither exclusive claims nor running rows are inductive alone: the recovery
  takes rows by age, so the age of a held row must be bounded, and the
  hand-over writes the rows of a run being inserted, so these must be absent.
  From it `ClaimsSound`, `WorkKept` and their parts. `QueueImplementsLedger`:
  every statement maps to a step of `WorkLedger` or a stutter. The start of a
  run is the hard one: recovery and hand-over move the rows of one run and
  reopen some, which the ledger sees as *taken* or *lost* becoming *open*.
* **Coordinator.** `CoordinatorUsesQueue`: every step of the process is a step
  of the open queue or none, so the queue's theorems carry over
  (`CoordinatorClaimsExclusive`, `CoordinatorCompletesOnce`,
  `ProcessImplementsLedger`). The one step that is not literally the queue's is
  the passing of time: the queue is held back by its oldest claim, the process
  by its oldest task. `CrewsAtWork` - whoever holds a row works for a task at
  least as old as the claim - relates them. `CoordinatorNeverStuck`: the store
  never says *running* without a task that will replace it.
  `OneSyncWithoutRetries` and `LiveRunsStayOpen` have the premise
  `MaxRetries = 0`: with a retry they are false (section 7, 1). Their invariant
  ties the status in the store to the one task that works. It holds until the
  first retry, and so does `EveryPlayerIsTried`: `TriedInv` says that no row of a
  run is claimed before its workers start, that afterwards each claimed row is in
  the hands of a worker that has not left, and that the first to leave has found
  no row that was never tried, so that the last leaves none.
* **Warehouse.** `MarkerInvariant`: the current season, the season being
  synchronised and the season reached by source or configuration lie in this
  order, and a season that was written is current. It is needed because the
  season is chosen at the first fetch and written several steps later. From it
  `SeasonMarkerUnique`, `MarkerIsMonotone` and `HistoryIsKept`.
  `OnlyTheCommittedIsServed` needs `DataInv`: between the upsert and the end the
  tables hold what the synchronisation carries, an import or what the cache
  already had excepted (`Carries`). The upsert establishes it only because a
  feed lists each fixture once and each row is stored under its own id - of two
  rows for one fixture the tables would keep the last and the cache both.
  `QuietCacheMatches` and `QuietFactsDoNotAge` have the premise `Clean`: no call
  fails, no fixture moves, nothing is imported, there is one season, and a *full*
  scope is one of all gameweeks. Without it they are false (section 7). Their
  invariant `InStep` says that the cache mirrors the tables and, from the upsert
  on, the synchronisation does; the merge keeps this because what is stored is in
  the gameweek in which the source has it (`Timely`), so that what is sorted out
  of the cache is what the feed brings again.
* **Scheduler and points.** `NoPolicyStarves` is an argument about who came
  before: while a policy is overdue by *d* ticks, *d* + 1 others were attempted
  one tick after another and are still *d*, .., 1, 0 ticks old; their cadences
  are too long for them to come round again, and there are no more than the other
  enabled policies.
  `LiveUsesScheduler` carries it over (`AttemptsComeInTime`). `FinalMeansConfirmed`
  and `FinalStaysFinal` rest on what a synchronisation remembers of the source
  between its calls: progress, and the finished flag of the payload, which
  either makes the source call a gameweek finished (`api.go:746-757`).
* **Sessions.** `SessionsInvariant` relates what a request has read to the table
  now: sessions only grow in number, a revoked row is frozen, and a password
  change past its revocations has closed everything it has seen. From it
  `SessionsDoEnd` and `RevocationIsFinal`. `LimiterStopsGuessing` counts: an
  attempt is let pass when fewer failures than the limit are kept, and each tab
  has one under way, so failures and attempts together never exceed the limit
  and one for each tab; it rests on what the loop that drops old failures
  returns (`SubsequenceFacts`). `NobodyLosesASession` follows a session from
  hand to hand (`Tracked`): undisturbed, an open session is in a cookie or known
  to a request, a request works with the session it came with or none, and
  before another session takes its place in the cookie that one is revoked.
* **Planning.** `PlanningInvariant`: what a request carries from one query to
  the next fits together - a squad that was validated against a market is still
  the one it stores, and a team that was confirmed is the one it names. From it
  `SavedPlanIsLegal`, `TeamsAreImportedOnce` and `OnlyWhatWasConfirmed`;
  `Outcomes` adds what is stored beside the plan and what is answered
  (`WhatIsSavedIsSound`). `OneSquadIsAnswered` is a lemma about the rules more
  than about the steps: a line-up that passes names fifteen different players
  of the squad, so a mixture of two squads passes only when it is one squad, and
  transfers, applied one after the other, move line-up and squad alike.
  `PricesAreOfTheDeadline` follows the same sequence: the price of a player
  brought in is never written again, since no player is brought in twice. That
  price is one of the snapshot the simulation names, because the players are read
  by its identifier, and this one was fetched before the deadline, because until
  then every season stored was.
* **Advice.** What the rules compute is compared with all that could have been
  computed instead. `SimulationsAddUp` walks along the transfers: after each of
  them (`Accounted`) a player is owned as often as before, plus the times he was
  brought in, less the times he was sent away, and the money is what it was
  before and the changes so far. A step keeps this because the one who comes in
  is not owned and the one who leaves is, even when transfers chain.
  `NoLineupIsBetter` has three parts. The order of the optimizer is total on the
  identifiers, so every rank is taken once and the ranked list of a position
  enumerates it without a gap; its first *n* score at least as much as any *n*
  players of that position (`SumOfBest`), the eleven is the disjoint union of
  four such prefixes, and the chosen formation is a maximum over a list that a
  legal squad can always fill - hence `LineupIsLegal` and `LineupIsBest`. The
  captains come out of one pass over the starters: up to the *k*-th, `Leads` says
  that the pass holds the best of them and the best of the others, ties and the
  first two starters included.
* **League analysis.** `Sound` follows an analysis from query to query: the
  entries still to load and those loaded are parts of the selection without a
  common entry, and make up all of it unless one is noted as missing (`Whole`).
  From it `SelectionStaysSound` and `ActualLeavesNothingOut`.
  `UndisturbedAutopsyAddsUp` and `ComparisonsAreExplained` are matters of sums
  over sets of players that are split, joined and subtracted (`SumUnion`,
  `SumDifference`).
* **Manager sync.** A synchronisation under way is either *doomed*, which its
  outcome will say, or has stored what it has been through; every failure dooms
  the task in the step in which it happens, in a goroutine too. That is
  `ManagerInvariant`; `StatusStaysLive`, `SessionsAreAccepted` and
  `NothingIsHidden` follow.
* **Lists and sums** (`CollectionTheorems`). The models build lists and sums with
  recursive functions, and the induction theorems of the library cannot be
  instantiated. The lemmas go by the least counterexample: the set of those is a
  first-order term, and it has a least number (`LeastNumber`) or a smallest set
  (`SmallestSet`). That a recursive function exists is proved in the same way, and
  so is what sorting does: a list with one place for every rank (`PlacesByRank`) is in
  order (`SortedList`), and larger terms make a larger sum (`SumOfGreater`).

Every invariant and every action property that a passing run checks is stated by
a theorem. Only model-checked is what holds under fairness (`SyncsEnd` of the
coordinator and of the manager, `StrandedRunsAreClosed`, `SettledBecomesFinal`,
`EveryPolicyStarts`, `SeasonArrives`): fairness is a matter of ENABLED, which the
prover does not handle. Scores are integers in `Advice`; the floating-point
sum behind them is not modelled.
`WarehouseProofs!Shape` is the part of the type invariant of `Warehouse` that the
theorems about the marker need.

## 7. Where code and documents disagree

Checked by a run:

1. `scope_locking` - a retry puts the status of the *latest* run into the store
   (`api.go:396`), which may be a terminal one: a second synchronisation starts
   beside the retried one. The run to retry need not even exist; in the shortest
   counterexample the table is empty and the status *empty*. README: "Scope locking prevents the scheduler from
   overlapping an active manual or scheduled run."

Counterexamples kept beside the runs (configuration, then what it shows):

| configuration | what the code does | what a document, or the code elsewhere, suggests |
|---|---|---|
| `MCSuccessIsComplete` | items inherited from a partial run keep their wait (`repository.go:183`); the run that inherits them finds nothing to claim and ends as a success | a successful run has no open work |
| `MCOrphanClaims` | a claim younger than the lease in a run older than it is never resumed (`repository.go:173`) | recovery returns the work of a dead process |
| `MCSeasonMismatch` | the configured season is not compared with the catalogue's (`source.go:664`): a rollover is stored under the old season | a season holds its own data |
| `MCSeasonRollover` | in discovery mode the first *catalog* scope after a rollover writes cached fixtures and histories into the new season (`api.go:646, 651`) | the same |
| `MCStaleCache` | a run that fails after `UpsertSnapshot` leaves an older cache, which the next scope writes back (`api.go:714`) | stored facts do not age |
| `MCMovedBack` | a fixture that moves into a gameweek and on again leaves its older row in the cache, which the next scope of a gameweek writes back over the newer one, although no call fails (`api.go:736-744`) | the same |
| `MCCurrentArchive` | an archive of the current season relabels it and leaves it current | the current season is the official one |
| `MCFreshness` | a dataset snapshot says *actual* although its facts were not written | freshness names what is stored |
| `MCFinalizedIsActual` | the points of a final gameweek are read together with those of its first observation, and are not called actual (`manager_read_repository.go`) | README: "Actual finalized points ... are labeled" |
| `MCDeletedStaysDeleted` | a synchronisation under way writes entry and picks again after the user has deleted them (`manager_repository.go:116`) | README: retained "until the owning user invokes private-data deletion" |
| `MCBootstrapLegacy` | user and assignment are two statements; a bootstrap that is repeated finds the user and assigns nothing (`auth.go:232`) | README: "legacy unowned squad rows are explicitly assigned to that user" |
| `MCAutopsyAddsUp` | total and contributions are read apart (`manager_service.go:506, 517`); with a sync in between they do not add up | `openspec/specs/league-team-comparison/spec.md`: metrics "for the same gameweek state" |
| `MCActualMissesNothing` | a comparison is called actual although a requested member has no picks (`manager_service.go:383`) | the same file: incomplete data is not complete actual data |
| `MCScenarioIsCopy` | a scenario confirmed again under the same key keeps the older result, and the answer shows the newer (`repository_transfer_research.go:114`) | migration 11: "immutable copies of explicitly confirmed transfer simulations" |
| `MCCutoffIsComplete` | the number of later fixtures and the fixtures are two queries (`repository_transfer_research.go:82, 85`): one that moves past the deadline in between is missing without a word | the transfer laboratory marks missing inputs |

Limits of the properties that hold.

*One synchronisation at a time.* `Warehouse`, `Scheduler`, `LiveFacts` and the
public sync of `Planning` have one synchronisation under way at most. That is
what `StartScopedSync` is for, but a retried run may overlap another one (1.
above, `api.go:385-398`), and no property of these modules speaks of such runs:
not `OneCurrentSeason`, `DataIsSound`, `MarkerNeverMovesBack`,
`PastSeasonsAreKept`, `CacheMatchesTables` and `StoredFactsDoNotAge`, nor
`FinalIsConfirmed`, `FinalUntilCorrected` and `SettledBecomesFinal`, nor the
theorems that state them. A retried run that fetched before a rollover, for
instance, could write the old season back after another run has stored the new
one, or an older observation of a gameweek over a newer.

`CacheMatchesTables` is checked while no
fixture moves between gameweeks - one that moves into the gameweek that is
synchronised is cached twice until the next scope without a gameweek
(`api.go:736-744`) - and for *full* scopes without a gameweek: one with a
gameweek fetches the fixtures of it alone and replaces the cached ones of all
others by them (`api.go:570, 646`), until the next scope that fetches them all
(`Requests` with `<<"full", 1>>` shows it). `CacheTakesWhatIsCommitted` is about
what the cache takes over, not about all it holds: after a rollover it keeps the
old season's histories of players whose new ones could not be fetched
(`store.go:101`), and after a failed run what the failed run would have replaced.
`TornSquadsAreRefused` is about the squad a simulation leads to: the squad it
starts from is shown as read and may be a mixture of two
(`repository.go:1123-1151`, `transfer_research.go:371`). `NoLaterPrices` is about
prices: position, news and counters of a player are those of today
(`repository_transfer_research.go:64`), and a snapshot whose players were not
written is no snapshot, so that simulations are refused until a later one
(`:46-48`). `NoSessionLeftBehind`
holds while nothing failed
and no log-in ran beside another request of its browser - otherwise the session
that was replaced stays until its expiry (`api_auth.go:270`); `TransfersAddUp`
follows the code in letting transfers chain.

## 8. Not modelled

* Payload retention: one DELETE by age of bodies that no decision reads.
* Season defaults, configuration, manifest parsing: pure functions at start-up
  or for display.
* The loop of `FPLSource.get`: its retries and waits only decide when a call
  answers or fails, which every model leaves open.
* The score of a player, the fixture swing and the differentials of transfer
  research: floating-point formulas without state.
* Player and fixture statistics, counters of `SyncMetrics`, rows of
  `sync_stages`, security events and `last_login_at`: appended or counted, read
  by no decision. The transfers and substitutions an autopsy lists, and the
  differences a preview shows: display of rows that are modelled as stored.
* The un-queued path of `syncHistories`, which needs a repository without queue.
* Search, detail and catalogue answers of the API: stateless reads.
* The web client, which holds nothing the server depends on.
