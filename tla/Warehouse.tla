------------------------------- MODULE Warehouse -------------------------------
(***************************************************************************)
(* The canonical public data: the tables that UpsertSnapshot writes, the   *)
(* dataset_snapshots that report their freshness, the cache in the Store   *)
(* and the synchronisation that moves data from the source through the     *)
(* tables into the cache, in separate steps (runSync, api.go;              *)
(* UpsertSnapshot, CreateDatasetSnapshot, LoadSnapshot, repository.go;     *)
(* NormalizeSnapshot, source.go; ApplySnapshot, store.go).                 *)
(*                                                                         *)
(* A row is reduced to the season and the version of the source's data it  *)
(* was fetched from; a fixture also has its gameweek, by which             *)
(* mergeFixtures sorts the cached rows out.  Live facts are left out.      *)
(*                                                                         *)
(* There is one synchronisation at a time, and every property below has    *)
(* that premise.  It is what acceptance is for, but a retry may start a    *)
(* second one beside the first (ScopeLocking of SyncCoordinator): what two *)
(* that overlap write, say of two seasons, is not modelled.                *)
(***************************************************************************)
EXTENDS Integers, Sequences, SequencesExt, Lists

CONSTANTS
  Seasons,     \* source ids of seasons
  Weeks,       \* source ids of gameweeks
  Fixtures,    \* source ids of fixtures
  Players,     \* source ids of players
  Requests,    \* the <<dataset, gameweek>> pairs that are asked for; 0 is no gameweek
  Archives,    \* the seasons for which an archive may be imported
  Configured,  \* FPL_SOURCE_SEASON_ID, 0 in discovery mode
  Faults,      \* may a source or database call of a synchronisation fail?
  MaxVersion,  \* bound: how often the source changes its facts
  MaxMoves,    \* bound: how often the source moves a fixture
  MaxStops     \* bound: restarts

Datasets == {"catalog", "fixtures", "live", "player-history", "full"}

ASSUME WarehouseAssumption ==
  /\ Seasons \subseteq Nat \ {0}
  /\ Weeks \subseteq Nat \ {0}
  /\ Fixtures \subseteq Nat \ {0}
  /\ IsFiniteSet(Fixtures)
  /\ Requests \subseteq Datasets \X (Weeks \cup {0})
  /\ Archives \subseteq Seasons
  /\ Configured \in Seasons \cup {0}
  /\ Faults \in BOOLEAN
  /\ MaxVersion \in Nat \ {0}
  /\ MaxMoves \in Nat
  /\ MaxStops \in Nat

VARIABLES
  upstream,   \* what the source serves, and how often it moved a fixture
  config,     \* Source.SeasonID
  seasons,    \* the table seasons
  rows,       \* rows[s]: teams and players, fixtures, histories of season s
  snapshot,   \* snapshot[s]: the latest dataset_snapshots row of season s
  cache,      \* the Store
  sync,       \* the local variables of runSync
  stops       \* restarts so far

vars == <<upstream, config, seasons, rows, snapshot, cache, sync, stops>>

Fact(s, v) == [season |-> s, version |-> v]
NoFact == Fact(0, 0)
Facts == [season : Seasons \cup {0}, version : 0 .. MaxVersion]

\* Version 0 of a season's facts is what its archive holds.
Archived(s) == Fact(s, 0)

NoFixture == [id |-> 0, week |-> 0, fact |-> NoFact]
FixtureRows == [id : Fixtures, week : Weeks \cup {0}, fact : Facts]

Kinds == {"official-current", "retained-snapshot", "historical-archive"}
NoSeason == [kind |-> "none", current |-> FALSE]

NoRows == [catalogue |-> NoFact, fixtures |-> [f \in Fixtures |-> NoFixture],
           histories |-> [p \in Players |-> NoFact]]
Tables == [catalogue : Facts, fixtures : [Fixtures -> FixtureRows \cup {NoFixture}],
           histories : [Players -> Facts]]

NoSnapshot == [state |-> "unavailable", facts |-> FALSE, origin |-> "none"]
NoData == [season |-> 0, catalogue |-> NoFact, fixtures |-> <<>>,
           histories |-> [p \in Players |-> NoFact]]
NoSync == [pc |-> "idle", dataset |-> "none", week |-> 0, season |-> 0, catalogue |-> NoFact,
           fixtures |-> <<>>, histories |-> [p \in Players |-> NoFact], complete |-> TRUE]

Sources == [season : Seasons, version : 1 .. MaxVersion, week : [Fixtures -> Weeks \cup {0}],
            moves : 0 .. MaxMoves]
Snapshots == [state : {"unavailable", "actual", "partial"}, facts : BOOLEAN,
              origin : {"none", "sync", "archive"}]
Stores == [season : Seasons \cup {0}, catalogue : Facts, fixtures : Seq(FixtureRows),
           histories : [Players -> Facts]]
Syncs == [pc : {"idle", "catalog", "fixtures", "histories", "upsert", "snapshot", "facts", "apply"},
          dataset : Datasets \cup {"none"}, week : Weeks \cup {0}, season : Seasons \cup {0},
          catalogue : Facts, fixtures : Seq(FixtureRows), histories : [Players -> Facts],
          complete : BOOLEAN]

TypeOK ==
  /\ upstream \in Sources /\ config \in Seasons \cup {0} /\ stops \in 0 .. MaxStops
  /\ seasons \in [Seasons -> [kind : Kinds \cup {"none"}, current : BOOLEAN]]
  /\ rows \in [Seasons -> Tables] /\ snapshot \in [Seasons -> Snapshots]
  /\ cache \in Stores /\ sync \in Syncs

Init ==
  /\ \E s \in Seasons, week \in [Fixtures -> Weeks] :
       /\ \A t \in Seasons : s <= t
       /\ upstream = [season |-> s, version |-> 1, week |-> week, moves |-> 0]
  /\ config = Configured
  /\ seasons = [s \in Seasons |-> NoSeason]
  /\ rows = [s \in Seasons |-> NoRows]
  /\ snapshot = [s \in Seasons |-> NoSnapshot]
  /\ cache = NoData
  /\ sync = NoSync
  /\ stops = 0

-----------------------------------------------------------------------------
(* The source.                                                             *)

Served == Fact(upstream.season, upstream.version)

\* The feed of one gameweek, or of all: each fixture once.
Feed(w) ==
  LET F == {f \in Fixtures : w = 0 \/ upstream.week[f] = w}
  IN SetToSeq({[id |-> f, week |-> upstream.week[f], fact |-> Served] : f \in F})

Publish ==
  /\ upstream.version < MaxVersion
  /\ upstream' = [upstream EXCEPT !.version = @ + 1]
  /\ UNCHANGED <<config, seasons, rows, snapshot, cache, sync, stops>>

\* A fixture gets another gameweek, or none yet.
Reschedule(f, w) ==
  /\ upstream.moves < MaxMoves
  /\ upstream.week[f] # w
  /\ upstream' = [upstream EXCEPT !.week[f] = w, !.moves = @ + 1]
  /\ UNCHANGED <<config, seasons, rows, snapshot, cache, sync, stops>>

Rollover(s) ==
  /\ s > upstream.season
  /\ upstream' = [upstream EXCEPT !.season = s]
  /\ UNCHANGED <<config, seasons, rows, snapshot, cache, sync, stops>>

-----------------------------------------------------------------------------
(* UpsertSnapshot: one transaction.                                        *)

\* Faulty variant: the season that was current keeps its marker.
RolledKeepingMarkers(s) ==
  [seasons EXCEPT ![s] = [kind |-> "official-current", current |-> TRUE]]

\* The current marker moves to s; whatever was official before is retained.
RolledForward(s) ==
  [q \in Seasons |->
     IF q = s THEN [kind |-> "official-current", current |-> TRUE]
     ELSE [kind |-> IF seasons[q].kind = "official-current" THEN "retained-snapshot" ELSE seasons[q].kind,
           current |-> FALSE]]

\* Rows are written in the order given: of two for one fixture the last stays.
LastOf(S, f) ==
  LET I == {i \in DOMAIN S : S[i].id = f} IN S[CHOOSE i \in I : \A j \in I : j <= i]

Upserted(r, catalogue, fixtures, histories) ==
  [catalogue |-> catalogue,
   fixtures  |-> [f \in Fixtures |-> IF \E i \in DOMAIN fixtures : fixtures[i].id = f
                                     THEN LastOf(fixtures, f) ELSE r.fixtures[f]],
   histories |-> [p \in Players |-> IF histories[p] # NoFact THEN histories[p] ELSE r.histories[p]]]

-----------------------------------------------------------------------------
(* runSync.                                                                *)

NeedsFixtures == sync.dataset # "catalog"
NeedsHistories == sync.dataset \in {"player-history", "full"}

OnlySync == UNCHANGED <<upstream, config, seasons, rows, snapshot, cache, stops>>

StartSync(request) ==
  /\ sync.pc = "idle"
  /\ sync' = [NoSync EXCEPT !.pc = "catalog", !.dataset = request[1], !.week = request[2]]
  /\ OnlySync

\* NormalizeSnapshot takes the season from the configuration if it names one,
\* else from the catalogue; it does not compare the two.
Identity == IF config # 0 THEN config ELSE upstream.season

FetchCatalog ==
  /\ sync.pc = "catalog"
  /\ sync' = [sync EXCEPT !.pc = IF NeedsFixtures THEN "fixtures" ELSE "upsert",
                          !.season = Identity, !.catalogue = Served]
  /\ OnlySync

\* Faulty variant: what has been fetched is served at once.
FetchFixturesIntoCache ==
  /\ sync.pc = "fixtures"
  /\ sync' = [sync EXCEPT !.pc = IF NeedsHistories THEN "histories" ELSE "upsert",
                          !.fixtures = Feed(sync.week)]
  /\ cache' = [cache EXCEPT !.season = sync.season, !.catalogue = sync.catalogue,
                            !.fixtures = Feed(sync.week)]
  /\ UNCHANGED <<upstream, config, seasons, rows, snapshot, stops>>

FetchFixtures ==
  /\ sync.pc = "fixtures"
  /\ sync' = [sync EXCEPT !.pc = IF NeedsHistories THEN "histories" ELSE "upsert",
                          !.fixtures = Feed(sync.week)]
  /\ OnlySync

\* The histories of the players in P arrive.  The synchronisation calls itself
\* partial after a request that failed: also after one that a retry made good,
\* but not for players whose work item could not be claimed.
FetchHistories(P, complete) ==
  /\ sync.pc = "histories"
  /\ sync' = [sync EXCEPT !.pc = "upsert", !.complete = complete,
                          !.histories = [p \in Players |-> IF p \in P THEN Served ELSE NoFact]]
  /\ OnlySync

\* Faulty variant: the other gameweeks are forgotten.
mergeNothing(existing, incoming, week) == incoming

mergeFixtures(existing, incoming, week) ==
  Subsequence(existing, {i \in DOMAIN existing : existing[i].week # week}) \o incoming

\* What a scope did not fetch is taken from the cache.
MergedFixtures ==
  IF ~NeedsFixtures THEN cache.fixtures
  ELSE IF sync.week # 0 /\ sync.dataset # "full"
  THEN mergeFixtures(cache.fixtures, sync.fixtures, sync.week) ELSE sync.fixtures
MergedHistories == IF NeedsHistories THEN sync.histories ELSE cache.histories

\* Faulty variant: histories are joined with the players of every season.
UpsertSnapshotOfAllSeasons ==
  /\ sync.pc = "upsert"
  /\ seasons' = RolledForward(sync.season)
  /\ rows' = [s \in Seasons |->
       IF s = sync.season THEN Upserted(rows[s], sync.catalogue, MergedFixtures, MergedHistories)
       ELSE IF rows[s] = NoRows THEN rows[s]
       ELSE Upserted(rows[s], rows[s].catalogue, <<>>, MergedHistories)]
  /\ sync' = [sync EXCEPT !.pc = "snapshot", !.fixtures = MergedFixtures, !.histories = MergedHistories]
  /\ UNCHANGED <<upstream, config, snapshot, cache, stops>>

UpsertSnapshot ==
  /\ sync.pc = "upsert"
  /\ seasons' = RolledForward(sync.season)
  /\ rows' = [rows EXCEPT ![sync.season] =
                Upserted(@, sync.catalogue, MergedFixtures, MergedHistories)]
  /\ sync' = [sync EXCEPT !.pc = "snapshot", !.fixtures = MergedFixtures, !.histories = MergedHistories]
  /\ UNCHANGED <<upstream, config, snapshot, cache, stops>>

CreateDatasetSnapshot ==
  /\ sync.pc = "snapshot"
  /\ snapshot' = [snapshot EXCEPT ![sync.season] =
       [state |-> IF sync.complete THEN "actual" ELSE "partial", facts |-> FALSE, origin |-> "sync"]]
  /\ sync' = [sync EXCEPT !.pc = "facts"]
  /\ UNCHANGED <<upstream, config, seasons, rows, cache, stops>>

\* UpsertPlayerSnapshots and UpsertFixtureStats; the latest snapshot may
\* meanwhile be that of an import.
UpsertFacts ==
  /\ sync.pc = "facts"
  /\ snapshot' = [snapshot EXCEPT ![sync.season].facts = @ \/ snapshot[sync.season].origin = "sync"]
  /\ sync' = [sync EXCEPT !.pc = "apply"]
  /\ UNCHANGED <<upstream, config, seasons, rows, cache, stops>>

\* Faulty variant: the cached fixtures stay as well.
ApplySnapshotWithoutFixtures ==
  /\ sync.pc = "apply"
  /\ cache' = [season |-> sync.season, catalogue |-> sync.catalogue, fixtures |-> cache.fixtures,
               histories |-> [p \in Players |-> IF sync.histories[p] # NoFact
                                                THEN sync.histories[p] ELSE cache.histories[p]]]
  /\ sync' = NoSync
  /\ UNCHANGED <<upstream, config, seasons, rows, snapshot, stops>>

\* The cached histories of players that are not in the argument stay.
ApplySnapshot ==
  /\ sync.pc = "apply"
  /\ cache' = [season |-> sync.season, catalogue |-> sync.catalogue, fixtures |-> sync.fixtures,
               histories |-> [p \in Players |-> IF sync.histories[p] # NoFact
                                                THEN sync.histories[p] ELSE cache.histories[p]]]
  /\ sync' = NoSync
  /\ UNCHANGED <<upstream, config, seasons, rows, snapshot, stops>>

\* failStage and its like, wherever a call fails.
FailSync ==
  /\ Faults
  /\ sync.pc \notin {"idle", "apply"}
  /\ sync' = NoSync
  /\ OnlySync

-----------------------------------------------------------------------------
(* The archive import, a process of its own, and the start of the API.     *)

\* Faulty variant: the conflict clause copies is_current.
ImportArchiveUnmarks(s, P) ==
  /\ seasons' = [seasons EXCEPT ![s] = [kind |-> "historical-archive", current |-> FALSE]]
  /\ rows' = [rows EXCEPT ![s] =
       Upserted(@, Archived(s),
                SetToSeq({[id |-> f, week |-> upstream.week[f], fact |-> Archived(s)] : f \in Fixtures}),
                [p \in Players |-> IF p \in P THEN Archived(s) ELSE NoFact])]
  /\ \/ \E state \in {"partial"} \cup (IF P = Players THEN {"actual"} ELSE {}) :
          snapshot' = [snapshot EXCEPT ![s] = [state |-> state, facts |-> FALSE, origin |-> "archive"]]
     \/ UNCHANGED snapshot
  /\ UNCHANGED <<upstream, config, cache, sync, stops>>

\* The archive has the histories of the players in P.  It does not mark its
\* season as current, nor unmark it.  It is partial also for want of another
\* dataset, and it may stop after the tables.  (A retained snapshot differs in
\* its label only; any gameweek does.)
ImportArchive(s, P) ==
  /\ seasons' = [seasons EXCEPT ![s].kind = "historical-archive"]
  /\ rows' = [rows EXCEPT ![s] =
       Upserted(@, Archived(s),
                SetToSeq({[id |-> f, week |-> upstream.week[f], fact |-> Archived(s)] : f \in Fixtures}),
                [p \in Players |-> IF p \in P THEN Archived(s) ELSE NoFact])]
  /\ \/ \E state \in {"partial"} \cup (IF P = Players THEN {"actual"} ELSE {}) :
          snapshot' = [snapshot EXCEPT ![s] = [state |-> state, facts |-> FALSE, origin |-> "archive"]]
     \/ UNCHANGED snapshot
  /\ UNCHANGED <<upstream, config, cache, sync, stops>>

CurrentSeasons == {s \in Seasons : seasons[s].current}

LoadSnapshot ==
  IF CurrentSeasons = {} THEN NoData
  ELSE LET s == CHOOSE t \in Seasons : t \in CurrentSeasons
       IN [season |-> s, catalogue |-> rows[s].catalogue, histories |-> rows[s].histories,
           fixtures |-> SetToSeq({rows[s].fixtures[f] : f \in Fixtures} \ {NoFixture})]

\* The process dies or is stopped and comes back, perhaps configured for the
\* season the source has reached.  When the load fails it serves without data.
Restart ==
  /\ stops < MaxStops
  /\ stops' = stops + 1
  /\ sync' = NoSync
  /\ \/ cache' = LoadSnapshot
     \/ Faults /\ cache' = NoData
  /\ config' \in IF config = 0 THEN {0} ELSE {config} \cup {s \in Seasons : config < s /\ s <= upstream.season}
  /\ UNCHANGED <<upstream, seasons, rows, snapshot>>

-----------------------------------------------------------------------------

SyncStep ==
  \/ FetchCatalog
  \/ FetchFixtures
  \/ \E P \in SUBSET Players, complete \in BOOLEAN : FetchHistories(P, complete)
  \/ UpsertSnapshot
  \/ CreateDatasetSnapshot
  \/ UpsertFacts
  \/ ApplySnapshot

Next ==
  \/ Publish
  \/ \E f \in Fixtures, w \in Weeks \cup {0} : Reschedule(f, w)
  \/ \E s \in Seasons : Rollover(s)
  \/ \E request \in Requests : StartSync(request)
  \/ SyncStep
  \/ FailSync
  \/ \E s \in Archives, P \in SUBSET Players : ImportArchive(s, P)
  \/ Restart

Spec == Init /\ [][Next]_vars

\* The scheduler keeps asking, and a synchronisation goes on.
FairSpec ==
  Spec /\ WF_vars(SyncStep) /\ WF_vars(\E request \in Requests : StartSync(request))

-----------------------------------------------------------------------------
(* Properties.                                                             *)

\* The index seasons_one_current_idx never refuses a write, and once a season is
\* current there always is one: the marker is moved, not set and cleared.
OneCurrentSeason ==
  /\ \A s, t \in CurrentSeasons : s = t
  /\ sync.pc \in {"snapshot", "facts", "apply"} => CurrentSeasons = {sync.season}

\* The marker never moves back, and nothing takes it away: not an import, nor
\* a synchronisation that began before the season changed, nor a restart.
MarkerNeverMovesBack ==
  [][\A s \in Seasons : seasons[s].current => \E t \in Seasons : s <= t /\ seasons'[t].current]_vars

\* A season that is over changes by an import only.
PastSeasonsAreKept ==
  [][\A s \in Seasons :
       (\E t \in Seasons : s < t /\ seasons[t].current) =>
         /\ rows'[s].catalogue \in {rows[s].catalogue, Archived(s)}
         /\ \A p \in Players : rows'[s].histories[p] \in {rows[s].histories[p], Archived(s)}
         /\ \A f \in Fixtures : rows'[s].fixtures[f] = rows[s].fixtures[f]
                                \/ rows'[s].fixtures[f].fact = Archived(s)]_vars

Held(stored, cached, s) == stored = cached \/ stored = Archived(s)

\* What handlers read was committed: the cache takes from a synchronisation
\* only what the tables of the current season hold by then, except for what an
\* archive was imported over; the rest of it stays what it was (store.go:89).
CacheTakesWhatIsCommitted ==
  [][cache'.season # 0 /\ cache' # cache =>
       LET s == cache'.season  table == rows[s] IN
       /\ seasons[s].current
       /\ Held(table.catalogue, cache'.catalogue, s)
       /\ \A row \in ToSet(cache'.fixtures) \ ToSet(cache.fixtures) :
            table.fixtures[row.id] = row \/ table.fixtures[row.id].fact = Archived(s)
       /\ \A p \in Players : cache'.histories[p] # cache.histories[p] =>
            Held(table.histories[p], cache'.histories[p], s)]_vars

\* The tables and the cache have their types, and the cache holds nothing that
\* was never written.
DataIsSound == []TypeOK /\ CacheTakesWhatIsCommitted

Covers(new, old) == old = NoFact \/ (new.season = old.season /\ new.version >= old.version)

\* The canonical facts of a season never give way to older ones of the same
\* season, whatever scopes follow each other, except to its archive's.
StoredFactsDoNotAge ==
  [][\A s \in Seasons :
       /\ \A f \in Fixtures : Covers(rows'[s].fixtures[f].fact, rows[s].fixtures[f].fact)
       /\ \A p \in Players : Covers(rows'[s].histories[p], rows[s].histories[p])]_vars

\* Between synchronisations the cache is what a restart would load: each stored
\* fixture once, and every history.
CacheMatchesTables ==
  sync.pc = "idle" =>
    LET loaded == LoadSnapshot IN
    /\ Len(cache.fixtures) = Len(loaded.fixtures)
    /\ ToSet(cache.fixtures) = ToSet(loaded.fixtures)
    /\ cache.histories = loaded.histories

\* The rows of a season were fetched from that season.  Refuted: the configured
\* identity is not compared with the catalogue's.
SeasonsAreNotMixed ==
  \A s \in Seasons :
    /\ rows[s].catalogue.season \in {0, s}
    /\ \A f \in Fixtures : rows[s].fixtures[f].fact.season \in {0, s}
    /\ \A p \in Players : rows[s].histories[p].season \in {0, s}

\* No fact of a season that is over becomes one of a later season.  Refuted:
\* a scope that does not fetch a dataset writes the cached one.
OldFactsStayBehind ==
  \A s \in Seasons :
    /\ \A f \in Fixtures : rows[s].fixtures[f].fact.season \notin 1 .. s - 1
    /\ \A p \in Players : rows[s].histories[p].season \notin 1 .. s - 1

\* The current season's source is the official one.  Refuted: an archive of the
\* current season relabels it and leaves it current.
CurrentSeasonIsOfficial == \A s \in CurrentSeasons : seasons[s].kind = "official-current"

\* A dataset that a synchronisation reports as actual has its facts.
\* Refuted: it is reported before they are written.
FreshnessIsHonest ==
  sync.pc = "idle" =>
    \A s \in Seasons : snapshot[s].origin = "sync" /\ snapshot[s].state = "actual" => snapshot[s].facts

\* Where the season is discovered, the warehouse arrives at the one the source
\* has rolled over to, whichever scopes are asked for.
SeasonArrives ==
  \A s \in Seasons : (upstream.season = s /\ config = 0) ~> (\E t \in Seasons : s <= t /\ seasons[t].current)
=============================================================================
