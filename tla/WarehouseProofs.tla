----------------------------- MODULE WarehouseProofs -----------------------------
(***************************************************************************)
(* What holds of Warehouse for every set of seasons, gameweeks, fixtures   *)
(* and players, every set of requests and archives, with the season        *)
(* configured or discovered, however calls fail and whenever the process   *)
(* restarts: one season is current, the marker moves forward only, and     *)
(* past seasons are changed by imports only.                               *)
(*                                                                         *)
(* The invariant says where the season of a synchronisation lies: not      *)
(* before the marker, because no one else moves it meanwhile, and not      *)
(* after what the source or the configuration has reached.                 *)
(*                                                                         *)
(* Of the data it says that between the upsert and the end the tables hold *)
(* what the synchronisation carries (Carries), which needs each fetched    *)
(* fixture to be listed once and each stored one under its own id.         *)
(*                                                                         *)
(* Where nothing disturbs the synchronisations (Clean), the cache mirrors  *)
(* the tables, each stored fixture once, and the synchronisation does once *)
(* it has written them (InStep).                                           *)
(***************************************************************************)
EXTENDS Warehouse, CollectionTheorems

\* The seasons that are current or being written; the fields in braces are
\* not constrained.
Shape ==
  /\ upstream \in [season : Seasons, version : {upstream.version}, week : {upstream.week},
                   moves : {upstream.moves}]
  /\ config \in Seasons \cup {0}
  /\ seasons \in [Seasons -> [kind : Kinds \cup {"none"}, current : BOOLEAN]]
  /\ rows = [s \in Seasons |-> rows[s]]
  /\ sync \in [pc : {"idle", "catalog", "fixtures", "histories", "upsert", "snapshot", "facts", "apply"},
               dataset : {sync.dataset}, week : {sync.week}, season : Seasons \cup {0},
               catalogue : {sync.catalogue}, fixtures : {sync.fixtures},
               histories : {sync.histories}, complete : {sync.complete}]

Identified == {"fixtures", "histories", "upsert", "snapshot", "facts", "apply"}
Written == {"snapshot", "facts", "apply"}

Marked(s) == s \in Seasons /\ seasons[s].current

MarkerInv ==
  /\ \A s, t \in Seasons : seasons[s].current /\ seasons[t].current => s = t
  /\ \A s \in Seasons : seasons[s].current => s <= Identity
  /\ sync.pc \in Identified =>
       /\ sync.season \in Seasons
       /\ sync.season <= Identity
       /\ \A s \in Seasons : seasons[s].current => s <= sync.season
  /\ sync.pc \in Written => seasons[sync.season].current

Inv == Shape /\ MarkerInv

-----------------------------------------------------------------------------

LEMMA IdentityType ==
  ASSUME Shape
  PROVE  Identity \in Nat /\ Identity \in Seasons
  BY WarehouseAssumption DEF Shape, Identity

\* SetToSeq lists the elements of a finite set, each once.
LEMMA ListedRows ==
  ASSUME NEW S, IsFiniteSet(S)
  PROVE  /\ SetToSeq(S) \in [1 .. Cardinality(S) -> S]
         /\ IsInjective(SetToSeq(S))
<1>1. ExistsBijection(1 .. Cardinality(S), S)
  BY FS_CardinalityType
<1>2. PICK g \in [1 .. Cardinality(S) -> S] : IsInjective(g)
  BY <1>1 DEF ExistsBijection, Bijection, Injection, IsInjective
<1> QED
  BY <1>2 DEF SetToSeq

LEMMA InitInv == Init => Inv
<1> SUFFICES ASSUME Init PROVE Inv
  OBVIOUS
<1> USE WarehouseAssumption DEF Init
<1>1. Shape
  BY DEF Shape, NoSync, NoSeason
<1>2. MarkerInv
  BY DEF MarkerInv, NoSync, NoSeason, Identified, Written
<1> QED
  BY <1>1, <1>2 DEF Inv

-----------------------------------------------------------------------------
(* One lemma for the steps that leave the marker alone, one for the step   *)
(* that moves it.                                                          *)

\* The source and the process before they fetch: what is current stays behind.
LEMMA OtherSteps ==
  ASSUME Inv,
         \/ Publish
         \/ \E f \in Fixtures, w \in Weeks \cup {0} : Reschedule(f, w)
         \/ \E s \in Seasons : Rollover(s)
         \/ \E request \in Requests : StartSync(request)
         \/ FailSync
         \/ Restart
         \/ UNCHANGED vars
  PROVE  Inv'
<1> USE WarehouseAssumption DEF Inv, Shape, MarkerInv, Identity, Identified, Written
<1>1. CASE Publish
  BY <1>1 DEF Publish
<1>2. ASSUME NEW f \in Fixtures, NEW w \in Weeks \cup {0}, Reschedule(f, w) PROVE Inv'
  BY <1>2 DEF Reschedule
<1>3. ASSUME NEW s \in Seasons, Rollover(s) PROVE Inv'
  BY <1>3 DEF Rollover
<1>4. ASSUME NEW request \in Requests, StartSync(request) PROVE Inv'
  BY <1>4 DEF StartSync, OnlySync, NoSync
<1>5. CASE FailSync
  BY <1>5 DEF FailSync, OnlySync, NoSync
<1>6. CASE Restart
  BY <1>6 DEF Restart, NoSync
<1>7. CASE UNCHANGED vars
  BY <1>7 DEF vars
<1> QED
  BY <1>1, <1>2, <1>3, <1>4, <1>5, <1>6, <1>7

LEMMA FetchSteps ==
  ASSUME Inv, FetchCatalog \/ FetchFixtures \/ (\E P \in SUBSET Players, complete \in BOOLEAN : FetchHistories(P, complete))
  PROVE  Inv'
<1> USE WarehouseAssumption DEF Inv, Shape, MarkerInv, Identity, Identified, Written
<1>1. CASE FetchCatalog
  <2>1. PICK pc \in {"fixtures", "upsert"} :
          sync' = [sync EXCEPT !.pc = pc, !.season = Identity, !.catalogue = Served]
    BY <1>1 DEF FetchCatalog
  <2>2. UNCHANGED <<upstream, config, seasons, rows>>
    BY <1>1 DEF FetchCatalog, OnlySync
  <2>3. Identity \in Seasons /\ Identity' = Identity
    BY <2>2, IdentityType
  <2>4. sync'.pc = pc /\ sync'.season = Identity
    BY <2>1
  <2>5. Shape'
    BY <2>1, <2>2, <2>3
  <2>6. MarkerInv'
    <3>1. Seasons \subseteq Nat
      OBVIOUS
    <3> HIDE DEF Identity
    <3> QED
      BY <2>2, <2>3, <2>4, <3>1
  <2> QED
    BY <2>5, <2>6
<1>2. CASE FetchFixtures
  BY <1>2 DEF FetchFixtures, OnlySync
<1>3. CASE \E P \in SUBSET Players, complete \in BOOLEAN : FetchHistories(P, complete)
  <2>1. PICK P \in SUBSET Players, complete \in BOOLEAN : FetchHistories(P, complete)
    BY <1>3
  <2> QED
    BY <2>1 DEF FetchHistories, OnlySync
<1> QED
  BY <1>1, <1>2, <1>3

LEMMA UpsertStep ==
  ASSUME Inv, UpsertSnapshot
  PROVE  Inv'
<1> USE WarehouseAssumption DEF Inv, Shape, MarkerInv, Identified, Written
<1>1. seasons' = RolledForward(sync.season) /\ sync.season \in Seasons /\ sync.season <= Identity
  BY DEF UpsertSnapshot
<1>2. \A s \in Seasons : seasons'[s].current <=> s = sync.season
  BY <1>1 DEF RolledForward
<1>3. Shape'
  <2>1. seasons' \in [Seasons -> [kind : Kinds \cup {"none"}, current : BOOLEAN]]
    BY <1>1 DEF RolledForward, Kinds
  <2>2. rows' = [s \in Seasons |-> rows'[s]]
    BY DEF UpsertSnapshot
  <2>3. sync' = [sync EXCEPT !.pc = "snapshot", !.fixtures = MergedFixtures, !.histories = MergedHistories]
    BY DEF UpsertSnapshot
  <2> QED
    BY <2>1, <2>2, <2>3 DEF UpsertSnapshot
<1>4. Identity' = Identity /\ sync'.season = sync.season /\ sync'.pc = "snapshot"
  BY DEF UpsertSnapshot, Identity
<1>5. MarkerInv'
  BY <1>1, <1>2, <1>4, IdentityType
<1> QED
  BY <1>3, <1>5

LEMMA ReportSteps ==
  ASSUME Inv, CreateDatasetSnapshot \/ UpsertFacts \/ ApplySnapshot
  PROVE  Inv'
<1> USE WarehouseAssumption DEF Inv, Shape, MarkerInv, Identity, Identified, Written
<1>1. CASE CreateDatasetSnapshot
  BY <1>1 DEF CreateDatasetSnapshot
<1>2. CASE UpsertFacts
  BY <1>2 DEF UpsertFacts
<1>3. CASE ApplySnapshot
  BY <1>3 DEF ApplySnapshot, NoSync
<1> QED
  BY <1>1, <1>2, <1>3

\* An import changes a label and rows, not the marker.
LEMMA ImportStep ==
  ASSUME Inv, NEW t \in Archives, NEW P \in SUBSET Players, ImportArchive(t, P)
  PROVE  Inv' /\ \A s \in Seasons : seasons'[s].current = seasons[s].current
<1> USE WarehouseAssumption DEF Inv, Shape
<1>1. /\ seasons' = [seasons EXCEPT ![t].kind = "historical-archive"]
      /\ UNCHANGED <<upstream, config, sync>>
  BY DEF ImportArchive
<1>2. \A s \in Seasons : seasons'[s].current = seasons[s].current
  BY <1>1
<1>3. Shape'
  <2>1. rows' = [s \in Seasons |-> rows'[s]]
    BY DEF ImportArchive
  <2>2. seasons' \in [Seasons -> [kind : Kinds \cup {"none"}, current : BOOLEAN]]
    BY <1>1 DEF Kinds
  <2> QED
    BY <1>1, <2>1, <2>2
<1>4. MarkerInv'
  BY <1>1, <1>2 DEF MarkerInv, Identity, Identified, Written
<1> QED
  BY <1>2, <1>3, <1>4

LEMMA StepInv == Inv /\ [Next]_vars => Inv'
<1> SUFFICES ASSUME Inv, [Next]_vars PROVE Inv'
  OBVIOUS
<1>1. CASE SyncStep
  BY <1>1, FetchSteps, UpsertStep, ReportSteps DEF SyncStep
<1>2. CASE \E s \in Archives, P \in SUBSET Players : ImportArchive(s, P)
  BY <1>2, ImportStep
<1> QED
  BY <1>1, <1>2, OtherSteps DEF Next

\* The inductive invariant: the marker, the season being synchronised and the
\* season reached lie in this order.
THEOREM MarkerInvariant == Spec => []Inv
<1> QED
  BY InitInv, StepInv, PTL DEF Spec

\* The warehouse never has two current seasons, and the season that was just
\* written is it: the unique index of migration 7 refuses no write.
THEOREM SeasonMarkerUnique == Spec => []OneCurrentSeason
<1>1. Inv => OneCurrentSeason
  BY DEF Inv, Shape, MarkerInv, OneCurrentSeason, CurrentSeasons, Identified, Written
<1> QED
  BY <1>1, MarkerInvariant, PTL

\* The marker of the current season moves to a later season or stays, in every
\* step: no import, restart or late synchronisation takes it back or away.
THEOREM MarkerIsMonotone == Spec => MarkerNeverMovesBack
<1> DEFINE Forward == \A s \in Seasons : seasons[s].current => \E t \in Seasons : s <= t /\ seasons'[t].current
<1>1. Inv /\ [Next]_vars => [Forward]_vars
  <2> SUFFICES ASSUME Inv, Next PROVE Forward
    BY DEF vars
  <2>1. Seasons \subseteq Nat
    BY WarehouseAssumption
  <2>2. CASE UpsertSnapshot
    <3>1. sync.season \in Seasons /\ \A s \in Seasons : seasons[s].current => s <= sync.season
      BY <2>2 DEF Inv, MarkerInv, Identified, UpsertSnapshot
    <3>2. seasons'[sync.season].current
      BY <2>2, <3>1 DEF UpsertSnapshot, RolledForward
    <3> QED
      BY <3>1, <3>2
  <2>3. ASSUME NEW t \in Archives, NEW P \in SUBSET Players, ImportArchive(t, P) PROVE Forward
    BY <2>1, <2>3, ImportStep
  <2>4. CASE UNCHANGED seasons
    BY <2>1, <2>4
  <2> QED
    BY <2>2, <2>3, <2>4
    DEF Next, SyncStep, Publish, Reschedule, Rollover, StartSync, OnlySync, FetchCatalog, FetchFixtures,
        FetchHistories, CreateDatasetSnapshot, UpsertFacts, ApplySnapshot, FailSync, Restart
<1> QED
  BY <1>1, MarkerInvariant, PTL DEF Spec, MarkerNeverMovesBack

\* What an import writes of a fixture or a history is the archive's.
LEMMA ImportedRows ==
  ASSUME NEW s \in Seasons, NEW P \in SUBSET Players
  PROVE  LET list == SetToSeq({[id |-> f, week |-> upstream.week[f], fact |-> Archived(s)] : f \in Fixtures})
             new == Upserted(rows[s], Archived(s), list, [p \in Players |-> IF p \in P THEN Archived(s) ELSE NoFact])
         IN  /\ new.catalogue = Archived(s)
             /\ \A p \in Players : new.histories[p] \in {rows[s].histories[p], Archived(s)}
             /\ \A f \in Fixtures : new.fixtures[f] = rows[s].fixtures[f] \/ new.fixtures[f].fact = Archived(s)
<1> DEFINE S == {[id |-> f, week |-> upstream.week[f], fact |-> Archived(s)] : f \in Fixtures}
           list == SetToSeq(S)
           new == Upserted(rows[s], Archived(s), list, [p \in Players |-> IF p \in P THEN Archived(s) ELSE NoFact])
<1>1. IsFiniteSet(S)
  <2> DEFINE g == [f \in Fixtures |-> [id |-> f, week |-> upstream.week[f], fact |-> Archived(s)]]
  <2>1. g \in Surjection(Fixtures, S)
    BY DEF Surjection
  <2> QED
    BY <2>1, WarehouseAssumption, FS_Surjection DEF ExistsSurjection
<1>2. /\ list \in [1 .. Cardinality(S) -> S]
      /\ \A i, j \in 1 .. Cardinality(S) : list[i] = list[j] => i = j
  <2> HIDE DEF S
  <2>1. list \in [1 .. Cardinality(S) -> S] /\ IsInjective(list)
    BY <1>1, ListedRows
  <2> QED
    BY <2>1 DEF IsInjective
<1>3. /\ \A x \in S : x.fact = Archived(s)
      /\ \A x, y \in S : x.id = y.id => x = y
  OBVIOUS
<1>4. ASSUME NEW f \in Fixtures PROVE new.fixtures[f] = rows[s].fixtures[f] \/ new.fixtures[f].fact = Archived(s)
  <2> HIDE DEF S, list
  <2>1. CASE \A i \in DOMAIN list : list[i].id # f
    BY <2>1 DEF Upserted
  <2>2. ASSUME NEW i \in DOMAIN list, list[i].id = f PROVE new.fixtures[f].fact = Archived(s)
    <3> DEFINE I == {j \in DOMAIN list : list[j].id = f}
    <3>1. i \in Int /\ DOMAIN list = 1 .. Cardinality(S)
      BY <1>1, <1>2, <2>2, FS_CardinalityType
    <3>2. I = {i}
      BY <1>2, <1>3, <2>2, <3>1
    <3>3. (CHOOSE j \in I : \A k \in I : k <= j) = i
      BY <3>1, <3>2
    <3>4. new.fixtures[f] = list[i]
      BY <2>2, <3>3 DEF Upserted, LastOf
    <3> QED
      BY <1>2, <1>3, <2>2, <3>4
  <2> QED
    BY <2>1, <2>2
<1> QED
  BY <1>4 DEF Upserted

\* The rows of a season that is not current any more are changed by an import
\* of that season and by nothing else.
THEOREM HistoryIsKept == Spec => PastSeasonsAreKept
<1> DEFINE Past(s) == \E t \in Seasons : s < t /\ seasons[t].current
           Kept(s) == /\ rows'[s].catalogue \in {rows[s].catalogue, Archived(s)}
                      /\ \A p \in Players : rows'[s].histories[p] \in {rows[s].histories[p], Archived(s)}
                      /\ \A f \in Fixtures : rows'[s].fixtures[f] = rows[s].fixtures[f]
                                             \/ rows'[s].fixtures[f].fact = Archived(s)
<1>1. Inv /\ [Next]_vars => [\A s \in Seasons : Past(s) => Kept(s)]_vars
  <2> SUFFICES ASSUME Inv, Next, NEW s \in Seasons, Past(s) PROVE Kept(s)
    BY DEF vars
  <2>1. CASE UpsertSnapshot
    <3>1. s < sync.season /\ sync.season \in Seasons
      BY <2>1, WarehouseAssumption DEF Inv, MarkerInv, Identified, UpsertSnapshot
    <3>2. rows'[s] = rows[s]
      BY <2>1, <3>1, WarehouseAssumption DEF Inv, Shape, UpsertSnapshot
    <3> QED
      BY <3>2
  <2>2. ASSUME NEW t \in Archives, NEW P \in SUBSET Players, ImportArchive(t, P) PROVE Kept(s)
    <3>1. CASE s = t
      <4> DEFINE list == SetToSeq({[id |-> f, week |-> upstream.week[f], fact |-> Archived(s)] : f \in Fixtures})
                 new == Upserted(rows[s], Archived(s), list, [p \in Players |-> IF p \in P THEN Archived(s) ELSE NoFact])
      <4>1. rows'[s] = new
        BY <2>2, <3>1 DEF Inv, Shape, ImportArchive
      <4>2. /\ new.catalogue = Archived(s)
            /\ \A p \in Players : new.histories[p] \in {rows[s].histories[p], Archived(s)}
            /\ \A f \in Fixtures : new.fixtures[f] = rows[s].fixtures[f] \/ new.fixtures[f].fact = Archived(s)
        BY ImportedRows
      <4> QED
        BY <4>1, <4>2
    <3>2. CASE s # t
      <4>1. rows'[s] = rows[s]
        BY <2>2, <3>2 DEF Inv, Shape, ImportArchive
      <4> QED
        BY <4>1
    <3> QED
      BY <3>1, <3>2
  <2>3. CASE UNCHANGED rows
    BY <2>3
  <2> QED
    BY <2>1, <2>2, <2>3
    DEF Next, SyncStep, Publish, Reschedule, Rollover, StartSync, OnlySync, FetchCatalog, FetchFixtures,
        FetchHistories, CreateDatasetSnapshot, UpsertFacts, ApplySnapshot, FailSync, Restart
<1> QED
  BY <1>1, MarkerInvariant, PTL DEF Spec, PastSeasonsAreKept

-----------------------------------------------------------------------------
(* The data: types, and what the cache takes from the tables.              *)

\* Each fixture once.
Once(list) == \A i, j \in DOMAIN list : list[i].id = list[j].id => i = j

\* A stored fixture is stored under its id.
Filed == \A s \in Seasons : \A f \in Fixtures : rows[s].fixtures[f] = NoFixture \/ rows[s].fixtures[f].id = f

\* After the upsert the tables hold what the synchronisation carries, unless
\* an archive was imported over it or it is the content of the cache.
Carries(table, s, carried) ==
  /\ Held(table.catalogue, carried.catalogue, s)
  /\ \A row \in ToSet(carried.fixtures) \ ToSet(cache.fixtures) :
       table.fixtures[row.id] = row \/ table.fixtures[row.id].fact = Archived(s)
  /\ \A p \in Players :
       \/ carried.histories[p] \in {NoFact, cache.histories[p]}
       \/ Held(table.histories[p], carried.histories[p], s)

Unwritten == {"catalog", "fixtures", "histories", "upsert"}

DataInv ==
  /\ TypeOK /\ Filed
  /\ sync.pc \in Unwritten => Once(sync.fixtures)
  /\ sync.pc \in Written => Carries(rows[sync.season], sync.season, sync)

LEMMA SomeFacts ==
  ASSUME TypeOK
  PROVE  NoFact \in Facts /\ Served \in Facts /\ \A s \in Seasons : Archived(s) \in Facts
BY WarehouseAssumption DEF TypeOK, Sources, Facts, NoFact, Served, Archived, Fact

\* The rows of a finite set in some order.
LEMMA ListedOnce ==
  ASSUME NEW S \in SUBSET FixtureRows, IsFiniteSet(S)
  PROVE  /\ SetToSeq(S) \in Seq(FixtureRows)
         /\ ToSet(SetToSeq(S)) \subseteq S
         /\ (\A x, y \in S : x.id = y.id => x = y) => Once(SetToSeq(S))
<1>1. PICK list : list = SetToSeq(S)
  OBVIOUS
<1>2. PICK n \in Nat : n = Cardinality(S)
  BY FS_CardinalityType
<1>3. list \in [1 .. n -> S] /\ IsInjective(list)
  BY <1>1, <1>2, ListedRows
<1>4. list \in Seq(FixtureRows)
  <2>1. list \in [1 .. n -> FixtureRows]
    BY <1>3
  <2> QED
    BY <2>1, SeqDef
<1>5. ToSet(list) \subseteq S
  BY <1>3 DEF ToSet
<1>6. ASSUME \A x, y \in S : x.id = y.id => x = y
      PROVE  Once(list)
  <2>1. \A i, j \in 1 .. n : list[i] \in S /\ (list[i] = list[j] => i = j)
    BY <1>3 DEF IsInjective
  <2> QED
    BY <1>3, <1>6, <2>1 DEF Once
<1> QED
  BY <1>1, <1>4, <1>5, <1>6

\* One row for each of some fixtures.
LEMMA RowsOnce ==
  ASSUME NEW F \in SUBSET Fixtures, NEW week \in [Fixtures -> Weeks \cup {0}], NEW fact \in Facts
  PROVE  LET list == SetToSeq({[id |-> f, week |-> week[f], fact |-> fact] : f \in F})
         IN  list \in Seq(FixtureRows) /\ Once(list)
<1> DEFINE S == {[id |-> f, week |-> week[f], fact |-> fact] : f \in F}
           g == [f \in F |-> [id |-> f, week |-> week[f], fact |-> fact]]
<1>1. S = {g[f] : f \in F}
  OBVIOUS
<1>2. IsFiniteSet(F)
  BY WarehouseAssumption, FS_Subset
<1>3. IsFiniteSet({g[f] : f \in F})
  <2> HIDE DEF g
  <2> QED
    BY <1>2, FiniteImage
<1>4. S \in SUBSET FixtureRows /\ \A x, y \in S : x.id = y.id => x = y
  BY DEF FixtureRows
<1>5. SetToSeq(S) \in Seq(FixtureRows) /\ Once(SetToSeq(S))
  <2> HIDE DEF S
  <2> QED
    BY <1>1, <1>3, <1>4, ListedOnce
<1> QED
  BY <1>5

LEMMA FeedFacts ==
  ASSUME TypeOK, NEW w
  PROVE  Feed(w) \in Seq(FixtureRows) /\ Once(Feed(w))
<1> DEFINE F == {f \in Fixtures : w = 0 \/ upstream.week[f] = w}
<1>1. F \in SUBSET Fixtures /\ upstream.week \in [Fixtures -> Weeks \cup {0}] /\ Served \in Facts
  BY SomeFacts DEF TypeOK, Sources
<1>2. Feed(w) = SetToSeq({[id |-> f, week |-> upstream.week[f], fact |-> Served] : f \in F})
  BY DEF Feed
<1> HIDE DEF F
<1> QED
  BY <1>1, <1>2, RowsOnce

\* The last row for a fixture is one of its rows.
LEMMA LastFacts ==
  ASSUME NEW list \in Seq(FixtureRows), NEW i \in DOMAIN list
  PROVE  LET last == LastOf(list, list[i].id) IN
         /\ last \in FixtureRows /\ last.id = list[i].id
         /\ \E k \in DOMAIN list : last = list[k] /\ list[k].id = list[i].id
              /\ \A j \in DOMAIN list : list[j].id = list[i].id => j <= k
<1>1. PICK f : f = list[i].id
  OBVIOUS
<1>2. PICK n \in Nat : n = Len(list) /\ DOMAIN list = 1 .. n /\ \A j \in 1 .. n : list[j] \in FixtureRows
  BY LenProperties, ElementOfSeq
<1> DEFINE I == {j \in DOMAIN list : list[j].id = f}
           D == {n - j : j \in I}
<1>3. i \in I /\ \A j \in I : j \in 1 .. n
  BY <1>1, <1>2
<1>4. D \in SUBSET Nat /\ n - i \in D
  BY <1>3
<1>5. PICK d \in D : \A e \in D : d <= e
  <2> HIDE DEF D
  <2> QED
    BY <1>4, LeastNumber
<1>6. PICK k \in I : d = n - k
  BY <1>5
<1>7. ASSUME NEW j \in I
      PROVE  j <= k
  <2>1. n - k <= n - j /\ j \in 1 .. n /\ k \in 1 .. n
    BY <1>3, <1>5, <1>6, <1>7
  <2> QED
    BY <2>1
<1>8. \A m \in I : (\A j \in I : j <= m) => m = k
  BY <1>3, <1>6, <1>7
<1>9. (CHOOSE m \in I : \A j \in I : j <= m) = k
  <2> HIDE DEF I
  <2> QED
    BY <1>6, <1>7, <1>8
<1>10. LastOf(list, f) = list[k]
  BY <1>9 DEF LastOf
<1> QED
  BY <1>1, <1>2, <1>6, <1>7, <1>10

LEMMA OnceIsLast ==
  ASSUME NEW list \in Seq(FixtureRows), Once(list), NEW i \in DOMAIN list
  PROVE  LastOf(list, list[i].id) = list[i]
BY LastFacts DEF Once

\* A merged row is one that was cached, or the one that is written last.
LEMMA MergedOnes ==
  ASSUME NEW existing \in Seq(FixtureRows), NEW incoming \in Seq(FixtureRows), Once(incoming), NEW week
  PROVE  LET merged == mergeFixtures(existing, incoming, week) IN
         /\ merged \in Seq(FixtureRows)
         /\ \A i \in DOMAIN merged : merged[i] \in ToSet(existing) \/ LastOf(merged, merged[i].id) = merged[i]
<1> DEFINE I == {i \in DOMAIN existing : existing[i].week # week}
<1>1. PICK kept : kept = Subsequence(existing, I)
  OBVIOUS
<1>2. kept \in Seq(FixtureRows) /\ IsPicked(kept, existing, I, Len(existing))
  <2> HIDE DEF I
  <2> QED
    BY <1>1, SubsequenceFacts
<1>3. PICK m : m = kept \o incoming
  OBVIOUS
<1>4. PICK a \in Nat, b \in Nat : /\ a = Len(kept) /\ b = Len(incoming)
                                  /\ DOMAIN kept = 1 .. a /\ DOMAIN incoming = 1 .. b
  BY <1>2, LenProperties
<1>5. /\ m \in Seq(FixtureRows) /\ DOMAIN m = 1 .. (a + b)
      /\ \A i \in 1 .. (a + b) : m[i] = IF i <= a THEN kept[i] ELSE incoming[i - a]
  BY <1>2, <1>3, <1>4, ConcatProperties, LenProperties
<1>6. ASSUME NEW i \in 1 .. (a + b)
      PROVE  m[i] \in ToSet(existing) \/ LastOf(m, m[i].id) = m[i]
  <2>1. CASE i <= a
    <3>1. i \in 1 .. a
      BY <2>1
    <3>2. PICK j \in DOMAIN existing : kept[i] = existing[j]
      BY <1>2, <1>4, <3>1 DEF IsPicked
    <3> QED
      BY <1>5, <2>1, <3>2 DEF ToSet
  <2>2. CASE i > a
    <3>1. PICK k \in 1 .. (a + b) : LastOf(m, m[i].id) = m[k] /\ m[k].id = m[i].id /\ i <= k
      BY <1>5, LastFacts
    <3>2. i - a \in 1 .. b /\ k - a \in 1 .. b /\ m[i] = incoming[i - a] /\ m[k] = incoming[k - a]
      BY <1>5, <2>2, <3>1
    <3>3. i - a = k - a
      BY <1>4, <3>1, <3>2 DEF Once
    <3>4. i = k
      BY <3>3
    <3> QED
      BY <3>1, <3>4
  <2> QED
    BY <2>1, <2>2
<1>7. mergeFixtures(existing, incoming, week) = m
  BY <1>1, <1>3 DEF mergeFixtures
<1> QED
  BY <1>5, <1>6, <1>7

LEMMA MergedFacts ==
  ASSUME TypeOK, Once(sync.fixtures)
  PROVE  /\ MergedFixtures \in Seq(FixtureRows) /\ MergedHistories \in [Players -> Facts]
         /\ \A i \in DOMAIN MergedFixtures : \/ MergedFixtures[i] \in ToSet(cache.fixtures)
                                             \/ LastOf(MergedFixtures, MergedFixtures[i].id) = MergedFixtures[i]
<1>1. cache.fixtures \in Seq(FixtureRows) /\ sync.fixtures \in Seq(FixtureRows)
  BY DEF TypeOK, Stores, Syncs
<1>2. MergedHistories \in [Players -> Facts]
  BY DEF TypeOK, Stores, Syncs, MergedHistories
<1>3. PICK merged : merged = MergedFixtures
  OBVIOUS
<1>4. CASE merged = cache.fixtures
  BY <1>1, <1>2, <1>3, <1>4 DEF ToSet
<1>5. CASE merged = sync.fixtures
  BY <1>1, <1>2, <1>3, <1>5, OnceIsLast
<1>6. CASE merged = mergeFixtures(cache.fixtures, sync.fixtures, sync.week)
  BY <1>1, <1>2, <1>3, <1>6, MergedOnes
<1> QED
  BY <1>3, <1>4, <1>5, <1>6 DEF MergedFixtures

LEMMA UpsertedFacts ==
  ASSUME NEW r \in Tables, \A f \in Fixtures : r.fixtures[f] = NoFixture \/ r.fixtures[f].id = f,
         NEW catalogue \in Facts, NEW list \in Seq(FixtureRows), NEW histories \in [Players -> Facts]
  PROVE  LET new == Upserted(r, catalogue, list, histories) IN
         /\ new \in Tables /\ new.catalogue = catalogue
         /\ \A f \in Fixtures : new.fixtures[f] = NoFixture \/ new.fixtures[f].id = f
         /\ \A i \in DOMAIN list : new.fixtures[list[i].id] = LastOf(list, list[i].id)
         /\ \A p \in Players : histories[p] # NoFact => new.histories[p] = histories[p]
<1>1. PICK new : new = Upserted(r, catalogue, list, histories)
  OBVIOUS
<1>2. /\ r.fixtures \in [Fixtures -> FixtureRows \cup {NoFixture}] /\ r.histories \in [Players -> Facts]
  BY DEF Tables
<1>3. ASSUME NEW f \in Fixtures
      PROVE  LET row == IF \E i \in DOMAIN list : list[i].id = f THEN LastOf(list, f) ELSE r.fixtures[f]
             IN  row \in FixtureRows \cup {NoFixture} /\ (row = NoFixture \/ row.id = f)
  <2>1. ASSUME NEW i \in DOMAIN list, list[i].id = f
        PROVE  LastOf(list, f) \in FixtureRows /\ LastOf(list, f).id = f
    BY <2>1, LastFacts
  <2> QED
    BY <1>2, <2>1
<1>4. new = [catalogue |-> catalogue,
             fixtures  |-> [f \in Fixtures |-> IF \E i \in DOMAIN list : list[i].id = f
                                               THEN LastOf(list, f) ELSE r.fixtures[f]],
             histories |-> [p \in Players |-> IF histories[p] # NoFact THEN histories[p] ELSE r.histories[p]]]
  BY <1>1 DEF Upserted
<1>5. new.fixtures \in [Fixtures -> FixtureRows \cup {NoFixture}]
  BY <1>3, <1>4
<1>6. new.histories \in [Players -> Facts]
  BY <1>2, <1>4
<1>7. \A i \in DOMAIN list : list[i].id \in Fixtures
  <2>1. \A i \in DOMAIN list : list[i] \in FixtureRows
    BY LenProperties, ElementOfSeq
  <2> QED
    BY <2>1 DEF FixtureRows
<1>8. \A i \in DOMAIN list : new.fixtures[list[i].id] = LastOf(list, list[i].id)
  BY <1>4, <1>7
<1>9. new \in Tables /\ new.catalogue = catalogue
  BY <1>4, <1>5, <1>6 DEF Tables
<1>10. \A f \in Fixtures : new.fixtures[f] = NoFixture \/ new.fixtures[f].id = f
  BY <1>3, <1>4
<1>11. \A p \in Players : histories[p] # NoFact => new.histories[p] = histories[p]
  BY <1>4
<1> QED
  BY <1>1, <1>8, <1>9, <1>10, <1>11

\* What a start loads are rows of the current season.
LEMMA LoadedFacts ==
  ASSUME TypeOK, Filed
  PROVE  LET loaded == LoadSnapshot IN
         /\ loaded \in Stores
         /\ loaded.season # 0 =>
              /\ seasons[loaded.season].current /\ loaded.season \in Seasons
              /\ loaded.catalogue = rows[loaded.season].catalogue
              /\ loaded.histories = rows[loaded.season].histories
              /\ \A row \in ToSet(loaded.fixtures) : rows[loaded.season].fixtures[row.id] = row
<1>1. CASE CurrentSeasons = {}
  <2>1. LoadSnapshot = NoData
    BY <1>1 DEF LoadSnapshot
  <2>2. <<>> \in Seq(FixtureRows) /\ [p \in Players |-> NoFact] \in [Players -> Facts]
    BY SomeFacts, EmptySeq
  <2> QED
    BY <2>1, <2>2, SomeFacts DEF NoData, Stores
<1>2. CASE CurrentSeasons # {}
  <2>1. PICK s \in Seasons : s = CHOOSE t \in Seasons : t \in CurrentSeasons
    BY <1>2 DEF CurrentSeasons
  <2>2. seasons[s].current
    BY <1>2, <2>1 DEF CurrentSeasons
  <2>0. PICK table : table = rows[s].fixtures
    OBVIOUS
  <2> DEFINE S == {table[f] : f \in Fixtures} \ {NoFixture}
  <2>3. LoadSnapshot = [season |-> s, catalogue |-> rows[s].catalogue, histories |-> rows[s].histories,
                        fixtures |-> SetToSeq(S)]
    BY <1>2, <2>0, <2>1 DEF LoadSnapshot
  <2>4. rows[s] \in Tables /\ rows[s].fixtures \in [Fixtures -> FixtureRows \cup {NoFixture}]
        /\ rows[s].catalogue \in Facts /\ rows[s].histories \in [Players -> Facts]
    BY DEF TypeOK, Tables
  <2>5. S \in SUBSET FixtureRows
    BY <2>0, <2>4
  <2>6. IsFiniteSet({table[f] : f \in Fixtures})
    <3>1. IsFiniteSet(Fixtures)
      BY WarehouseAssumption
    <3> HIDE DEF S
    <3> QED
      BY <3>1, FiniteImage
  <2>7. S \in SUBSET {table[f] : f \in Fixtures}
    OBVIOUS
  <2>8. \A row \in S : rows[s].fixtures[row.id] = row
    BY <2>0 DEF Filed
  <2> HIDE DEF S
  <2>9. SetToSeq(S) \in Seq(FixtureRows) /\ ToSet(SetToSeq(S)) \subseteq S
    BY <2>5, <2>6, <2>7, FS_Subset, ListedOnce
  <2> QED
    BY <2>2, <2>3, <2>4, <2>8, <2>9 DEF Stores
<1> QED
  BY <1>1, <1>2

LEMMA DataInit == Init => DataInv
<1> SUFFICES ASSUME Init
             PROVE  DataInv
  OBVIOUS
<1> USE WarehouseAssumption
<1>1. NoFact \in Facts /\ <<>> \in Seq(FixtureRows) /\ [p \in Players |-> NoFact] \in [Players -> Facts]
  BY EmptySeq DEF Facts, NoFact, Fact
<1>2. NoRows \in Tables /\ \A f \in Fixtures : NoRows.fixtures[f] = NoFixture
  BY <1>1 DEF NoRows, Tables
<1>3. rows \in [Seasons -> Tables] /\ Filed
  BY <1>2 DEF Filed, Init
<1>4. upstream \in Sources /\ config \in Seasons \cup {0} /\ stops \in 0 .. MaxStops
  BY DEF Sources, Init
<1>5. seasons \in [Seasons -> [kind : Kinds \cup {"none"}, current : BOOLEAN]]
  BY DEF NoSeason, Init
<1>6. snapshot \in [Seasons -> Snapshots]
  BY DEF NoSnapshot, Snapshots, Init
<1>7. cache \in Stores /\ sync \in Syncs /\ sync.pc = "idle"
  BY <1>1 DEF NoData, NoSync, Stores, Syncs, Init
<1> QED
  BY <1>3, <1>4, <1>5, <1>6, <1>7 DEF TypeOK, DataInv, Written, Unwritten

LEMMA NothingUnderWay == NoSync \in Syncs /\ NoSync.pc = "idle"
<1>1. NoFact \in Facts /\ <<>> \in Seq(FixtureRows) /\ [p \in Players |-> NoFact] \in [Players -> Facts]
  BY WarehouseAssumption, EmptySeq DEF Facts, NoFact, Fact
<1> QED
  BY <1>1 DEF NoSync, Syncs

\* The tables and what is carried to them stay as they are.
LEMMA NothingWritten ==
  ASSUME DataInv, TypeOK', UNCHANGED rows,
         \/ UNCHANGED <<cache, sync>>
         \/ sync'.pc \notin Written /\ (sync'.pc \in Unwritten => Once(sync'.fixtures))
         \/ /\ UNCHANGED cache /\ sync.pc \in Written /\ sync'.pc \in Written
            /\ sync'.season = sync.season /\ sync'.catalogue = sync.catalogue
            /\ sync'.fixtures = sync.fixtures /\ sync'.histories = sync.histories
  PROVE  DataInv'
<1>1. Filed'
  BY DEF DataInv, Filed
<1>2. CASE UNCHANGED <<cache, sync>>
  BY <1>1, <1>2 DEF DataInv, Carries
<1>3. CASE sync'.pc \notin Written /\ (sync'.pc \in Unwritten => Once(sync'.fixtures))
  BY <1>1, <1>3 DEF DataInv
<1>4. CASE /\ UNCHANGED cache /\ sync.pc \in Written /\ sync'.pc \in Written
           /\ sync'.season = sync.season /\ sync'.catalogue = sync.catalogue
           /\ sync'.fixtures = sync.fixtures /\ sync'.histories = sync.histories
  <2>1. sync'.pc \notin Unwritten
    BY <1>4 DEF Written, Unwritten
  <2>2. Carries(rows[sync.season], sync.season, sync)'
    BY <1>4 DEF DataInv, Carries
  <2> QED
    BY <1>1, <2>1, <2>2 DEF DataInv
<1> QED
  BY <1>2, <1>3, <1>4

LEMMA DataOtherSteps ==
  ASSUME DataInv,
         \/ Publish
         \/ \E f \in Fixtures, w \in Weeks \cup {0} : Reschedule(f, w)
         \/ \E s \in Seasons : Rollover(s)
         \/ \E request \in Requests : StartSync(request)
         \/ FailSync
         \/ UNCHANGED vars
  PROVE  DataInv'
<1> USE WarehouseAssumption
<1>0. TypeOK
  BY DEF DataInv
<1>1. CASE Publish
  <2>1. upstream' \in Sources
    BY <1>0, <1>1 DEF Publish, TypeOK, Sources
  <2>2. TypeOK'
    BY <1>0, <1>1, <2>1 DEF Publish, TypeOK
  <2> QED
    BY <1>1, <2>2, NothingWritten DEF Publish
<1>2. ASSUME NEW f \in Fixtures, NEW w \in Weeks \cup {0}, Reschedule(f, w) PROVE DataInv'
  <2>0. upstream' = [season |-> upstream.season, version |-> upstream.version,
                     week |-> [upstream.week EXCEPT ![f] = w], moves |-> upstream.moves + 1]
    BY <1>0, <1>2 DEF Reschedule, TypeOK, Sources
  <2>1. upstream' \in Sources
    <3>1. upstream.moves + 1 \in 0 .. MaxMoves
      <4>1. PICK m : m = upstream.moves
        OBVIOUS
      <4>2. m \in 0 .. MaxMoves /\ MaxMoves \in Nat
        BY <1>0, <4>1 DEF TypeOK, Sources
      <4>3. m < MaxMoves
        BY <1>2, <4>1 DEF Reschedule
      <4> QED
        BY <4>1, <4>2, <4>3
    <3>2. [upstream.week EXCEPT ![f] = w] \in [Fixtures -> Weeks \cup {0}]
      BY <1>0 DEF TypeOK, Sources
    <3> QED
      BY <1>0, <2>0, <3>1, <3>2 DEF TypeOK, Sources
  <2>2. TypeOK'
    BY <1>0, <1>2, <2>1 DEF Reschedule, TypeOK
  <2> QED
    BY <1>2, <2>2, NothingWritten DEF Reschedule
<1>3. ASSUME NEW s \in Seasons, Rollover(s) PROVE DataInv'
  <2>1. upstream' \in Sources
    BY <1>0, <1>3 DEF Rollover, TypeOK, Sources
  <2>2. TypeOK'
    BY <1>0, <1>3, <2>1 DEF Rollover, TypeOK
  <2> QED
    BY <1>3, <2>2, NothingWritten DEF Rollover
<1>4. ASSUME NEW request \in Requests, StartSync(request) PROVE DataInv'
  <2>1. PICK none : none = NoSync
    OBVIOUS
  <2>2. none \in Syncs
    BY <2>1, NothingUnderWay
  <2>3. sync' = [none EXCEPT !.pc = "catalog", !.dataset = request[1], !.week = request[2]]
    BY <1>4, <2>1 DEF StartSync
  <2>4. request[1] \in Datasets /\ request[2] \in Weeks \cup {0}
    OBVIOUS
  <2>5. sync' \in Syncs /\ sync'.pc = "catalog" /\ sync'.fixtures = none.fixtures
    BY <2>2, <2>3, <2>4 DEF Syncs
  <2>7. Once(none.fixtures)
    BY <2>1 DEF NoSync, Once
  <2>6. TypeOK'
    BY <1>0, <1>4, <2>5 DEF StartSync, OnlySync, TypeOK
  <2> QED
    BY <1>4, <2>5, <2>6, <2>7, NothingWritten DEF StartSync, OnlySync, Written, Unwritten
<1>5. CASE FailSync
  <2>1. sync' \in Syncs /\ sync'.pc = "idle"
    BY <1>5, NothingUnderWay DEF FailSync
  <2>2. TypeOK'
    BY <1>0, <1>5, <2>1 DEF FailSync, OnlySync, TypeOK
  <2> QED
    BY <1>5, <2>1, <2>2, NothingWritten DEF FailSync, OnlySync, Written, Unwritten
<1>6. CASE UNCHANGED vars
  <2>1. TypeOK'
    BY <1>0, <1>6 DEF vars, TypeOK
  <2> QED
    BY <1>6, <2>1, NothingWritten DEF vars
<1> QED
  BY <1>1, <1>2, <1>3, <1>4, <1>5, <1>6

LEMMA DataFetchSteps ==
  ASSUME Inv, DataInv, FetchCatalog \/ FetchFixtures \/ (\E P \in SUBSET Players, complete \in BOOLEAN : FetchHistories(P, complete))
  PROVE  DataInv'
<1>1. UNCHANGED <<upstream, config, seasons, rows, snapshot, cache, stops>> /\ TypeOK
  BY DEF FetchCatalog, FetchFixtures, FetchHistories, OnlySync, DataInv
<1>2. Served \in Facts /\ NoFact \in Facts
  BY <1>1, SomeFacts
<1>3. CASE FetchCatalog
  <2>1. PICK pc \in {"fixtures", "upsert"} :
          sync' = [sync EXCEPT !.pc = pc, !.season = Identity, !.catalogue = Served]
    BY <1>3 DEF FetchCatalog
  <2>2. Identity \in Seasons
    BY IdentityType DEF Inv
  <2>3. sync' \in Syncs /\ sync'.pc = pc /\ sync'.fixtures = sync.fixtures
    BY <1>1, <1>2, <2>1, <2>2 DEF TypeOK, Syncs
  <2>4. TypeOK'
    BY <1>1, <2>3 DEF TypeOK
  <2>5. Once(sync.fixtures)
    BY <1>3 DEF FetchCatalog, DataInv, Unwritten
  <2> QED
    BY <1>1, <2>3, <2>4, <2>5, NothingWritten DEF Written, Unwritten
<1>4. CASE FetchFixtures
  <2>1. PICK pc \in {"histories", "upsert"} : sync' = [sync EXCEPT !.pc = pc, !.fixtures = Feed(sync.week)]
    BY <1>4 DEF FetchFixtures
  <2>2. Feed(sync.week) \in Seq(FixtureRows) /\ Once(Feed(sync.week))
    BY <1>1, FeedFacts
  <2>3. sync' \in Syncs /\ sync'.pc = pc /\ sync'.fixtures = Feed(sync.week)
    BY <1>1, <2>1, <2>2 DEF TypeOK, Syncs
  <2>4. TypeOK'
    BY <1>1, <2>3 DEF TypeOK
  <2> QED
    BY <1>1, <2>2, <2>3, <2>4, NothingWritten DEF Written, Unwritten
<1>5. ASSUME NEW P \in SUBSET Players, NEW complete \in BOOLEAN, FetchHistories(P, complete)
      PROVE  DataInv'
  <2>1. sync' = [sync EXCEPT !.pc = "upsert", !.complete = complete,
                             !.histories = [p \in Players |-> IF p \in P THEN Served ELSE NoFact]]
    BY <1>5 DEF FetchHistories
  <2>2. [p \in Players |-> IF p \in P THEN Served ELSE NoFact] \in [Players -> Facts]
    BY <1>2
  <2>3. sync' \in Syncs /\ sync'.pc = "upsert" /\ sync'.fixtures = sync.fixtures
    BY <1>1, <2>1, <2>2 DEF TypeOK, Syncs
  <2>4. TypeOK'
    BY <1>1, <2>3 DEF TypeOK
  <2>5. Once(sync.fixtures)
    BY <1>5 DEF FetchHistories, DataInv, Unwritten
  <2> QED
    BY <1>1, <2>3, <2>4, <2>5, NothingWritten DEF Written, Unwritten
<1> QED
  BY <1>3, <1>4, <1>5

\* The upsert: what the synchronisation carries from now on is in the tables.
LEMMA DataUpsert ==
  ASSUME Inv, DataInv, UpsertSnapshot
  PROVE  DataInv'
<1>1. TypeOK /\ Once(sync.fixtures) /\ sync.pc = "upsert"
  BY DEF DataInv, UpsertSnapshot, Unwritten
<1>2. PICK s \in Seasons : s = sync.season
  BY <1>1 DEF Inv, MarkerInv, Identified
<1>3. PICK list, histories : list = MergedFixtures /\ histories = MergedHistories
  OBVIOUS
<1>4. /\ list \in Seq(FixtureRows) /\ histories \in [Players -> Facts]
      /\ \A i \in DOMAIN list : list[i] \in ToSet(cache.fixtures) \/ LastOf(list, list[i].id) = list[i]
  BY <1>1, <1>3, MergedFacts
<1>5. PICK table : table = Upserted(rows[s], sync.catalogue, list, histories)
  OBVIOUS
<1>6. rows[s] \in Tables /\ sync.catalogue \in Facts
      /\ \A f \in Fixtures : rows[s].fixtures[f] = NoFixture \/ rows[s].fixtures[f].id = f
  BY <1>1 DEF DataInv, Filed, TypeOK, Syncs
<1>7. /\ table \in Tables /\ table.catalogue = sync.catalogue
      /\ \A f \in Fixtures : table.fixtures[f] = NoFixture \/ table.fixtures[f].id = f
      /\ \A i \in DOMAIN list : table.fixtures[list[i].id] = LastOf(list, list[i].id)
      /\ \A p \in Players : histories[p] # NoFact => table.histories[p] = histories[p]
  BY <1>4, <1>5, <1>6, UpsertedFacts
<1>8. /\ rows' = [rows EXCEPT ![s] = table] /\ seasons' = RolledForward(s)
      /\ sync' = [sync EXCEPT !.pc = "snapshot", !.fixtures = list, !.histories = histories]
      /\ UNCHANGED <<upstream, config, snapshot, cache, stops>>
  BY <1>2, <1>3, <1>5 DEF UpsertSnapshot
<1>9. rows' \in [Seasons -> Tables] /\ rows'[s] = table
  BY <1>1, <1>7, <1>8 DEF TypeOK
<1>10. sync' \in Syncs /\ sync'.pc = "snapshot" /\ sync'.season = s /\ sync'.catalogue = sync.catalogue
       /\ sync'.fixtures = list /\ sync'.histories = histories
  BY <1>1, <1>2, <1>4, <1>8 DEF TypeOK, Syncs
<1>11. seasons' \in [Seasons -> [kind : Kinds \cup {"none"}, current : BOOLEAN]]
  BY <1>1, <1>8 DEF TypeOK, RolledForward, Kinds
<1>12. TypeOK'
  BY <1>1, <1>8, <1>9, <1>10, <1>11 DEF TypeOK
<1>13. Filed'
  BY <1>1, <1>7, <1>8 DEF Filed, DataInv, TypeOK
<1>14. Carries(table, s, sync)'
  <2>1. \A row \in ToSet(list) \ ToSet(cache.fixtures) : table.fixtures[row.id] = row
    BY <1>4, <1>7 DEF ToSet
  <2> QED
    BY <1>7, <1>8, <1>10, <2>1 DEF Carries, Held
<1> QED
  BY <1>9, <1>10, <1>12, <1>13, <1>14 DEF DataInv, Unwritten

LEMMA DataReports ==
  ASSUME Inv, DataInv, CreateDatasetSnapshot \/ UpsertFacts
  PROVE  DataInv'
<1>1. TypeOK /\ sync.pc \in Written
  BY DEF DataInv, CreateDatasetSnapshot, UpsertFacts, Written
<1>2. PICK pc \in {"facts", "apply"} : sync' = [sync EXCEPT !.pc = pc]
  BY DEF CreateDatasetSnapshot, UpsertFacts
<1>3. sync' \in Syncs /\ sync'.pc = pc /\ sync'.season = sync.season /\ sync'.catalogue = sync.catalogue
      /\ sync'.fixtures = sync.fixtures /\ sync'.histories = sync.histories
  BY <1>1, <1>2 DEF TypeOK, Syncs
<1>4. snapshot' \in [Seasons -> Snapshots]
  <2>0. snapshot \in [Seasons -> Snapshots]
    BY <1>1 DEF TypeOK
  <2>1. CASE CreateDatasetSnapshot
    <3>1. [state |-> IF sync.complete THEN "actual" ELSE "partial", facts |-> FALSE, origin |-> "sync"] \in Snapshots
      BY DEF Snapshots
    <3> QED
      BY <2>0, <2>1, <3>1 DEF CreateDatasetSnapshot
  <2>2. CASE UpsertFacts
    <3>1. PICK s \in Seasons : s = sync.season
      BY <1>1 DEF Inv, MarkerInv, Identified, Written
    <3>2. PICK facts \in BOOLEAN : facts = (snapshot[s].facts \/ snapshot[s].origin = "sync")
      OBVIOUS
    <3>3. snapshot' = [snapshot EXCEPT ![s] = [@ EXCEPT !.facts = facts]]
      BY <2>2, <3>1, <3>2 DEF UpsertFacts
    <3>4. [snapshot[s] EXCEPT !.facts = facts] \in Snapshots
      BY <2>0 DEF Snapshots
    <3> QED
      BY <2>0, <3>3, <3>4
  <2> QED
    BY <2>1, <2>2
<1>5. UNCHANGED <<upstream, config, seasons, rows, cache, stops>>
  BY DEF CreateDatasetSnapshot, UpsertFacts
<1>6. TypeOK'
  BY <1>1, <1>3, <1>4, <1>5 DEF TypeOK
<1> QED
  BY <1>1, <1>3, <1>5, <1>6, NothingWritten DEF Written

LEMMA DataImport ==
  ASSUME Inv, DataInv, NEW t \in Archives, NEW P \in SUBSET Players, ImportArchive(t, P)
  PROVE  DataInv'
<1>1. TypeOK /\ t \in Seasons
  BY WarehouseAssumption DEF DataInv
<1>2. PICK list : list = SetToSeq({[id |-> f, week |-> upstream.week[f], fact |-> Archived(t)] : f \in Fixtures})
  OBVIOUS
<1>3. list \in Seq(FixtureRows)
  <2>1. PICK week \in [Fixtures -> Weeks \cup {0}], fact \in Facts : week = upstream.week /\ fact = Archived(t)
    BY <1>1, SomeFacts DEF TypeOK, Sources
  <2> QED
    BY <1>2, <2>1, RowsOnce
<1>4. PICK histories \in [Players -> Facts] : histories = [p \in Players |-> IF p \in P THEN Archived(t) ELSE NoFact]
  BY <1>1, SomeFacts
<1>5. PICK table : table = Upserted(rows[t], Archived(t), list, histories)
  OBVIOUS
<1>6. rows[t] \in Tables /\ Archived(t) \in Facts
      /\ \A f \in Fixtures : rows[t].fixtures[f] = NoFixture \/ rows[t].fixtures[f].id = f
  BY <1>1, SomeFacts DEF DataInv, Filed, TypeOK
<1>7. table \in Tables /\ \A f \in Fixtures : table.fixtures[f] = NoFixture \/ table.fixtures[f].id = f
  BY <1>3, <1>5, <1>6, UpsertedFacts
<1>8. /\ table.catalogue = Archived(t)
      /\ \A p \in Players : table.histories[p] \in {rows[t].histories[p], Archived(t)}
      /\ \A f \in Fixtures : table.fixtures[f] = rows[t].fixtures[f] \/ table.fixtures[f].fact = Archived(t)
  BY <1>1, <1>2, <1>4, <1>5, ImportedRows
<1>9. /\ rows' = [rows EXCEPT ![t] = table] /\ seasons' = [seasons EXCEPT ![t].kind = "historical-archive"]
      /\ UNCHANGED <<upstream, config, cache, sync, stops>>
  BY <1>2, <1>4, <1>5 DEF ImportArchive
<1>10. snapshot' \in [Seasons -> Snapshots]
  <2>1. snapshot \in [Seasons -> Snapshots]
    BY <1>1 DEF TypeOK
  <2>2. CASE UNCHANGED snapshot
    BY <2>1, <2>2
  <2>3. ASSUME NEW state \in {"partial", "actual"},
               snapshot' = [snapshot EXCEPT ![t] = [state |-> state, facts |-> FALSE, origin |-> "archive"]]
        PROVE  snapshot' \in [Seasons -> Snapshots]
    <3>1. [state |-> state, facts |-> FALSE, origin |-> "archive"] \in Snapshots
      BY DEF Snapshots
    <3> QED
      BY <2>1, <2>3, <3>1
  <2> QED
    BY <2>2, <2>3 DEF ImportArchive
<1>11. rows' \in [Seasons -> Tables] /\ seasons' \in [Seasons -> [kind : Kinds \cup {"none"}, current : BOOLEAN]]
  BY <1>1, <1>7, <1>9 DEF TypeOK, Kinds
<1>12. TypeOK'
  BY <1>1, <1>9, <1>10, <1>11 DEF TypeOK
<1>13. Filed'
  BY <1>1, <1>7, <1>9 DEF Filed, DataInv, TypeOK
<1>14. ASSUME sync.pc \in Written
       PROVE  Carries(rows[sync.season], sync.season, sync)'
  <2>1. PICK s \in Seasons : s = sync.season
    BY <1>14 DEF Inv, MarkerInv, Identified, Written
  <2>2. Carries(rows[s], s, sync)
    BY <1>14, <2>1 DEF DataInv
  <2>3. CASE s # t
    BY <1>1, <1>9, <2>1, <2>2, <2>3 DEF Carries, TypeOK
  <2>4. CASE s = t
    <3>1. rows'[s] = table
      BY <1>1, <1>9, <2>4 DEF TypeOK
    <3>2. \A row \in ToSet(sync.fixtures) : row.id \in Fixtures
      <4>1. PICK carried : carried = sync.fixtures
        OBVIOUS
      <4>2. carried \in Seq(FixtureRows)
        BY <1>1, <4>1 DEF TypeOK, Syncs
      <4>3. DOMAIN carried = 1 .. Len(carried) /\ \A i \in 1 .. Len(carried) : carried[i] \in FixtureRows
        BY <4>2, LenProperties, ElementOfSeq
      <4> QED
        BY <4>1, <4>3 DEF ToSet, FixtureRows
    <3>3. Carries(table, s, sync)
      BY <1>8, <2>2, <2>4, <3>2 DEF Carries, Held
    <3> QED
      BY <1>9, <2>1, <3>1, <3>3 DEF Carries
  <2> QED
    BY <2>3, <2>4
<1> QED
  BY <1>9, <1>12, <1>13, <1>14 DEF DataInv

\* What the cache takes in a step.
Taken ==
  cache'.season # 0 /\ cache' # cache =>
    LET s == cache'.season  table == rows[s] IN
    /\ seasons[s].current
    /\ Held(table.catalogue, cache'.catalogue, s)
    /\ \A row \in ToSet(cache'.fixtures) \ ToSet(cache.fixtures) :
         table.fixtures[row.id] = row \/ table.fixtures[row.id].fact = Archived(s)
    /\ \A p \in Players : cache'.histories[p] # cache.histories[p] =>
         Held(table.histories[p], cache'.histories[p], s)

LEMMA DataApply ==
  ASSUME Inv, DataInv, ApplySnapshot
  PROVE  DataInv' /\ Taken
<1>1. TypeOK /\ sync.pc = "apply" /\ sync.pc \in Written
  BY DEF DataInv, ApplySnapshot, Written
<1>2. PICK s \in Seasons : s = sync.season /\ seasons[s].current
  BY <1>1 DEF Inv, MarkerInv, Identified, Written
<1>3. Carries(rows[s], s, sync)
  BY <1>1, <1>2 DEF DataInv
<1>4. cache' = [season |-> s, catalogue |-> sync.catalogue, fixtures |-> sync.fixtures,
                histories |-> [p \in Players |-> IF sync.histories[p] # NoFact
                                                 THEN sync.histories[p] ELSE cache.histories[p]]]
  BY <1>2 DEF ApplySnapshot
<1>5. cache' \in Stores
  BY <1>1, <1>4 DEF TypeOK, Syncs, Stores
<1>6. sync' \in Syncs /\ sync'.pc = "idle"
  BY NothingUnderWay DEF ApplySnapshot
<1>7. TypeOK'
  BY <1>1, <1>5, <1>6 DEF TypeOK, ApplySnapshot
<1>8. DataInv'
  BY <1>6, <1>7, NothingWritten DEF ApplySnapshot, Written, Unwritten
<1>9. \A p \in Players : cache'.histories[p] # cache.histories[p] =>
        Held(rows[s].histories[p], cache'.histories[p], s)
  BY <1>3, <1>4 DEF Carries
<1> QED
  BY <1>2, <1>3, <1>4, <1>8, <1>9 DEF Carries, Taken

LEMMA DataRestart ==
  ASSUME Inv, DataInv, Restart
  PROVE  DataInv' /\ Taken
<1>1. TypeOK /\ Filed
  BY DEF DataInv
<1>2. PICK loaded : loaded = LoadSnapshot
  OBVIOUS
<1>3. /\ loaded \in Stores
      /\ loaded.season # 0 =>
           /\ seasons[loaded.season].current /\ loaded.season \in Seasons
           /\ loaded.catalogue = rows[loaded.season].catalogue
           /\ loaded.histories = rows[loaded.season].histories
           /\ \A row \in ToSet(loaded.fixtures) : rows[loaded.season].fixtures[row.id] = row
  BY <1>1, <1>2, LoadedFacts
<1>4. NoData \in Stores /\ NoData.season = 0
  <2>1. NoFact \in Facts /\ <<>> \in Seq(FixtureRows) /\ [p \in Players |-> NoFact] \in [Players -> Facts]
    BY <1>1, SomeFacts, EmptySeq
  <2> QED
    BY <2>1 DEF NoData, Stores
<1>5. cache' = loaded \/ cache' = NoData
  BY <1>2 DEF Restart
<1>6. sync' \in Syncs /\ sync'.pc = "idle"
  BY NothingUnderWay DEF Restart
<1>7. config' \in Seasons \cup {0} /\ stops' \in 0 .. MaxStops
  BY <1>1, WarehouseAssumption DEF Restart, TypeOK
<1>8. TypeOK'
  BY <1>1, <1>3, <1>4, <1>5, <1>6, <1>7 DEF TypeOK, Restart
<1>9. DataInv'
  BY <1>6, <1>8, NothingWritten DEF Restart, Written, Unwritten
<1>10. Taken
  BY <1>3, <1>4, <1>5 DEF Taken, Held
<1> QED
  BY <1>9, <1>10

LEMMA DataStep ==
  ASSUME Inv, DataInv, [Next]_vars
  PROVE  DataInv' /\ [Taken]_vars
<1>1. CASE ApplySnapshot
  BY <1>1, DataApply
<1>2. CASE Restart
  BY <1>2, DataRestart
<1>3. CASE \/ Publish
           \/ \E f \in Fixtures, w \in Weeks \cup {0} : Reschedule(f, w)
           \/ \E s \in Seasons : Rollover(s)
           \/ \E request \in Requests : StartSync(request)
           \/ FailSync
           \/ UNCHANGED vars
  <2>1. UNCHANGED cache
    BY <1>3 DEF Publish, Reschedule, Rollover, StartSync, OnlySync, FailSync, vars
  <2> QED
    BY <1>3, <2>1, DataOtherSteps DEF Taken
<1>4. CASE FetchCatalog \/ FetchFixtures \/ (\E P \in SUBSET Players, complete \in BOOLEAN : FetchHistories(P, complete))
  <2>1. UNCHANGED cache
    BY <1>4 DEF FetchCatalog, FetchFixtures, FetchHistories, OnlySync
  <2> QED
    BY <1>4, <2>1, DataFetchSteps DEF Taken
<1>5. CASE UpsertSnapshot
  BY <1>5, DataUpsert DEF Taken, UpsertSnapshot
<1>6. CASE CreateDatasetSnapshot \/ UpsertFacts
  BY <1>6, DataReports DEF Taken, CreateDatasetSnapshot, UpsertFacts
<1>7. ASSUME NEW s \in Archives, NEW P \in SUBSET Players, ImportArchive(s, P)
      PROVE  DataInv' /\ [Taken]_vars
  BY <1>7, DataImport DEF Taken, ImportArchive
<1> QED
  BY <1>1, <1>2, <1>3, <1>4, <1>5, <1>6, <1>7 DEF Next, SyncStep

\* The tables and the cache keep their types, and all the cache ever takes is
\* what the tables of the current season hold by then, or what an archive was
\* imported over meanwhile, for any number of seasons, fixtures that move,
\* scopes, failing calls, imports, rollovers and restarts (store.go:89).
THEOREM OnlyTheCommittedIsServed == Spec => DataIsSound
<1>1. Inv /\ DataInv /\ [Next]_vars => DataInv' /\ [Taken]_vars
  BY DataStep
<1>2. Spec => []DataInv /\ [][Taken]_vars
  BY <1>1, DataInit, MarkerInvariant, PTL DEF Spec
<1>3. DataInv => TypeOK
  BY DEF DataInv
<1>4. Spec => CacheTakesWhatIsCommitted
  BY <1>2, PTL DEF CacheTakesWhatIsCommitted, Taken
<1> QED
  BY <1>2, <1>3, <1>4, PTL DEF DataIsSound
-----------------------------------------------------------------------------
(* What the cache and the tables have in common while nothing disturbs the *)
(* synchronisations of a season.                                           *)

\* No call fails, no fixture moves, nothing is imported, there is one season,
\* and a full synchronisation is one of all gameweeks.
Clean ==
  /\ Faults = FALSE /\ MaxMoves = 0 /\ Archives = {}
  /\ \A s, t \in Seasons : s = t
  /\ \A q \in Requests : q[1] = "full" => q[2] = 0

\* The list has the stored fixtures of a table, each once.
Mirrors(list, table) ==
  /\ list \in Seq(FixtureRows) /\ Once(list)
  /\ \A i \in DOMAIN list : table.fixtures[list[i].id] = list[i]
  /\ \A f \in Fixtures : table.fixtures[f] # NoFixture => \E i \in DOMAIN list : list[i].id = f

\* What was fetched from season s by now, and in which gameweek it is.
Recent(fact, s) == fact.season = s /\ fact.version <= upstream.version
Placed(row, s) == row.week = upstream.week[row.id] /\ Recent(row.fact, s)

\* Every stored fact came from the season, and every fixture is in its gameweek.
Timely(table, s) ==
  /\ \A f \in Fixtures : table.fixtures[f] = NoFixture \/ Placed(table.fixtures[f], s)
  /\ \A p \in Players : table.histories[p] = NoFact \/ Recent(table.histories[p], s)

\* The fetched fixtures are all of the gameweek, and none is older than its row.
Brought(table, s) ==
  /\ \A i \in DOMAIN sync.fixtures :
       /\ Placed(sync.fixtures[i], s)
       /\ sync.week # 0 => sync.fixtures[i].week = sync.week
       /\ Covers(sync.fixtures[i].fact, table.fixtures[sync.fixtures[i].id].fact)
  /\ \A f \in Fixtures : sync.week = 0 \/ upstream.week[f] = sync.week =>
       \E i \in DOMAIN sync.fixtures : sync.fixtures[i].id = f

Recalled(table, s) ==
  \A p \in Players : \/ sync.histories[p] = NoFact
                     \/ /\ Recent(sync.histories[p], s)
                        /\ Covers(sync.histories[p], table.histories[p])

\* The cache mirrors the tables, and once they are written the synchronisation
\* does, until the cache takes it over.
InStep(s) ==
  /\ Timely(rows[s], s)
  /\ CurrentSeasons = {} => rows[s] = NoRows
  /\ sync.dataset = "full" => sync.week = 0
  /\ sync.pc \notin Written => Mirrors(cache.fixtures, rows[s]) /\ cache.histories = rows[s].histories
  /\ sync.pc \in Written =>
       /\ Mirrors(sync.fixtures, rows[s])
       /\ rows[s].histories = [p \in Players |-> IF sync.histories[p] # NoFact
                                                 THEN sync.histories[p] ELSE cache.histories[p]]
  /\ sync.pc \in {"histories", "upsert"} /\ NeedsFixtures => Brought(rows[s], s)
  /\ sync.pc = "upsert" /\ NeedsHistories => Recalled(rows[s], s)

CleanInv == \A s \in Seasons : InStep(s)

\* SetToSeq lists a finite set, and a list of it without repetitions is as long.
LEMMA ListedAll ==
  ASSUME NEW S \in SUBSET FixtureRows, IsFiniteSet(S)
  PROVE  /\ SetToSeq(S) \in Seq(FixtureRows)
         /\ ToSet(SetToSeq(S)) = S /\ Len(SetToSeq(S)) = Cardinality(S)
<1>1. PICK list : list = SetToSeq(S)
  OBVIOUS
<1>2. PICK n \in Nat : n = Cardinality(S)
  BY FS_CardinalityType
<1>3. list \in [1 .. n -> S] /\ IsInjective(list)
  BY <1>1, <1>2, ListedRows
<1>4. list \in Injection(1 .. n, S)
  BY <1>3 DEF Injection, IsInjective
<1>5. IsFiniteSet(1 .. n) /\ Cardinality(1 .. n) = n
  BY FS_Interval
<1>6. list \in Surjection(1 .. n, S)
  BY <1>2, <1>4, <1>5, FS_Injection
<1>7. ToSet(list) = S
  BY <1>3, <1>6 DEF Surjection, ToSet
<1>8. list \in Seq(FixtureRows) /\ Len(list) = n
  <2>1. list \in [1 .. n -> FixtureRows]
    BY <1>3
  <2> QED
    BY <2>1, SeqDef, LenProperties
<1> QED
  BY <1>1, <1>2, <1>7, <1>8

LEMMA AsLongAsItsSet ==
  ASSUME NEW list \in Seq(FixtureRows), Once(list), IsFiniteSet(ToSet(list))
  PROVE  Len(list) = Cardinality(ToSet(list))
<1>1. PICK n \in Nat : n = Len(list) /\ DOMAIN list = 1 .. n
  BY LenProperties
<1>2. PICK S : S = ToSet(list)
  OBVIOUS
<1>3. list \in [1 .. n -> S] /\ \A x \in S : \E i \in 1 .. n : list[i] = x
  <2>1. list = [i \in 1 .. n |-> list[i]]
    BY <1>1, LenProperties
  <2>2. \A i \in 1 .. n : list[i] \in S
    BY <1>1, <1>2 DEF ToSet
  <2>3. \A x \in S : \E i \in 1 .. n : list[i] = x
    BY <1>1, <1>2 DEF ToSet
  <2> QED
    BY <2>1, <2>2, <2>3
<1>4. list \in Surjection(1 .. n, S)
  BY <1>3 DEF Surjection
<1>5. list \in Injection(1 .. n, S)
  BY <1>1, <1>3 DEF Once, Injection, IsInjective
<1>6. IsFiniteSet(1 .. n) /\ Cardinality(1 .. n) = n
  BY FS_Interval
<1>7. Cardinality(S) = n
  BY <1>4, <1>5, <1>6, FS_Surjection
<1> QED
  BY <1>1, <1>2, <1>7

\* The merged list has the stored fixtures of other gameweeks as they are.
LEMMA MergedMirrors ==
  ASSUME TypeOK, NEW s \in Seasons, Timely(rows[s], s), Mirrors(cache.fixtures, rows[s]),
         Brought(rows[s], s), Once(sync.fixtures), sync.week # 0
  PROVE  LET list == mergeFixtures(cache.fixtures, sync.fixtures, sync.week) IN
         /\ list \in Seq(FixtureRows) /\ Once(list)
         /\ \A i \in DOMAIN list : /\ Placed(list[i], s)
                                   /\ Covers(list[i].fact, rows[s].fixtures[list[i].id].fact)
         /\ \A f \in Fixtures : rows[s].fixtures[f] # NoFixture => \E i \in DOMAIN list : list[i].id = f
<1>1. PICK existing, incoming, week : existing = cache.fixtures /\ incoming = sync.fixtures /\ week = sync.week
  OBVIOUS
<1> DEFINE I == {i \in DOMAIN existing : existing[i].week # week}
           new(row) == Placed(row, s) /\ Covers(row.fact, rows[s].fixtures[row.id].fact)
<1>2. existing \in Seq(FixtureRows) /\ incoming \in Seq(FixtureRows)
  BY <1>1 DEF TypeOK, Stores, Syncs
<1>3. PICK kept : kept = Subsequence(existing, I)
  OBVIOUS
<1>4. kept \in Seq(FixtureRows) /\ IsPicked(kept, existing, I, Len(existing))
  <2> HIDE DEF I
  <2> QED
    BY <1>2, <1>3, SubsequenceFacts
<1>5. PICK a \in Nat, b \in Nat, c \in Nat :
        /\ a = Len(kept) /\ b = Len(incoming) /\ c = Len(existing)
        /\ DOMAIN kept = 1 .. a /\ DOMAIN incoming = 1 .. b /\ DOMAIN existing = 1 .. c
  BY <1>2, <1>4, LenProperties
<1>6. PICK list : list = kept \o incoming
  OBVIOUS
<1>7. /\ list \in Seq(FixtureRows) /\ DOMAIN list = 1 .. (a + b)
      /\ \A i \in 1 .. (a + b) : list[i] = IF i <= a THEN kept[i] ELSE incoming[i - a]
  BY <1>2, <1>4, <1>5, <1>6, ConcatProperties, LenProperties
<1>8. /\ \A i \in 1 .. c : existing[i] \in FixtureRows /\ rows[s].fixtures[existing[i].id] = existing[i]
      /\ \A f \in Fixtures : rows[s].fixtures[f] # NoFixture => \E i \in 1 .. c : existing[i].id = f
      /\ \A i, j \in 1 .. c : existing[i].id = existing[j].id => i = j
  <2>1. \A i \in 1 .. c : existing[i] \in FixtureRows
    BY <1>2, <1>5, ElementOfSeq
  <2> QED
    BY <1>1, <1>5, <2>1 DEF Mirrors, Once
<1>9. \A i \in 1 .. c : new(existing[i])
  <2>1. \A i \in 1 .. c : existing[i].id \in Fixtures /\ existing[i] # NoFixture
    BY <1>8, WarehouseAssumption DEF FixtureRows, NoFixture
  <2>2. \A i \in 1 .. c : Placed(existing[i], s)
    BY <1>8, <2>1 DEF Timely
  <2>3. \A i \in 1 .. c : Covers(existing[i].fact, existing[i].fact)
    <3>1. \A i \in 1 .. c : existing[i].fact \in Facts
      BY <1>8 DEF FixtureRows
    <3>2. \A x \in Facts : x.version \in Nat
      BY WarehouseAssumption DEF Facts
    <3> QED
      BY <3>1, <3>2 DEF Covers
  <2> QED
    BY <1>8, <2>2, <2>3
<1>10. \A i \in 1 .. b : new(incoming[i]) /\ incoming[i].week = week
  BY <1>1, <1>5 DEF Brought
<1>11. \A f \in Fixtures : upstream.week[f] = week => \E i \in 1 .. b : incoming[i].id = f
  BY <1>1, <1>5 DEF Brought
<1>12. \A i, j \in 1 .. b : incoming[i].id = incoming[j].id => i = j
  BY <1>1, <1>5 DEF Once
<1>13. PICK at \in [1 .. a -> 1 .. c] :
         /\ \A k \in 1 .. a : at[k] \in I /\ kept[k] = existing[at[k]]
         /\ \A k, l \in 1 .. a : k < l => at[k] < at[l]
         /\ \A i \in 1 .. c : i \in I => \E k \in 1 .. a : at[k] = i
  <2> HIDE DEF I
  <2>1. \E at \in [1 .. Len(kept) -> 1 .. Len(existing)] :
          /\ \A k \in 1 .. Len(kept) : at[k] \in I /\ kept[k] = existing[at[k]]
          /\ \A k, l \in 1 .. Len(kept) : k < l => at[k] < at[l]
          /\ \A i \in 1 .. Len(existing) : i \in I => \E k \in 1 .. Len(kept) : at[k] = i
    BY <1>4 DEF IsPicked
  <2> QED
    BY <1>5, <2>1
<1>14. \A k \in 1 .. a : new(kept[k]) /\ kept[k].week # week
  <2>1. ASSUME NEW k \in 1 .. a
        PROVE  new(kept[k]) /\ kept[k].week # week
    <3>1. at[k] \in 1 .. c /\ at[k] \in I /\ kept[k] = existing[at[k]]
      BY <1>13
    <3>2. new(existing[at[k]])
      BY <1>9, <3>1
    <3> HIDE DEF new
    <3> QED
      BY <3>1, <3>2
  <2> QED
    BY <2>1
<1>15. \A k, l \in 1 .. a : kept[k].id = kept[l].id => k = l
  <2>1. ASSUME NEW k \in 1 .. a, NEW l \in 1 .. a, kept[k].id = kept[l].id
        PROVE  k = l
    <3>1. at[k] = at[l]
      BY <1>8, <1>13, <2>1
    <3>2. at[k] \in Int /\ at[l] \in Int
      BY <1>13
    <3> QED
      BY <1>13, <3>1, <3>2
  <2> QED
    BY <2>1
<1>16. \A k \in 1 .. a, j \in 1 .. b : kept[k].id # incoming[j].id
  BY <1>10, <1>14 DEF Placed
<1>17. Once(list)
  <2>1. ASSUME NEW i \in 1 .. (a + b), NEW j \in 1 .. (a + b), list[i].id = list[j].id
        PROVE  i = j
    <3>1. i \in 1 .. a \/ (i > a /\ i - a \in 1 .. b)
      OBVIOUS
    <3>2. j \in 1 .. a \/ (j > a /\ j - a \in 1 .. b)
      OBVIOUS
    <3>3. CASE i \in 1 .. a /\ j \in 1 .. a
      <4>1. i <= a /\ j <= a
        BY <3>3
      <4>2. list[i] = kept[i] /\ list[j] = kept[j]
        BY <1>7, <4>1
      <4> QED
        BY <1>15, <2>1, <3>3, <4>2
    <3>4. CASE i \in 1 .. a /\ j > a /\ j - a \in 1 .. b
      <4>1. i <= a /\ ~ (j <= a)
        BY <3>4
      <4>2. list[i] = kept[i] /\ list[j] = incoming[j - a]
        BY <1>7, <4>1
      <4> QED
        BY <1>16, <2>1, <3>4, <4>2
    <3>5. CASE j \in 1 .. a /\ i > a /\ i - a \in 1 .. b
      <4>1. ~ (i <= a) /\ j <= a
        BY <3>5
      <4>2. list[i] = incoming[i - a] /\ list[j] = kept[j]
        BY <1>7, <4>1
      <4> QED
        BY <1>16, <2>1, <3>5, <4>2
    <3>6. CASE i > a /\ j > a /\ i - a \in 1 .. b /\ j - a \in 1 .. b
      <4>1. incoming[i - a].id = incoming[j - a].id
        BY <1>7, <2>1, <3>6
      <4>2. i - a = j - a
        BY <1>12, <3>6, <4>1
      <4> QED
        BY <4>2
    <3> QED
      BY <3>1, <3>2, <3>3, <3>4, <3>5, <3>6
  <2> QED
    BY <1>7, <2>1 DEF Once
<1>18. \A i \in 1 .. (a + b) : new(list[i])
  <2>1. ASSUME NEW i \in 1 .. (a + b)
        PROVE  new(list[i])
    <3>1. CASE i <= a
      <4>1. i \in 1 .. a /\ list[i] = kept[i]
        BY <1>7, <3>1
      <4> HIDE DEF new
      <4> QED
        BY <1>14, <4>1
    <3>2. CASE i > a
      <4>1. i - a \in 1 .. b /\ list[i] = incoming[i - a]
        BY <1>7, <3>2
      <4>2. new(incoming[i - a])
        BY <1>10, <4>1
      <4> HIDE DEF new
      <4> QED
        BY <4>1, <4>2
    <3> QED
      BY <3>1, <3>2
  <2> QED
    BY <2>1
<1>19. ASSUME NEW f \in Fixtures, rows[s].fixtures[f] # NoFixture
       PROVE  \E i \in 1 .. (a + b) : list[i].id = f
  <2>1. CASE upstream.week[f] = week
    <3>1. PICK j \in 1 .. b : incoming[j].id = f
      BY <1>11, <2>1
    <3>2. a + j \in 1 .. (a + b) /\ a + j > a /\ (a + j) - a = j
      OBVIOUS
    <3>3. list[a + j] = incoming[j]
      BY <1>7, <3>2
    <3> QED
      BY <3>1, <3>2, <3>3
  <2>2. CASE upstream.week[f] # week
    <3>1. PICK i \in 1 .. c : existing[i].id = f
      BY <1>8, <1>19
    <3>2. existing[i].week # week
      BY <1>9, <2>2, <3>1 DEF Placed
    <3>3. PICK k \in 1 .. a : at[k] = i
      BY <1>5, <1>13, <3>2
    <3>4. k \in 1 .. (a + b) /\ list[k] = existing[i]
      BY <1>7, <1>13, <3>3
    <3> QED
      BY <3>1, <3>4
  <2> QED
    BY <2>1, <2>2
<1>20. mergeFixtures(cache.fixtures, sync.fixtures, sync.week) = list
  BY <1>1, <1>3, <1>6 DEF mergeFixtures
<1> QED
  BY <1>7, <1>17, <1>18, <1>19, <1>20

\* What the upsert writes mirrors the tables of before.
LEMMA MergedAll ==
  ASSUME Clean, TypeOK, NEW s \in Seasons, InStep(s), Once(sync.fixtures), sync.pc = "upsert"
  PROVE  /\ MergedFixtures \in Seq(FixtureRows) /\ Once(MergedFixtures)
         /\ \A i \in DOMAIN MergedFixtures :
              /\ Placed(MergedFixtures[i], s)
              /\ Covers(MergedFixtures[i].fact, rows[s].fixtures[MergedFixtures[i].id].fact)
         /\ \A f \in Fixtures :
              rows[s].fixtures[f] # NoFixture => \E i \in DOMAIN MergedFixtures : MergedFixtures[i].id = f
<1>1. Mirrors(cache.fixtures, rows[s]) /\ Timely(rows[s], s)
  BY DEF InStep, Written
<1>2. sync.fixtures \in Seq(FixtureRows) /\ cache.fixtures \in Seq(FixtureRows)
  BY DEF TypeOK, Syncs, Stores
<1>3. PICK list : list = MergedFixtures
  OBVIOUS
<1>4. CASE ~NeedsFixtures
  <2>1. list = cache.fixtures
    BY <1>3, <1>4 DEF MergedFixtures
  <2>2. \A i \in DOMAIN list : list[i] \in FixtureRows
    BY <1>2, <2>1, LenProperties, ElementOfSeq
  <2>3. \A i \in DOMAIN list : list[i].id \in Fixtures /\ list[i] # NoFixture /\ list[i].fact.version \in Int
    BY <2>2, WarehouseAssumption DEF FixtureRows, NoFixture, Facts
  <2>4. \A i \in DOMAIN list : rows[s].fixtures[list[i].id] = list[i]
    BY <1>1, <2>1 DEF Mirrors
  <2>5. \A i \in DOMAIN list : Placed(list[i], s)
    BY <1>1, <2>3, <2>4 DEF Timely
  <2>6. \A i \in DOMAIN list : Covers(list[i].fact, list[i].fact)
    BY <2>3 DEF Covers
  <2> QED
    BY <1>1, <1>2, <1>3, <2>1, <2>4, <2>5, <2>6 DEF Mirrors
<1>5. CASE NeedsFixtures /\ sync.week # 0
  <2>1. sync.dataset # "full"
    BY <1>5 DEF InStep
  <2>2. list = mergeFixtures(cache.fixtures, sync.fixtures, sync.week)
    BY <1>3, <1>5, <2>1 DEF MergedFixtures
  <2>3. Brought(rows[s], s)
    BY <1>5 DEF InStep
  <2> QED
    BY <1>1, <1>3, <1>5, <2>2, <2>3, MergedMirrors
<1>6. CASE NeedsFixtures /\ sync.week = 0
  <2>1. list = sync.fixtures
    BY <1>3, <1>6 DEF MergedFixtures
  <2>2. Brought(rows[s], s)
    BY <1>6 DEF InStep
  <2> QED
    BY <1>2, <1>3, <1>6, <2>1, <2>2 DEF Brought
<1> QED
  BY <1>4, <1>5, <1>6

LEMMA MergedRecalls ==
  ASSUME TypeOK, NEW s \in Seasons, InStep(s), sync.pc = "upsert"
  PROVE  \A p \in Players : \/ MergedHistories[p] = NoFact
                            \/ /\ Recent(MergedHistories[p], s)
                               /\ Covers(MergedHistories[p], rows[s].histories[p])
<1>1. CASE NeedsHistories
  BY <1>1 DEF InStep, Recalled, MergedHistories
<1>2. CASE ~NeedsHistories
  <2>1. MergedHistories = cache.histories /\ cache.histories = rows[s].histories
    BY <1>2 DEF InStep, MergedHistories, Written
  <2>2. \A p \in Players : rows[s].histories[p].version \in Int
    BY WarehouseAssumption DEF TypeOK, Tables, Facts
  <2> QED
    BY <2>1, <2>2 DEF InStep, Timely, Covers
<1> QED
  BY <1>1, <1>2

\* Nothing that is written is older than what it replaces.
NoOlder(table, new) ==
  /\ \A f \in Fixtures : Covers(new.fixtures[f].fact, table.fixtures[f].fact)
  /\ \A p \in Players : Covers(new.histories[p], table.histories[p])

LEMMA UpsertedInStep ==
  ASSUME TypeOK, NEW s \in Seasons, NEW r \in Tables, Timely(r, s), NEW catalogue,
         NEW list \in Seq(FixtureRows), Once(list), NEW histories \in [Players -> Facts],
         \A i \in DOMAIN list : Placed(list[i], s) /\ Covers(list[i].fact, r.fixtures[list[i].id].fact),
         \A f \in Fixtures : r.fixtures[f] # NoFixture => \E i \in DOMAIN list : list[i].id = f,
         \A p \in Players : \/ histories[p] = NoFact
                            \/ Recent(histories[p], s) /\ Covers(histories[p], r.histories[p])
  PROVE  LET new == Upserted(r, catalogue, list, histories) IN
         Mirrors(list, new) /\ Timely(new, s) /\ NoOlder(r, new)
<1>1. PICK new : new = Upserted(r, catalogue, list, histories)
  OBVIOUS
<1>2. new = [catalogue |-> catalogue,
             fixtures  |-> [f \in Fixtures |-> IF \E i \in DOMAIN list : list[i].id = f
                                               THEN LastOf(list, f) ELSE r.fixtures[f]],
             histories |-> [p \in Players |-> IF histories[p] # NoFact THEN histories[p] ELSE r.histories[p]]]
  BY <1>1 DEF Upserted
<1>3. \A i \in DOMAIN list : list[i] \in FixtureRows /\ list[i].id \in Fixtures /\ LastOf(list, list[i].id) = list[i]
  <2>1. \A i \in DOMAIN list : list[i] \in FixtureRows
    BY LenProperties, ElementOfSeq
  <2> QED
    BY <2>1, OnceIsLast DEF FixtureRows
<1>4. \A i \in DOMAIN list : new.fixtures[list[i].id] = list[i]
  BY <1>2, <1>3
<1>5. \A f \in Fixtures : \/ \E i \in DOMAIN list : list[i].id = f /\ new.fixtures[f] = list[i]
                          \/ new.fixtures[f] = NoFixture /\ r.fixtures[f] = NoFixture
  BY <1>2, <1>3
<1>6. Mirrors(list, new)
  BY <1>4, <1>5 DEF Mirrors
<1>7. \A f \in Fixtures : /\ new.fixtures[f] = NoFixture \/ Placed(new.fixtures[f], s)
                          /\ Covers(new.fixtures[f].fact, r.fixtures[f].fact)
  <2>1. NoFixture.fact = NoFact
    BY DEF NoFixture
  <2> QED
    BY <1>5, <2>1 DEF Covers
<1>8. \A p \in Players : /\ new.histories[p] = NoFact \/ Recent(new.histories[p], s)
                         /\ Covers(new.histories[p], r.histories[p])
  <2>1. \A p \in Players : r.histories[p] \in Facts /\ r.histories[p].version \in Int
    BY WarehouseAssumption DEF Tables, Facts
  <2>2. \A p \in Players : Covers(r.histories[p], r.histories[p])
    BY <2>1 DEF Covers
  <2>3. \A p \in Players : r.histories[p] = NoFact \/ Recent(r.histories[p], s)
    BY DEF Timely
  <2> QED
    BY <1>2, <2>2, <2>3
<1> QED
  BY <1>1, <1>6, <1>7, <1>8 DEF Timely, NoOlder

\* The upsert: the tables mirror the synchronisation, and nothing gets older.
LEMMA CleanUpsert ==
  ASSUME Clean, Inv, DataInv, CleanInv, UpsertSnapshot
  PROVE  CleanInv' /\ \A s \in Seasons : NoOlder(rows[s], rows'[s])
<1>1. TypeOK /\ Once(sync.fixtures) /\ sync.pc = "upsert"
  BY DEF DataInv, UpsertSnapshot, Unwritten
<1>2. PICK s \in Seasons : s = sync.season /\ \A t \in Seasons : t = s
  BY <1>1 DEF Inv, MarkerInv, Identified, Clean
<1>3. PICK list, histories : list = MergedFixtures /\ histories = MergedHistories
  OBVIOUS
<1>4. InStep(s) /\ Timely(rows[s], s) /\ rows[s] \in Tables /\ cache.histories = rows[s].histories
  BY <1>1 DEF CleanInv, InStep, TypeOK, Written
<1>5. histories \in [Players -> Facts]
  BY <1>1, <1>3 DEF TypeOK, Stores, Syncs, MergedHistories
<1>6. /\ list \in Seq(FixtureRows) /\ Once(list)
      /\ \A i \in DOMAIN list : Placed(list[i], s) /\ Covers(list[i].fact, rows[s].fixtures[list[i].id].fact)
      /\ \A f \in Fixtures : rows[s].fixtures[f] # NoFixture => \E i \in DOMAIN list : list[i].id = f
  BY <1>1, <1>3, <1>4, MergedAll
<1>7. \A p \in Players : \/ histories[p] = NoFact
                         \/ Recent(histories[p], s) /\ Covers(histories[p], rows[s].histories[p])
  BY <1>1, <1>3, <1>4, MergedRecalls
<1>8. PICK table : table = Upserted(rows[s], sync.catalogue, list, histories)
  OBVIOUS
<1>9. Mirrors(list, table) /\ Timely(table, s) /\ NoOlder(rows[s], table)
  BY <1>1, <1>4, <1>5, <1>6, <1>7, <1>8, UpsertedInStep
<1>10. table.histories = [p \in Players |-> IF histories[p] # NoFact THEN histories[p] ELSE cache.histories[p]]
  BY <1>4, <1>8 DEF Upserted
<1>11. /\ rows' = [rows EXCEPT ![s] = table] /\ seasons' = RolledForward(s)
       /\ sync' = [sync EXCEPT !.pc = "snapshot", !.fixtures = list, !.histories = histories]
       /\ UNCHANGED <<upstream, config, snapshot, cache, stops>>
  BY <1>2, <1>3, <1>8 DEF UpsertSnapshot
<1>12. rows'[s] = table
  BY <1>1, <1>11 DEF TypeOK
<1>13. sync'.pc = "snapshot" /\ sync'.fixtures = list /\ sync'.histories = histories
       /\ sync'.dataset = sync.dataset /\ sync'.week = sync.week
  BY <1>1, <1>11 DEF TypeOK, Syncs
<1>14. CurrentSeasons' # {}
  BY <1>1, <1>11 DEF CurrentSeasons, RolledForward, TypeOK
<1>15. Timely(table, s)' /\ Mirrors(list, table)'
  BY <1>9, <1>11 DEF Timely, Placed, Recent, Mirrors, Once
<1>16. InStep(s)'
  BY <1>4, <1>10, <1>11, <1>12, <1>13, <1>14, <1>15 DEF InStep, Written
<1> QED
  BY <1>2, <1>9, <1>12, <1>16 DEF CleanInv

LEMMA CleanInit == Init => CleanInv
<1> SUFFICES ASSUME Init, NEW s \in Seasons
             PROVE  InStep(s)
  BY DEF CleanInv
<1>1. rows[s] = NoRows /\ cache = NoData /\ sync = NoSync
  BY DEF Init
<1>2. NoSync.pc = "idle" /\ NoSync.dataset = "none" /\ NoSync.pc \notin Written
  BY DEF NoSync, Written
<1>3. Mirrors(NoData.fixtures, NoRows) /\ NoData.histories = NoRows.histories
  BY EmptySeq DEF NoData, NoRows, Mirrors, Once
<1>4. Timely(NoRows, s)
  BY DEF NoRows, Timely
<1> QED
  BY <1>1, <1>2, <1>3, <1>4 DEF InStep

\* Steps between two synchronisations' writes: the tables and the cache stay,
\* and the source does not move backwards.
LEMMA CleanKept ==
  ASSUME CleanInv, UNCHANGED <<rows, cache, seasons>>, upstream'.week = upstream.week,
         \A x : x <= upstream.version => x <= upstream'.version,
         sync.pc \notin Written, sync'.pc \notin Written,
         sync'.dataset = "full" => sync'.week = 0,
         \A s \in Seasons : sync'.pc \in {"histories", "upsert"} /\ NeedsFixtures' => Brought(rows[s], s)',
         \A s \in Seasons : sync'.pc = "upsert" /\ NeedsHistories' => Recalled(rows[s], s)'
  PROVE  CleanInv'
<1> SUFFICES ASSUME NEW s \in Seasons PROVE InStep(s)'
  BY DEF CleanInv
<1>1. InStep(s)
  BY DEF CleanInv
<1>2. Timely(rows[s], s)'
  BY <1>1 DEF InStep, Timely, Placed, Recent
<1>3. (CurrentSeasons = {})' => rows'[s] = NoRows
  BY <1>1 DEF InStep, CurrentSeasons
<1>4. Mirrors(cache.fixtures, rows[s])' /\ cache'.histories = rows'[s].histories
  BY <1>1 DEF InStep, Mirrors, Once
<1> QED
  BY <1>2, <1>3, <1>4 DEF InStep

LEMMA CleanSource ==
  ASSUME Clean, Inv, DataInv, CleanInv,
         \/ Publish
         \/ \E f \in Fixtures, w \in Weeks \cup {0} : Reschedule(f, w)
         \/ \E s \in Seasons : Rollover(s)
  PROVE  CleanInv'
<1>1. TypeOK
  BY DEF DataInv
<1>2. ~ \E f \in Fixtures, w \in Weeks \cup {0} : Reschedule(f, w)
  <2>1. PICK m : m = upstream.moves
    OBVIOUS
  <2>2. m \in 0 .. 0
    BY <1>1, <2>1 DEF TypeOK, Sources, Clean
  <2>3. ~ (m < MaxMoves)
    BY <2>2 DEF Clean
  <2> QED
    BY <2>1, <2>3 DEF Reschedule
<1>3. ~ \E s \in Seasons : Rollover(s)
  BY <1>1, WarehouseAssumption DEF Rollover, Clean, TypeOK, Sources
<1>4. Publish
  BY <1>2, <1>3
<1>5. UNCHANGED <<config, seasons, rows, snapshot, cache, sync, stops>>
      /\ upstream' = [upstream EXCEPT !.version = @ + 1]
  BY <1>4 DEF Publish
<1>6. upstream'.week = upstream.week /\ upstream'.version = upstream.version + 1 /\ upstream.version \in Nat
  BY <1>1, <1>5, WarehouseAssumption DEF TypeOK, Sources
<1>7. \A x \in Facts : x.version \in Nat
  BY WarehouseAssumption DEF Facts
<1> SUFFICES ASSUME NEW s \in Seasons PROVE InStep(s)'
  BY DEF CleanInv
<1>8. InStep(s)
  BY DEF CleanInv
<1>9. \A x \in Facts : Recent(x, s) => Recent(x, s)'
  BY <1>6, <1>7 DEF Recent
<1>10. \A row \in FixtureRows : Placed(row, s) => Placed(row, s)'
  BY <1>6, <1>9 DEF Placed, FixtureRows
<1>11. rows[s].fixtures \in [Fixtures -> FixtureRows \cup {NoFixture}] /\ rows[s].histories \in [Players -> Facts]
       /\ sync.histories \in [Players -> Facts]
  BY <1>1 DEF TypeOK, Tables, Syncs
<1>12. \A i \in DOMAIN sync.fixtures : sync.fixtures[i] \in FixtureRows
  <2>1. sync.fixtures \in Seq(FixtureRows)
    BY <1>1 DEF TypeOK, Syncs
  <2> QED
    BY <2>1, LenProperties, ElementOfSeq
<1>13. Timely(rows[s], s)'
  BY <1>5, <1>8, <1>9, <1>10, <1>11 DEF InStep, Timely
<1>14. Brought(rows[s], s) => Brought(rows[s], s)'
  BY <1>5, <1>6, <1>10, <1>12 DEF Brought
<1>15. Recalled(rows[s], s) => Recalled(rows[s], s)'
  BY <1>5, <1>9, <1>11 DEF Recalled
<1> QED
  BY <1>5, <1>8, <1>13, <1>14, <1>15 DEF InStep, CurrentSeasons, Mirrors, Once, NeedsFixtures, NeedsHistories

\* What the feed of a gameweek has: each of its fixtures, as the source is now.
LEMMA FeedIsWhole ==
  ASSUME TypeOK, NEW w, NEW list, list = Feed(w)
  PROVE  /\ \A i \in DOMAIN list : \E f \in Fixtures :
              /\ w = 0 \/ upstream.week[f] = w
              /\ list[i] = [id |-> f, week |-> upstream.week[f], fact |-> Served]
         /\ \A f \in Fixtures : w = 0 \/ upstream.week[f] = w => \E i \in DOMAIN list : list[i].id = f
<1> DEFINE F == {f \in Fixtures : w = 0 \/ upstream.week[f] = w}
           g == [f \in F |-> [id |-> f, week |-> upstream.week[f], fact |-> Served]]
           S == {g[f] : f \in F}
<1>1. Feed(w) = SetToSeq(S)
  BY DEF Feed
<1>2. IsFiniteSet(S)
  <2>1. IsFiniteSet(F)
    BY WarehouseAssumption, FS_Subset
  <2> HIDE DEF g, F
  <2> QED
    BY <2>1, FiniteImage
<1>3. S \in SUBSET FixtureRows
  <2>1. upstream.week \in [Fixtures -> Weeks \cup {0}] /\ Served \in Facts
    BY SomeFacts DEF TypeOK, Sources
  <2>2. ASSUME NEW f \in F
        PROVE  g[f] \in FixtureRows
    <3>1. f \in Fixtures /\ upstream.week[f] \in Weeks \cup {0}
      BY <2>1
    <3>2. g[f] = [id |-> f, week |-> upstream.week[f], fact |-> Served]
      OBVIOUS
    <3> QED
      BY <2>1, <3>1, <3>2 DEF FixtureRows
  <2> HIDE DEF g, F
  <2> QED
    BY <2>2
<1>4. ToSet(list) = S
  <2> HIDE DEF S
  <2> QED
    BY <1>1, <1>2, <1>3, ListedAll
<1>5. ASSUME NEW i \in DOMAIN list
      PROVE  \E f \in F : list[i] = g[f]
  <2>1. list[i] \in S
    BY <1>4 DEF ToSet
  <2> QED
    BY <2>1
<1>6. ASSUME NEW f \in F
      PROVE  \E i \in DOMAIN list : list[i].id = f
  <2>1. g[f] \in ToSet(list) /\ g[f].id = f
    BY <1>4
  <2> HIDE DEF g
  <2> QED
    BY <2>1 DEF ToSet
<1> QED
  BY <1>5, <1>6

LEMMA CleanFetch ==
  ASSUME Clean, Inv, DataInv, CleanInv,
         \/ \E request \in Requests : StartSync(request)
         \/ FetchCatalog \/ FetchFixtures \/ (\E P \in SUBSET Players, complete \in BOOLEAN : FetchHistories(P, complete))
  PROVE  CleanInv'
<1>1. TypeOK /\ UNCHANGED <<upstream, config, seasons, rows, snapshot, cache, stops>>
  BY DEF StartSync, FetchCatalog, FetchFixtures, FetchHistories, OnlySync, DataInv
<1>2. /\ upstream'.week = upstream.week
      /\ \A x : x <= upstream.version => x <= upstream'.version
  BY <1>1
<1>3. \A s \in Seasons : upstream.season = s
  BY <1>1 DEF Clean, TypeOK, Sources
<1>4. Served = Fact(upstream.season, upstream.version) /\ upstream.version \in Nat
  BY <1>1, WarehouseAssumption DEF Served, TypeOK, Sources
<1>5. \A s \in Seasons : Recent(Served, s)
  BY <1>3, <1>4 DEF Recent, Fact
<1>6. sync.pc \in {"idle", "catalog", "fixtures", "histories"} /\ sync.pc \notin Written
  BY DEF StartSync, FetchCatalog, FetchFixtures, FetchHistories, Written
<1>7. \A s \in Seasons : InStep(s)
  BY DEF CleanInv
<1>8. sync.dataset = "full" => sync.week = 0
  BY <1>1, <1>7 DEF InStep, TypeOK, Sources
<1>9. \A x : x = NoFact \/ (\E s \in Seasons : Recent(x, s)) => Covers(Served, x)
  BY <1>3, <1>4 DEF Covers, Recent, Fact
<1>10. ASSUME NEW request \in Requests, StartSync(request)
       PROVE  CleanInv'
  <2>1. sync' = [NoSync EXCEPT !.pc = "catalog", !.dataset = request[1], !.week = request[2]]
    BY <1>10 DEF StartSync
  <2>2. sync'.pc = "catalog" /\ sync'.dataset = request[1] /\ sync'.week = request[2]
    BY <2>1 DEF NoSync
  <2>3. sync'.dataset = "full" => sync'.week = 0
    BY <2>2 DEF Clean
  <2> QED
    BY <1>1, <1>2, <1>6, <2>2, <2>3, CleanKept DEF Written
<1>11. CASE FetchCatalog
  <2>1. PICK pc : /\ pc = IF NeedsFixtures THEN "fixtures" ELSE "upsert"
                  /\ sync' = [sync EXCEPT !.pc = pc, !.season = Identity, !.catalogue = Served]
    BY <1>11 DEF FetchCatalog
  <2>2. sync'.pc = pc /\ sync'.dataset = sync.dataset /\ sync'.week = sync.week
    BY <1>1, <2>1 DEF TypeOK, Syncs
  <2>3. pc = "fixtures" \/ (pc = "upsert" /\ ~NeedsFixtures' /\ ~NeedsHistories')
    BY <2>1, <2>2 DEF NeedsFixtures, NeedsHistories
  <2> QED
    BY <1>1, <1>2, <1>6, <1>8, <2>2, <2>3, CleanKept DEF Written
<1>12. CASE FetchFixtures
  <2>1. PICK pc, feed : /\ pc = IF NeedsHistories THEN "histories" ELSE "upsert"
                        /\ feed = Feed(sync.week)
                        /\ sync' = [sync EXCEPT !.pc = pc, !.fixtures = feed]
    BY <1>12 DEF FetchFixtures
  <2>2. sync'.pc = pc /\ sync'.dataset = sync.dataset /\ sync'.week = sync.week /\ sync'.fixtures = feed
    BY <1>1, <2>1 DEF TypeOK, Syncs
  <2>3. pc = "histories" \/ (pc = "upsert" /\ ~NeedsHistories')
    BY <2>1, <2>2 DEF NeedsHistories
  <2>4. /\ \A i \in DOMAIN feed : \E f \in Fixtures :
             /\ sync.week = 0 \/ upstream.week[f] = sync.week
             /\ feed[i] = [id |-> f, week |-> upstream.week[f], fact |-> Served]
        /\ \A f \in Fixtures : sync.week = 0 \/ upstream.week[f] = sync.week =>
             \E i \in DOMAIN feed : feed[i].id = f
    BY <1>1, <2>1, FeedIsWhole
  <2>5. ASSUME NEW s \in Seasons
        PROVE  Brought(rows[s], s)'
    <3>1. ASSUME NEW i \in DOMAIN feed
          PROVE  /\ Placed(feed[i], s)
                 /\ sync.week # 0 => feed[i].week = sync.week
                 /\ Covers(feed[i].fact, rows[s].fixtures[feed[i].id].fact)
      <4>1. PICK f \in Fixtures :
              /\ sync.week = 0 \/ upstream.week[f] = sync.week
              /\ feed[i] = [id |-> f, week |-> upstream.week[f], fact |-> Served]
        BY <2>4
      <4>2. rows[s].fixtures[f].fact = NoFact \/ Recent(rows[s].fixtures[f].fact, s)
        <5>1. Timely(rows[s], s)
          BY <1>7 DEF InStep
        <5>2. PICK row : row = rows[s].fixtures[f]
          OBVIOUS
        <5>3. row = NoFixture \/ Placed(row, s)
          BY <5>1, <5>2 DEF Timely
        <5>4. row.fact = NoFact \/ Recent(row.fact, s)
          BY <5>3 DEF Placed, NoFixture
        <5> QED
          BY <5>2, <5>4
      <4> QED
        BY <1>5, <1>9, <4>1, <4>2 DEF Placed
    <3>2. \A i \in DOMAIN feed : Placed(feed[i], s)'
      BY <1>1, <3>1 DEF Placed, Recent
    <3> QED
      BY <1>1, <2>2, <2>4, <3>1, <3>2 DEF Brought
  <2> QED
    BY <1>1, <1>2, <1>6, <1>8, <2>2, <2>3, <2>5, CleanKept DEF Written
<1>13. ASSUME NEW P \in SUBSET Players, NEW complete \in BOOLEAN, FetchHistories(P, complete)
       PROVE  CleanInv'
  <2>1. PICK histories :
          /\ histories = [p \in Players |-> IF p \in P THEN Served ELSE NoFact]
          /\ sync' = [sync EXCEPT !.pc = "upsert", !.complete = complete, !.histories = histories]
    BY <1>13 DEF FetchHistories
  <2>2. sync'.pc = "upsert" /\ sync'.dataset = sync.dataset /\ sync'.week = sync.week
        /\ sync'.fixtures = sync.fixtures /\ sync'.histories = histories
    BY <1>1, <2>1 DEF TypeOK, Syncs
  <2>3. ASSUME NEW s \in Seasons
        PROVE  NeedsFixtures' => Brought(rows[s], s)'
    <3>1. NeedsFixtures => Brought(rows[s], s)
      BY <1>7, <1>13 DEF InStep, FetchHistories
    <3>2. Brought(rows[s], s) => Brought(rows[s], s)'
      BY <1>1, <2>2 DEF Brought, Placed, Recent
    <3> QED
      BY <2>2, <3>1, <3>2 DEF NeedsFixtures
  <2>4. ASSUME NEW s \in Seasons
        PROVE  Recalled(rows[s], s)'
    <3>1. \A p \in Players : rows[s].histories[p] = NoFact \/ Recent(rows[s].histories[p], s)
      BY <1>7 DEF InStep, Timely
    <3>2. \A p \in Players : histories[p] = NoFact \/ (histories[p] = Served /\ Covers(Served, rows[s].histories[p]))
      BY <1>9, <2>1, <3>1
    <3>3. \A p \in Players : \/ histories[p] = NoFact
                             \/ Recent(histories[p], s)' /\ Covers(histories[p], rows[s].histories[p])
      BY <1>1, <1>5, <3>2 DEF Recent
    <3> QED
      BY <1>1, <2>2, <3>3 DEF Recalled
  <2> QED
    BY <1>1, <1>2, <1>6, <1>8, <2>2, <2>3, <2>4, CleanKept DEF Written
<1> QED
  BY <1>10, <1>11, <1>12, <1>13

\* The reports of a synchronisation, its end, and a start with loaded data.
LEMMA CleanReports ==
  ASSUME CleanInv, TypeOK, CreateDatasetSnapshot \/ UpsertFacts \/ UNCHANGED vars
  PROVE  CleanInv'
<1>1. CASE CreateDatasetSnapshot \/ UpsertFacts
  <2>1. UNCHANGED <<upstream, config, seasons, rows, cache, stops>> /\ sync.pc \in Written
    BY <1>1 DEF CreateDatasetSnapshot, UpsertFacts, Written
  <2>2. PICK pc \in {"facts", "apply"} : sync' = [sync EXCEPT !.pc = pc]
    BY <1>1 DEF CreateDatasetSnapshot, UpsertFacts
  <2>3. sync'.pc = pc /\ sync'.dataset = sync.dataset /\ sync'.week = sync.week
        /\ sync'.fixtures = sync.fixtures /\ sync'.histories = sync.histories
    BY <2>2 DEF TypeOK, Syncs
  <2>4. sync'.pc \in Written /\ sync'.pc \notin {"histories", "upsert"}
    BY <2>3 DEF Written
  <2>5. ASSUME NEW s \in Seasons, InStep(s)
        PROVE  InStep(s)'
    <3>1. Timely(rows[s], s)' /\ Mirrors(sync.fixtures, rows[s])'
      BY <2>1, <2>3, <2>5 DEF InStep, Timely, Placed, Recent, Mirrors, Once
    <3> QED
      BY <2>1, <2>3, <2>4, <2>5, <3>1 DEF InStep, CurrentSeasons
  <2> QED
    BY <2>5 DEF CleanInv
<1>2. CASE UNCHANGED vars
  BY <1>2 DEF vars, CleanInv, InStep, Timely, Placed, Recent, Mirrors, Once, CurrentSeasons, Brought,
     Recalled, NeedsFixtures, NeedsHistories
<1> QED
  BY <1>1, <1>2

LEMMA CleanApply ==
  ASSUME CleanInv, ApplySnapshot
  PROVE  CleanInv'
<1>1. /\ UNCHANGED <<upstream, config, seasons, rows, snapshot, stops>> /\ sync' = NoSync
      /\ sync.pc \in Written
      /\ cache'.fixtures = sync.fixtures
      /\ cache'.histories = [p \in Players |-> IF sync.histories[p] # NoFact
                                               THEN sync.histories[p] ELSE cache.histories[p]]
  BY DEF ApplySnapshot, Written
<1>2. sync'.pc = "idle" /\ sync'.dataset = "none"
  BY <1>1 DEF NoSync
<1>3. ASSUME NEW s \in Seasons, InStep(s)
      PROVE  InStep(s)'
  <2>1. Timely(rows[s], s)' /\ Mirrors(cache.fixtures, rows[s])'
    BY <1>1, <1>3 DEF InStep, Timely, Placed, Recent, Mirrors, Once
  <2>2. cache'.histories = rows'[s].histories
    BY <1>1, <1>3 DEF InStep
  <2> QED
    BY <1>1, <1>2, <1>3, <2>1, <2>2 DEF InStep, CurrentSeasons, Written
<1> QED
  BY <1>3 DEF CleanInv

\* What a start loads.
LEMMA LoadedMirrors ==
  ASSUME Clean, TypeOK, Filed, NEW s \in Seasons, CurrentSeasons = {} => rows[s] = NoRows
  PROVE  LET loaded == LoadSnapshot IN
         /\ loaded.histories = rows[s].histories /\ Mirrors(loaded.fixtures, rows[s])
         /\ IsFiniteSet(ToSet(loaded.fixtures)) /\ Len(loaded.fixtures) = Cardinality(ToSet(loaded.fixtures))
<1>1. CASE CurrentSeasons = {}
  <2>1. LoadSnapshot = NoData /\ rows[s] = NoRows
    BY <1>1 DEF LoadSnapshot
  <2>2. Mirrors(NoData.fixtures, NoRows) /\ NoData.histories = NoRows.histories
    BY EmptySeq DEF NoData, NoRows, Mirrors, Once
  <2>3. ToSet(NoData.fixtures) = {} /\ Len(NoData.fixtures) = 0
    BY DEF NoData, ToSet
  <2> QED
    BY <2>1, <2>2, <2>3, FS_EmptySet
<1>2. CASE CurrentSeasons # {}
  <2>1. s = CHOOSE t \in Seasons : t \in CurrentSeasons
    BY <1>2 DEF CurrentSeasons, Clean
  <2>2. PICK table : table = rows[s].fixtures
    OBVIOUS
  <2> DEFINE S == {table[f] : f \in Fixtures} \ {NoFixture}
  <2>3. LoadSnapshot = [season |-> s, catalogue |-> rows[s].catalogue, histories |-> rows[s].histories,
                        fixtures |-> SetToSeq(S)]
    BY <1>2, <2>1, <2>2 DEF LoadSnapshot
  <2>4. table \in [Fixtures -> FixtureRows \cup {NoFixture}]
    BY <2>2 DEF TypeOK, Tables
  <2>5. S \in SUBSET FixtureRows
    BY <2>4
  <2>6. IsFiniteSet(S)
    <3>1. IsFiniteSet(Fixtures)
      BY WarehouseAssumption
    <3>2. IsFiniteSet({table[f] : f \in Fixtures})
      <4> HIDE DEF S
      <4> QED
        BY <3>1, FiniteImage
    <3> QED
      BY <3>2, FS_Subset
  <2>7. PICK list : list = SetToSeq(S)
    OBVIOUS
  <2>8. list \in Seq(FixtureRows) /\ ToSet(list) = S /\ Len(list) = Cardinality(S)
    <3> HIDE DEF S
    <3> QED
      BY <2>5, <2>6, <2>7, ListedAll
  <2>9. \A x, y \in S : x.id = y.id => x = y
    BY <2>2 DEF Filed
  <2>10. Once(list)
    <3> HIDE DEF S
    <3> QED
      BY <2>5, <2>6, <2>7, <2>9, ListedOnce
  <2>11. \A i \in DOMAIN list : table[list[i].id] = list[i]
    <3>1. \A x \in S : table[x.id] = x
      BY <2>2 DEF Filed
    <3>2. \A i \in DOMAIN list : list[i] \in S
      BY <2>8 DEF ToSet
    <3> QED
      BY <3>1, <3>2
  <2>12. ASSUME NEW f \in Fixtures, table[f] # NoFixture
         PROVE  \E i \in DOMAIN list : list[i].id = f
    <3>1. table[f] \in S /\ table[f].id = f
      BY <2>2, <2>12 DEF Filed
    <3>2. PICK i \in DOMAIN list : list[i] = table[f]
      BY <2>8, <3>1 DEF ToSet
    <3> QED
      BY <3>1, <3>2
  <2>13. Mirrors(list, rows[s])
    BY <2>2, <2>8, <2>10, <2>11, <2>12 DEF Mirrors
  <2> HIDE DEF S
  <2> QED
    BY <2>3, <2>6, <2>7, <2>8, <2>13
<1> QED
  BY <1>1, <1>2

LEMMA CleanRestart ==
  ASSUME Clean, Inv, DataInv, CleanInv, Restart
  PROVE  CleanInv'
<1>1. TypeOK /\ Filed
  BY DEF DataInv
<1>2. UNCHANGED <<upstream, seasons, rows, snapshot>> /\ sync' = NoSync /\ cache' = LoadSnapshot
  BY DEF Restart, Clean
<1>3. sync'.pc = "idle" /\ sync'.dataset = "none"
  BY <1>2 DEF NoSync
<1>4. ASSUME NEW s \in Seasons, InStep(s)
      PROVE  InStep(s)'
  <2>1. Mirrors(cache'.fixtures, rows[s]) /\ cache'.histories = rows[s].histories
    BY <1>1, <1>2, <1>4, LoadedMirrors DEF InStep
  <2>2. Mirrors(cache.fixtures, rows[s])' /\ Timely(rows[s], s)'
    BY <1>2, <1>4, <2>1 DEF InStep, Timely, Placed, Recent, Mirrors, Once
  <2> QED
    BY <1>2, <1>3, <1>4, <2>1, <2>2 DEF InStep, CurrentSeasons, Written
<1> QED
  BY <1>4 DEF CleanInv

LEMMA CleanStep ==
  ASSUME Clean, Inv, DataInv, CleanInv, [Next]_vars
  PROVE  CleanInv' /\ (rows' # rows => \A s \in Seasons : NoOlder(rows[s], rows'[s]))
<1>1. CASE UpsertSnapshot
  BY <1>1, CleanUpsert
<1>2. CASE ~UpsertSnapshot
  <2>1. TypeOK /\ ~FailSync /\ ~ \E s \in Archives, P \in SUBSET Players : ImportArchive(s, P)
    BY DEF DataInv, FailSync, Clean
  <2>2. CASE \/ Publish
             \/ \E f \in Fixtures, w \in Weeks \cup {0} : Reschedule(f, w)
             \/ \E s \in Seasons : Rollover(s)
    BY <2>2, CleanSource DEF Publish, Reschedule, Rollover
  <2>3. CASE \/ \E request \in Requests : StartSync(request)
             \/ FetchCatalog \/ FetchFixtures \/ (\E P \in SUBSET Players, complete \in BOOLEAN : FetchHistories(P, complete))
    BY <2>3, CleanFetch DEF StartSync, FetchCatalog, FetchFixtures, FetchHistories, OnlySync
  <2>4. CASE CreateDatasetSnapshot \/ UpsertFacts \/ UNCHANGED vars
    BY <2>1, <2>4, CleanReports DEF CreateDatasetSnapshot, UpsertFacts, vars
  <2>5. CASE ApplySnapshot
    BY <2>5, CleanApply DEF ApplySnapshot
  <2>6. CASE Restart
    BY <2>6, CleanRestart DEF Restart
  <2> QED
    BY <1>2, <2>1, <2>2, <2>3, <2>4, <2>5, <2>6 DEF Next, SyncStep
<1> QED
  BY <1>1, <1>2

LEMMA SameAsLoaded ==
  ASSUME Clean, TypeOK, Filed, CleanInv
  PROVE  CacheMatchesTables
<1> SUFFICES ASSUME sync.pc = "idle" PROVE CacheMatchesTables
  BY DEF CacheMatchesTables
<1>1. PICK s \in Seasons : InStep(s)
  BY DEF TypeOK, Sources, CleanInv
<1>2. Mirrors(cache.fixtures, rows[s]) /\ cache.histories = rows[s].histories
  BY <1>1 DEF InStep, Written
<1>3. PICK table, held, loaded : table = rows[s].fixtures /\ held = cache.fixtures /\ loaded = LoadSnapshot
  OBVIOUS
<1>4. /\ loaded.histories = rows[s].histories /\ Mirrors(loaded.fixtures, rows[s])
      /\ IsFiniteSet(ToSet(loaded.fixtures)) /\ Len(loaded.fixtures) = Cardinality(ToSet(loaded.fixtures))
  BY <1>1, <1>3, LoadedMirrors DEF InStep
<1>5. \A x \in FixtureRows : x # NoFixture /\ x.id \in Fixtures
  BY WarehouseAssumption DEF FixtureRows, NoFixture
<1>6. ASSUME NEW a, NEW b, Mirrors(a, rows[s]), Mirrors(b, rows[s]), NEW i \in DOMAIN a
      PROVE  a[i] \in ToSet(b)
  <2>1. a[i] \in FixtureRows /\ table[a[i].id] = a[i]
    BY <1>3, <1>6, ElementOfSeq, LenProperties DEF Mirrors
  <2>2. PICK j \in DOMAIN b : b[j].id = a[i].id
    BY <1>3, <1>5, <1>6, <2>1 DEF Mirrors
  <2>3. b[j] = a[i]
    BY <1>3, <1>6, <2>1, <2>2 DEF Mirrors
  <2> QED
    BY <2>3 DEF ToSet
<1>7. ToSet(held) = ToSet(loaded.fixtures)
  BY <1>2, <1>3, <1>4, <1>6 DEF ToSet
<1>8. held \in Seq(FixtureRows) /\ Once(held)
  BY <1>2, <1>3 DEF Mirrors
<1>9. Len(held) = Cardinality(ToSet(held))
  BY <1>4, <1>7, <1>8, AsLongAsItsSet
<1> QED
  BY <1>2, <1>3, <1>4, <1>7, <1>9 DEF CacheMatchesTables

\* No step at all, or one that leaves the tables alone, makes a fact older.
LEMMA NothingOlder ==
  ASSUME TypeOK, rows' # rows => \A s \in Seasons : NoOlder(rows[s], rows'[s])
  PROVE  \A s \in Seasons : NoOlder(rows[s], rows'[s])
<1>1. \A x \in Facts : Covers(x, x)
  BY WarehouseAssumption DEF Facts, Covers
<1>2. NoFixture.fact = NoFact /\ NoFact \in Facts
  BY SomeFacts DEF NoFixture
<1>3. \A x \in FixtureRows \cup {NoFixture} : x.fact \in Facts
  BY <1>2 DEF FixtureRows
<1>4. \A s \in Seasons : rows[s].fixtures \in [Fixtures -> FixtureRows \cup {NoFixture}]
                         /\ rows[s].histories \in [Players -> Facts]
  BY DEF TypeOK, Tables
<1>5. \A s \in Seasons : NoOlder(rows[s], rows[s])
  BY <1>1, <1>3, <1>4 DEF NoOlder
<1> QED
  BY <1>5

LEMMA CleanInvariant ==
  ASSUME Clean
  PROVE  Spec => []CleanInv /\ []DataInv /\ [][\A s \in Seasons : NoOlder(rows[s], rows'[s])]_vars
<1>1. Inv /\ DataInv /\ CleanInv /\ [Next]_vars
        => CleanInv' /\ [\A s \in Seasons : NoOlder(rows[s], rows'[s])]_vars
  BY CleanStep, NothingOlder DEF DataInv
<1>2. Inv /\ DataInv /\ [Next]_vars => DataInv'
  BY DataStep
<1> QED
  BY <1>1, <1>2, DataInit, CleanInit, MarkerInvariant, PTL DEF Spec

\* Where no call of a synchronisation fails, no fixture moves, nothing is
\* imported, the season does not change and a full synchronisation is one of
\* all gameweeks, the cache is between synchronisations what a restart would
\* load, for any sequence of scopes and restarts: what mergeFixtures and the
\* missing histories carry over is what the tables keep (api.go:643, 736).
THEOREM QuietCacheMatches ==
  ASSUME Clean
  PROVE  Spec => []CacheMatchesTables
<1>1. CleanInv /\ DataInv => CacheMatchesTables
  BY SameAsLoaded DEF DataInv
<1> QED
  BY <1>1, CleanInvariant, PTL

\* Under the same conditions no stored fact gives way to an older one, though a
\* scope writes from the cache what it did not fetch (api.go:643, store.go:93).
THEOREM QuietFactsDoNotAge ==
  ASSUME Clean
  PROVE  Spec => StoredFactsDoNotAge
<1>1. (\A s \in Seasons : NoOlder(rows[s], rows'[s])) =>
        \A s \in Seasons :
          /\ \A f \in Fixtures : Covers(rows'[s].fixtures[f].fact, rows[s].fixtures[f].fact)
          /\ \A p \in Players : Covers(rows'[s].histories[p], rows[s].histories[p])
  BY DEF NoOlder
<1> QED
  BY <1>1, CleanInvariant, PTL DEF StoredFactsDoNotAge
=============================================================================
