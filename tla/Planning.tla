------------------------------ MODULE Planning ------------------------------
(***************************************************************************)
(* The planning workspace of one user and one season: the saved squad, the *)
(* import of the active FPL team, simulations of transfers at a deadline   *)
(* and confirmed scenarios (api.go, api_manager.go, manager_service.go,    *)
(* api_transfer_research.go and their repositories).  A request is a       *)
(* sequence of separate queries; what saves runs in a transaction, whose   *)
(* first query is a step of its own.  The syncs write between the queries. *)
(*                                                                         *)
(* A squad is named by its number: those clients send, then the active     *)
(* teams.  Market v is the season after the v-th public sync.  Errors of   *)
(* the request's form are left out, as is the caller's identity: Sessions. *)
(***************************************************************************)
EXTENDS SquadRules

CONSTANTS
  Tabs,                    \* the user's open pages, one request each
  Markets,                 \* sequence of domains
  Squads,                  \* sequence of squads a client may send
  Teams,                   \* sequence of active teams: [picks, prices, worth]
  Inputs,                  \* inputs of a simulation
  Score,                   \* scores of the players
  Fixtures,                \* the season's fixtures
  MaxRequests, MaxFaults   \* bounds of the runs

ASSUME PlanningAssumption ==
  /\ IsList(Markets) /\ IsList(Squads) /\ IsList(Teams)
  /\ \A n \in DOMAIN Squads : IsSquad(Squads[n])
  /\ \A s \in DOMAIN Teams : IsList(Teams[s].picks) /\ IsFiniteSet(DOMAIN Teams[s].prices)
  /\ \A i \in Inputs : IsList(i.moves) /\ IsList(i.starting) /\ IsList(i.bench)
  /\ Markets # <<>> /\ Squads # <<>> /\ ValidatePlan(Markets[1], Squads[1]) = {}
  /\ \A v \in DOMAIN Markets : DOMAIN Markets[v] \subseteq DOMAIN Score
  /\ MaxRequests \in Nat /\ MaxFaults \in Nat

VARIABLES
  plan,       \* squad_plans, squad_plan_players, squad_lineups: a number, 0 for no row
  latest,     \* the newest active_team_snapshots row, 0 for none
  imports,    \* squad_import_events
  drafts,     \* squad_import_drafts
  scenarios,  \* planning_scenarios: id -> stored result
  market,     \* players of the season
  cutoff,     \* the newest public-fpl snapshot at or before the deadline, 0 for none
  priced,     \* the snapshots that have their player_snapshots
  late,       \* fixtures whose updated_at is after the deadline
  passed,     \* the deadline has passed
  sync,       \* the next step of the public sync
  request, answer, requests, faults,
  known,      \* history: the newest market fetched before the deadline
  replaced    \* history: how often an import of each team wrote the plan

saved == <<plan, imports, drafts, scenarios, replaced>>
public == <<market, cutoff, priced, late, sync, known>>
facts == <<latest, passed, public>>
vars  == <<saved, facts, request, answer, requests, faults>>

(* activeTeamSquad and the formation BuildImportPreview gives it. *)
Proposed(d, team) ==
  LET ids(picks) == [i \in DOMAIN picks |-> picks[i].player]
      of(I) == ids(Subsequence(team.picks, I))
      starting == of({i \in DOMAIN team.picks : team.picks[i].multiplier > 0})
      who(S) == IF S = {} THEN 0 ELSE team.picks[Max(S)].player
  IN [prices |-> team.prices, starting |-> starting,
      bench |-> of({i \in DOMAIN team.picks : team.picks[i].multiplier <= 0}),
      captain |-> who({i \in DOMAIN team.picks : team.picks[i].captain}),
      vice |-> who({i \in DOMAIN team.picks : team.picks[i].vice}),
      formation |-> Shape(d, ToSet(starting)), budget |-> team.worth]

TeamNumber(s) == Len(Squads) + s
Numbers == 1..(Len(Squads) + Len(Teams))
Version == [n \in Numbers |->
  IF n <= Len(Squads) THEN Squads[n] ELSE Proposed(Markets[Len(Markets)], Teams[n - Len(Squads)])]
Legal == UNION {{<<v, n>> : n \in {k \in Numbers : ValidatePlan(Markets[v], Version[k]) = {}}} : v \in DOMAIN Markets}

Idle == [kind |-> "none"]
None == [kind |-> "none"]
At(t, stage) == request[t] # Idle /\ request[t].stage = stage
Goto(t, r) == request' = [request EXCEPT ![t] = r] /\ answer' = None
Step(t, stage) == Goto(t, [request[t] EXCEPT !.stage = stage])
Answer(t, a) == request' = [request EXCEPT ![t] = Idle] /\ answer' = a
Refuse(t) == Answer(t, [kind |-> request[t].kind, ok |-> FALSE])

(* -- a request ------------------------------------------------------------------ *)

NewRequest(kind) ==
  [kind |-> kind, squad |-> 0, team |-> 0, mode |-> "none", confirmed |-> FALSE, input |-> <<>>,
   cutoff |-> 0, prices |-> 0, excluded |-> FALSE, fixtures |-> {}, market |-> 0,
   row |-> 0, players |-> 0, lineup |-> 0, found |-> FALSE, stage |-> "market"]
Import(s, mode, confirmed) ==
  [NewRequest("import") EXCEPT !.team = s, !.mode = mode, !.confirmed = confirmed]
Put(n) == [NewRequest("put") EXCEPT !.squad = n]

(* requestDomainStoreForOwner: the season, then the squad by three queries.
   An error of the last one is taken for a squad without a line-up.  What is
   saved or imported does not depend on the squad: its queries are left out,
   and so are the differences a preview lists. *)
AfterMarket(kind) == CASE kind = "put" -> "decide"
                       [] kind \in {"preview", "import"} -> "team"
                       [] OTHER -> "row"
ReadMarket(t, r) == Goto(t, [r EXCEPT !.market = market, !.stage = AfterMarket(r.kind)])

Asks(t) ==
  \/ \E kind \in {"recommend", "preview"} : ReadMarket(t, NewRequest(kind))
  \/ \E n \in DOMAIN Squads : ReadMarket(t, Put(n))
  \/ \E s \in DOMAIN Teams : \/ ReadMarket(t, Import(s, "draft", FALSE))
                             \/ \E c \in BOOLEAN : ReadMarket(t, Import(s, "replace", c))

(* Without the snapshot of the deadline there is no simulation. *)
Simulates(t) ==
  /\ cutoff # 0
  /\ \E kind \in {"simulate", "scenario"}, i \in Inputs :
       Goto(t, [NewRequest(kind) EXCEPT !.input = i, !.cutoff = cutoff, !.stage = "prices"])

(* A request is seen from its first query on: that of the season, or that of
   the snapshot. *)
Arrive(t) ==
  /\ request[t] = Idle /\ requests < MaxRequests /\ requests' = requests + 1
  /\ Asks(t) \/ Simulates(t)
  /\ UNCHANGED <<saved, facts, faults>>

(* LoadResearchSnapshotAtCutoff: after the snapshot its players, by its
   identifier, then the number of fixtures that changed after the deadline and
   the fixtures that did not.  A snapshot without players is none.
   Positions, read from players, do not change in a season. *)
ReadNewestPrices(t) ==   \* faulty: the players of the newest observation
  /\ At(t, "prices")
  /\ Goto(t, [request[t] EXCEPT !.prices = Max(priced), !.stage = "excluded"])
ReadPrices(t) ==
  /\ At(t, "prices")
  /\ IF request[t].cutoff \notin priced THEN Refuse(t)
     ELSE Goto(t, [request[t] EXCEPT !.prices = request[t].cutoff, !.stage = "excluded"])

CountExcluded(t) ==
  /\ At(t, "excluded")
  /\ Goto(t, [request[t] EXCEPT !.excluded = late # {}, !.stage = "fixtures"])

ReadFixtures(t) ==
  /\ At(t, "fixtures")
  /\ IF request[t].excluded THEN Refuse(t)
     ELSE Goto(t, [request[t] EXCEPT !.fixtures = Fixtures \ late, !.stage = "market"])

ReadSeason(t) == At(t, "market") /\ ReadMarket(t, request[t])

ReadRow(t) ==
  /\ At(t, "row")
  /\ Goto(t, [request[t] EXCEPT !.row = plan, !.stage = IF plan = 0 THEN "decide" ELSE "players"])

ReadPlayers(t) ==
  /\ At(t, "players")
  /\ Goto(t, [request[t] EXCEPT !.players = plan, !.stage = "lineup"])

ReadLineup(t) ==
  /\ At(t, "lineup")
  /\ Goto(t, [request[t] EXCEPT !.lineup = plan, !.stage = "decide"])

Basis(r) == <<r.row, r.players, r.lineup>>
Bases == LET rows == {0} \cup Numbers IN {<<a, b, c>> : a \in rows, b \in rows, c \in rows}
Load(b) ==
  LET lineup == IF b[3] = 0 THEN NoSquad ELSE Version[b[3]] IN
  IF 0 \in {b[1], b[2]} THEN NoSquad
  ELSE [lineup EXCEPT !.prices = Version[b[2]].prices, !.budget = Version[b[1]].budget]

(* A simulation replaces the season of the request by that of the cut-off. *)
MarketOf(r) == IF r.cutoff > 0 THEN r.prices ELSE r.market
Cases == {<<v, b>> : v \in DOMAIN Markets, b \in Bases}
Advised == {c \in Cases : Recommend(Markets[c[1]], Load(c[2]), Score).errors = {}}
Simulations == {<<v, b, i>> : v \in DOMAIN Markets, b \in Bases, i \in Inputs}
Possible == {s \in Simulations : SimulateTransfers(Markets[s[1]], Load(s[2]), s[3]).errors = {}}

Decide(t) ==
  LET r == request[t]
      refused == CASE r.kind = "put" -> <<MarketOf(r), r.squad>> \notin Legal
                   [] r.kind = "recommend" -> <<MarketOf(r), Basis(r)>> \notin Advised
                   [] r.kind \in {"simulate", "scenario"} -> <<MarketOf(r), Basis(r), r.input>> \notin Possible
                   [] OTHER -> FALSE
  IN /\ At(t, "decide")
     /\ IF refused THEN Refuse(t)
        ELSE CASE r.kind = "put"      -> Step(t, "find")
               [] r.kind = "scenario" -> Step(t, "store")
               [] OTHER -> Answer(t, [kind |-> r.kind, ok |-> TRUE, read |-> r])

(* -- the import of the active team ---------------------------------------------- *)

Preview(t, shown) == Answer(t, [kind |-> "preview", ok |-> TRUE, read |-> request[t], shown |-> shown])

(* faulty: the rules were checked when the team was shown *)
MayImportUnchecked(r) == latest = r.team /\ (r.mode = "replace" => r.confirmed)
(* The team is read again when it is confirmed; faulty: whichever is newest *)
MayImportAny(r) ==
  /\ latest # 0
  /\ <<MarketOf(r), TeamNumber(latest)>> \in Legal
  /\ r.mode = "replace" => r.confirmed
MayImport(r) ==
  /\ latest = r.team
  /\ <<MarketOf(r), TeamNumber(latest)>> \in Legal
  /\ r.mode = "replace" => r.confirmed

ReadTeam(t) ==
  /\ At(t, "team")
  /\ IF request[t].kind = "preview"
     THEN IF latest = 0 THEN Refuse(t) ELSE Preview(t, latest)
     ELSE IF MayImport(request[t])
          THEN Goto(t, [request[t] EXCEPT !.squad = TeamNumber(latest), !.stage = "event"])
          ELSE Refuse(t)

(* ImportActiveTeam: what was imported before is answered as it was then. *)
FindEvent(t) ==
  /\ At(t, "event")
  /\ LET r == request[t] IN
     IF <<r.team, r.mode>> \in imports
     THEN Answer(t, [kind |-> "import", ok |-> TRUE, read |-> r])
     ELSE Step(t, IF r.mode = "draft" THEN "write" ELSE "find")

Queries(t) == \/ ReadPrices(t) \/ CountExcluded(t) \/ ReadFixtures(t) \/ ReadSeason(t) \/ ReadRow(t)
              \/ ReadPlayers(t) \/ ReadLineup(t) \/ Decide(t) \/ ReadTeam(t) \/ FindEvent(t)

(* -- what is saved --------------------------------------------------------------- *)

(* saveSquadForOwner, saveImportedSquadTx: the row of the plan is looked for,
   then written with its players and line-up; the commit makes it seen. *)
FindPlan(t) ==
  /\ At(t, "find")
  /\ Goto(t, [request[t] EXCEPT !.found = plan # 0, !.stage = "write"])
  /\ UNCHANGED <<saved, facts, requests, faults>>

(* The unique indexes refuse a second first plan, and a second import of the
   same team in the same mode, with all its transaction wrote. *)
AnyEvent(r) == TRUE
FirstEvent(r) == r.kind = "import" => <<r.team, r.mode>> \notin imports
FirstPlan(r) == r.mode # "draft" /\ ~r.found => plan = 0

Commit(t) ==
  /\ At(t, "write")
  /\ LET r == request[t] IN
     IF FirstEvent(r) /\ FirstPlan(r)
     THEN /\ Answer(t, [kind |-> r.kind, ok |-> TRUE, read |-> r])
          /\ IF r.mode = "draft"
             THEN drafts' = drafts \cup {r.squad} /\ UNCHANGED <<plan, replaced>>
             ELSE /\ plan' = r.squad /\ UNCHANGED drafts
                  /\ replaced' = IF r.kind = "put" THEN replaced ELSE [replaced EXCEPT ![r.team] = @ + 1]
          /\ imports' = IF r.kind = "put" THEN imports ELSE imports \cup {<<r.team, r.mode>>}
     ELSE Refuse(t) /\ UNCHANGED <<plan, drafts, imports, replaced>>
  /\ UNCHANGED <<scenarios, facts, requests, faults>>

(* SavePlanningScenario: the identifier of a scenario is made of the snapshot
   and the input; one that exists stays as it is. *)
Store(t) ==
  /\ At(t, "store")
  /\ LET r == request[t] IN
     /\ scenarios' = [id \in DOMAIN scenarios \cup {<<r.cutoff, r.input>>} |->
                        IF id \in DOMAIN scenarios THEN scenarios[id] ELSE Basis(r)]
     /\ Answer(t, [kind |-> "scenario", ok |-> TRUE, read |-> r])
  /\ UNCHANGED <<plan, imports, drafts, replaced, facts, requests, faults>>

(* A statement fails: the request is refused and its transaction undone. *)
Fail(t) ==
  /\ request[t] # Idle /\ request[t].stage # "decide" /\ faults < MaxFaults /\ faults' = faults + 1
  /\ IF request[t].stage = "lineup" THEN Step(t, "decide") ELSE Refuse(t)
  /\ UNCHANGED <<saved, facts, requests>>

(* -- the syncs --------------------------------------------------------------------- *)

(* PersistActiveTeam: a team that was stored before becomes the newest again. *)
TeamSync == \E s \in DOMAIN Teams : latest' = s /\ UNCHANGED <<passed, public, faults>>

(* The source is read, its rows are upserted in one transaction with the time
   of that as updated_at, the row of the snapshot follows with the time of its
   creation, then its players. *)
PublicFetch ==
  /\ sync = "idle" /\ market < Len(Markets) /\ sync' = "upsert"
  /\ known' = IF passed THEN known ELSE market + 1
  /\ UNCHANGED <<market, cutoff, priced, late>>
PublicUpsert ==
  /\ sync = "upsert" /\ sync' = "snapshot" /\ market' = market + 1
  /\ \E F \in SUBSET Fixtures : F # {} /\ late' = IF passed THEN late \cup F ELSE late
  /\ UNCHANGED <<cutoff, priced, known>>
PublicSnapshot ==
  /\ sync = "snapshot" /\ sync' = "players"
  /\ cutoff' = IF passed THEN cutoff ELSE market
  /\ UNCHANGED <<market, priced, late, known>>
PublicPlayers ==
  /\ sync = "players" /\ sync' = "idle" /\ priced' = priced \cup {market}
  /\ UNCHANGED <<market, cutoff, late, known>>
Public == PublicFetch \/ PublicUpsert \/ PublicSnapshot \/ PublicPlayers

(* A call of the sync fails: it ends there, and what it wrote stays. *)
PublicFails == sync # "idle" /\ sync' = "idle" /\ UNCHANGED <<market, cutoff, priced, late, known>>

Deadline == ~passed /\ passed' = TRUE /\ UNCHANGED <<latest, public, faults>>
Syncs == /\ \/ TeamSync \/ Deadline
            \/ Public /\ UNCHANGED <<latest, passed, faults>>
            \/ PublicFails /\ faults < MaxFaults /\ faults' = faults + 1 /\ UNCHANGED <<latest, passed>>
         /\ answer' = None /\ UNCHANGED <<saved, request, requests>>

Init ==
  /\ plan \in {0, 1}
  /\ latest = 0 /\ imports = {} /\ drafts = {}
  /\ \E n \in DOMAIN Squads : <<1, n>> \in Legal /\
       scenarios = IF plan = 0 THEN <<>> ELSE [s \in {<<1, i>> : i \in Inputs} |-> <<n, n, n>>]
  /\ market = 1 /\ cutoff = 1 /\ priced = {1} /\ late = {} /\ passed = FALSE /\ sync = "idle" /\ known = 1
  /\ request = [t \in Tabs |-> Idle] /\ answer = None /\ requests = 0 /\ faults = 0
  /\ replaced = [s \in DOMAIN Teams |-> 0]

Serve(t) == \/ Arrive(t) \/ FindPlan(t) \/ Commit(t) \/ Store(t) \/ Fail(t)
            \/ Queries(t) /\ UNCHANGED <<saved, facts, requests, faults>>
Next == Syncs \/ \E t \in Tabs : Serve(t)
Spec == Init /\ [][Next]_vars

(* -- properties ----------------------------------------------------------------------- *)

(* Types of the stored data; every draft is a team that was imported. *)
TypeOK ==
  /\ plan \in {0} \cup Numbers /\ latest \in 0..Len(Teams) /\ market \in DOMAIN Markets
  /\ imports \subseteq (DOMAIN Teams) \X {"draft", "replace"}
  /\ drafts = {TeamNumber(e[1]) : e \in {i \in imports : i[2] = "draft"}}
  /\ cutoff \in 0..market /\ priced \subseteq 1..market /\ late \subseteq Fixtures
  /\ \A id \in DOMAIN scenarios : scenarios[id] \in Numbers \X Numbers \X ({0} \cup Numbers)

(* The saved plan obeyed every rule in a season the request saw, whatever was
   saved or imported beside it (api.go:1062, manager_service.go:333). *)
PlanIsLegal == plan # 0 => \E v \in 1..market : <<v, plan>> \in Legal

(* What is stored has its type, and the plan obeys the rules. *)
SavedIsSound == TypeOK /\ PlanIsLegal

(* A team is written over the plan once however often it is confirmed, by two
   tabs at the same time too: what the user changed since stays
   (manager_import_repository.go:19-26, :51). *)
ImportedOnce == \A s \in DOMAIN Teams : replaced[s] <= 1

(* The plan changes only to the squad a client sent, or to the very team it
   named and confirmed although a newer one may have come since the preview
   (manager_service.go:330, spec fpl-squad-import). *)
OnlyAsConfirmed ==
  [][plan' # plan => \E t \in Tabs : LET r == request[t] IN
       \/ r.kind = "put" /\ plan' = r.squad
       \/ r.kind = "import" /\ r.mode = "replace" /\ r.confirmed /\ plan' = TeamNumber(r.team)]_plan

(* The rows of a squad are read by three queries while another tab may save:
   players of one squad with the line-up of another are never recommended
   from, unless both are of the same fifteen, and what a simulation leads to is
   one squad again, whatever it was given (repository.go:1123-1151,
   optimizer.go:39, transfer_research.go:371). *)
Given(kinds) == answer.kind \in kinds /\ answer.ok
Outcome(r) == SimulateTransfers(Markets[MarketOf(r)], Load(Basis(r)), r.input).after
OneSquad(s) == s.starting # <<>> => ToSet(s.starting) \cup ToSet(s.bench) = DOMAIN s.prices
TornSquadsAreRefused ==
  /\ Given({"recommend"}) => OneSquad(Load(Basis(answer.read)))
  /\ Given({"simulate", "scenario"}) => OneSquad(Outcome(answer.read))

(* The outcome of transfers knows nothing of what came after the deadline,
   although the snapshot and its players are written by two statements and read
   by two others, with syncs that fail or run past the deadline between them:
   the snapshot answered for was fetched before the deadline, and the players
   brought in cost what they cost in it (repository_transfer_research.go:26,
   :42, api.go:684, :696, spec transfer-laboratory). *)
NoLaterPrices ==
  Given({"simulate", "scenario"}) =>
    LET r == answer.read  after == Outcome(r) IN
    /\ r.cutoff <= known
    /\ \A i \in DOMAIN r.input.moves : LET p == r.input.moves[i].in IN
         p \in DOMAIN after.prices => after.prices[p] = Markets[r.cutoff][p].price

(* A confirmed scenario is never changed (000011 "immutable copies"). *)
ScenariosStay ==
  [][\A id \in DOMAIN scenarios : id \in DOMAIN scenarios' /\ scenarios'[id] = scenarios[id]]_scenarios

(* What was stored changes only by what its owner confirmed. *)
StoredAsConfirmed == OnlyAsConfirmed /\ ScenariosStay

(* 000011_transfer_fixture_research: the stored scenario is a copy of the
   simulation that was confirmed. *)
ScenarioIsCopy ==
  Given({"scenario"}) => LET r == answer.read IN scenarios[<<r.cutoff, r.input>>] = Basis(r)

(* Specification of the transfer laboratory: a simulation that lacks inputs of
   the deadline fails or is marked unavailable. *)
CutoffIsComplete == Given({"simulate", "scenario"}) => answer.read.fixtures = Fixtures
=============================================================================
