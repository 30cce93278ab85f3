--------------------------- MODULE LeagueAnalysis ---------------------------
(***************************************************************************)
(* League comparison, league summary and gameweek autopsy                  *)
(* (manager_service.go, manager.go, manager_read_repository.go,            *)
(* api_analysis.go).  An analysis is a sequence of separate queries; the   *)
(* syncs write standings, picks and points between them.  One league, one  *)
(* gameweek.  A team maps its players to picks; points are exact and the   *)
(* overlap is kept as the pair of its numerator and denominator.           *)
(***************************************************************************)
EXTENDS Integers, FiniteSets, Sequences, SequencesExt, FiniteSetsExt, Functions, Lists

CONSTANTS
  Players, Roles,      \* players and the role of each: Goalkeeper .. Forward
  Entries,             \* entry identifiers, numbers
  Teams,               \* picks a source may send for an entry
  Form,                \* the rounded form of each player, the estimate
  Pages,               \* standings a sync may store: per page, entry -> rank
  Points, Costs,       \* points of a player, cost of an entry's transfers
  Requests,            \* what clients ask for
  NoTeam, NoPoints,
  MaxWrites            \* bound: writes of the syncs

ASSUME LeagueAssumption ==
  /\ Entries \subseteq Nat /\ Roles \in [Players -> 1..4] /\ Form \in [Players -> Int]
  /\ Points \subseteq Int /\ Costs \subseteq Nat /\ 0 \in Costs /\ MaxWrites \in Nat
  /\ NoTeam \notin Teams /\ NoPoints \notin [points: Points, final: BOOLEAN]
  /\ \A t \in Teams :
       /\ DOMAIN t \subseteq Players /\ IsFiniteSet(DOMAIN t) /\ t # <<>>
       /\ \A p \in DOMAIN t : t[p].multiplier \in Int
  /\ IsFiniteSet(DOMAIN Pages)
  /\ \A k \in DOMAIN Pages :
       /\ Pages[k] # {}
       /\ \A rows \in Pages[k] :
            /\ DOMAIN rows \subseteq Entries /\ IsFiniteSet(DOMAIN rows)
            /\ \A e \in DOMAIN rows : rows[e] \in Nat
  /\ \A q \in Requests :
       /\ q.kind \in {"compare", "summary", "autopsy"}
       /\ q.from \in Nat /\ q.to \in Nat /\ q.limit \in Int
       /\ q.kind = "autopsy" => q.entries # <<>> /\ q.entries \in Seq(Entries)

VARIABLES
  page,        \* latest snapshot of every page of the standings
  team, cost,  \* latest picks of an entry with their number; transfer cost
  failed,      \* entries whose pick link is failed
  facts,       \* player_gameweek_facts
  writes,
  request,     \* the analysis under way, with all it has read
  answer       \* the last one that ended

data == <<page, team, cost, failed, facts, writes>>
vars == <<data, request, answer>>

(* -- pure parts (manager.go) ---------------------------------------------- *)

Known(points, p) == p \in DOMAIN points
Worth(points, p) == IF Known(points, p) THEN points[p] ELSE 0

(* One row per entry, that of its best rank, ordered by rank and entry. *)
Before(a, b) == a.rank < b.rank \/ (a.rank = b.rank /\ a.entry <= b.entry)
Rows(pages) ==
  UNION {{[entry |-> e, rank |-> pages[k][e]] : e \in DOMAIN pages[k]} : k \in DOMAIN pages}
AllRows(pages) == Ordered(Rows(pages), Before)
Members(pages) ==
  Ordered({r \in Rows(pages) : \A o \in Rows(pages) : o.entry = r.entry => r.rank <= o.rank}, Before)

(* Explicit entries, else a range of ranks, else all; at most limit, or 50. *)
AtMost(limit) == IF limit > 0 THEN limit ELSE 50
SelectLeagueMembers(members, explicit, from, to, limit) ==
  LET eligible(m) == IF explicit # {} THEN m.entry \in explicit
                     ELSE from > 0 => m.rank >= from /\ (to = 0 \/ m.rank <= to)
      chosen == Subsequence(members, {i \in DOMAIN members : eligible(members[i])})
  IN [i \in 1..Min({Len(chosen), AtMost(limit)}) |-> chosen[i].entry]

EffectivePoints(t, points, p) == Worth(points, p) * t[p].multiplier
Effective(t, points, S) == SumFunction([p \in S |-> EffectivePoints(t, points, p)])
Bench(t)    == {p \in DOMAIN t : t[p].bench}
Eleven(t)   == DOMAIN t \ Bench(t)
GrossOfEleven(t, points) == Effective(t, points, Eleven(t))
GrossPoints(t, points) == Effective(t, points, DOMAIN t)
Captain(t)  == {p \in DOMAIN t : t[p].captain}
Formation(t) == [r \in 2..4 |-> Cardinality({p \in Eleven(t) : Roles[p] = r})]
CaptainDelta(t, points) == SumFunction([p \in Captain(t) |-> Worth(points, p) * (t[p].multiplier - 1)])
Overlap(A, B) == <<Cardinality(A \cap B), Cardinality(A \cup B)>>
SymmetricDifference(A, B) == (A \ B) \cup (B \ A)

(* The side of the first team of CompareTeamsWithCosts. *)
Side(e, o, t, u, points, c, d) ==
  LET only == DOMAIN t \ DOMAIN u  theirs == DOMAIN u \ DOMAIN t
      net == GrossPoints(t, points) - c
  IN [entry |-> e, opponent |-> o, shared |-> DOMAIN t \cap DOMAIN u, differentials |-> only,
      overlap |-> Overlap(DOMAIN t, DOMAIN u), xi |-> Overlap(Eleven(t), Eleven(u)),
      bench |-> SymmetricDifference(Bench(t), Bench(u)),
      captainDifferent |-> Captain(t) # Captain(u), captainDelta |-> CaptainDelta(t, points),
      formationDifferent |-> Formation(t) # Formation(u), net |-> net, cost |-> c,
      contribution |-> Effective(t, points, only) - Effective(u, points, theirs),
      difference |-> net - (GrossPoints(u, points) - d)]

(* faulty: every team with the points it was loaded with *)
ComparePairsAsLoaded(loaded, points) ==
  LET side(w) == LET a == loaded[w[1]]  b == loaded[w[2]]
                     s == Side(a.entry, b.entry, a.team, b.team, a.points, a.cost, b.cost)
                 IN [s EXCEPT !.difference = GrossPoints(a.team, a.points) - a.cost
                                           - (GrossPoints(b.team, b.points) - b.cost)]
  IN {side(w) : w \in {v \in (DOMAIN loaded) \X (DOMAIN loaded) : v[1] # v[2]}}

(* Both sides of every pair of analyses, in the order they were loaded. *)
ComparePairs(loaded, points) ==
  LET side(w) == LET a == loaded[w[1]]  b == loaded[w[2]]
                 IN Side(a.entry, b.entry, a.team, b.team, points, a.cost, b.cost)
  IN {side(w) : w \in {v \in (DOMAIN loaded) \X (DOMAIN loaded) : v[1] # v[2]}}

ResolveAnalysisOutcome(base, incomplete, stale) ==
  IF base \in {"estimated", "unavailable"} THEN "unavailable"
  ELSE IF incomplete THEN "partial"
  ELSE IF stale THEN "stale" ELSE base

(* -- what a query returns (manager_read_repository.go) --------------------- *)

(* Points and their state: the facts, or the players' form when there are none. *)
PlayerPoints ==
  LET found == {p \in Players : facts[p] # NoPoints}
  IN IF found = {} THEN [of |-> Form, state |-> "estimated"]
     ELSE [of |-> [p \in found |-> facts[p].points],
           state |-> IF \A p \in found : facts[p].final THEN "actual" ELSE "provisional"]

(* -- an analysis, one query at a time -------------------------------------- *)

Idle == [kind |-> "none"]
At(stage) == request.kind # "none" /\ request.stage = stage
Answer(r) == request' = Idle /\ answer' = r
Continue(r) == request' = r /\ UNCHANGED answer
Add(r, item) == [r EXCEPT !.missing = @ \cup {item}]

(* The entries still to load: their analyses first, then what follows. *)
Load(r) == [r EXCEPT !.stage = IF r.todo = <<>> THEN "conclude" ELSE "picks"]

Ask ==
  /\ request = Idle
  /\ \E q \in Requests :
       request' = [kind |-> q.kind, query |-> q, members |-> <<>>, selected |-> <<>>,
                   failures |-> {}, points |-> [of |-> <<>>, state |-> "none"],
                   todo |-> IF q.kind = "autopsy" THEN q.entries ELSE <<>>,
                   now |-> Idle, loaded |-> <<>>, missing |-> {}, outcome |-> "actual", since |-> writes,
                   stage |-> IF q.kind = "autopsy" THEN "picks" ELSE "members"]
  /\ answer' = Idle
  /\ UNCHANGED data

(* LoadLeagueMembers, the selection, and the explicit entries not among them. *)
ReadMembers ==
  /\ At("members")
  /\ LET q == request.query  members == Members(page)
         selected == SelectLeagueMembers(members, q.explicit, q.from, q.to, q.limit)
         unknown == q.explicit \ {members[i].entry : i \in DOMAIN members}
         r == [request EXCEPT !.members = members, !.selected = selected,
                              !.missing = {<<"member", e>> : e \in unknown}]
     IN IF request.kind = "compare" THEN Continue([r EXCEPT !.stage = "failures"])
        ELSE Continue([r EXCEPT !.stage = "standings"])
  /\ UNCHANGED data

(* LoadLeagueMemberFailures; fewer than two members cannot be compared. *)
ReadFailures ==
  /\ At("failures")
  /\ LET r == [request EXCEPT !.failures = failed,
                              !.missing = @ \cup {<<"sync", e>> : e \in failed}]
     IN IF Len(request.selected) < 2
        THEN Answer([Add(r, <<"two members">>) EXCEPT !.outcome = "unavailable"])
        ELSE Continue([r EXCEPT !.stage = "points"])
  /\ UNCHANGED data

(* The one read of points every comparison of an answer is made of, and the
   second one of an autopsy.  Form is no ground for a comparison. *)
ReadPoints ==
  /\ At("points")
  /\ LET r == [request EXCEPT !.points = PlayerPoints] IN
     IF PlayerPoints.state = "estimated"
     THEN Answer([Add(r, <<"points">>) EXCEPT !.outcome = "unavailable"])
     ELSE IF request.kind = "compare"
     THEN Continue(Load([r EXCEPT !.outcome = PlayerPoints.state, !.todo = r.selected]))
     ELSE Continue(Load([r EXCEPT !.todo = Tail(r.query.entries)]))
  /\ UNCHANGED data

(* LeagueSummary: the first page of the standings tells an empty league from
   one that was never read. *)
ReadStandings ==
  /\ At("standings")
  /\ IF request.members = <<>>
     THEN Answer(IF 1 \in DOMAIN page THEN request
                 ELSE [Add(request, <<"standings">>) EXCEPT !.outcome = "unavailable"])
     ELSE Continue(Load([request EXCEPT !.todo = request.selected]))
  /\ UNCHANGED data

(* LoadManagerDecisionAnalysis: picks, points, then number and cost. *)
ReadPicks ==
  /\ At("picks")
  /\ LET e == Head(request.todo) IN
     Continue([request EXCEPT !.now = [entry |-> e, team |-> team[e].team], !.stage = "facts"])
  /\ UNCHANGED data

ReadFacts ==
  /\ At("facts")
  /\ LET t == request.now.team  read == PlayerPoints IN
     Continue([request EXCEPT !.stage = "meta",
       !.now = [entry |-> @.entry, team |-> t, points |-> read.of, state |-> read.state,
                gross |-> IF t = NoTeam THEN 0 ELSE GrossPoints(t, read.of)]])
  /\ UNCHANGED data

ReadMeta ==
  /\ At("meta")
  /\ LET n == request.now  e == n.entry IN
     Continue([request EXCEPT !.stage = "weigh", !.todo = Tail(@),
       !.now = [entry |-> e, team |-> n.team, points |-> n.points, state |-> n.state,
                gross |-> n.gross, number |-> team[e].number, cost |-> cost[e]]])
  /\ UNCHANGED data

(* Whether an entry counts: it needs picks; a comparison needs points for each
   of them, a summary points that are no estimate.  Weighed by the service
   without a query. *)
PicksAreEnough(r) == IF r.now.team = NoTeam THEN {<<"picks", r.now.entry>>} ELSE {}
Lacks(r) ==
  LET n == r.now IN
  IF n.team = NoTeam THEN {<<"picks", n.entry>>}
  ELSE IF r.kind = "compare" THEN {<<"player", n.entry, p>> : p \in {x \in DOMAIN n.team : ~Known(r.points.of, x)}}
  ELSE IF r.kind = "summary" /\ n.state = "estimated" THEN {<<"points", n.entry>>}
  ELSE {}

Weigh ==
  /\ At("weigh")
  /\ LET lacks == Lacks(request)  n == request.now
         state == CASE request.kind # "summary" -> request.outcome
                    [] n.team # NoTeam /\ n.state # "actual" ->
                         IF n.state = "estimated" THEN "unavailable" ELSE "provisional"
                    [] OTHER -> request.outcome
         r == [request EXCEPT !.missing = @ \cup lacks, !.outcome = state, !.now = Idle,
                 !.loaded = IF lacks = {} THEN Append(@, n) ELSE @]
     IN IF request.kind # "autopsy" THEN Continue(Load(r))
        ELSE IF request.points.state # "none" THEN Continue(Load(r))   \* the rival
        ELSE IF lacks # {} THEN Answer([r EXCEPT !.outcome = "unavailable"])
        ELSE Continue([r EXCEPT !.stage = "points", !.outcome = n.state])
  /\ UNCHANGED data

(* The outcome of the whole: partial when an entry is left out; for an autopsy
   when any fact is. *)
Conclude ==
  /\ At("conclude")
  /\ LET own == request.loaded[1]
         unscored == IF request.kind = "autopsy"
                     THEN {<<"player", own.entry, p>> : p \in {x \in DOMAIN own.team : ~Known(request.points.of, x)}}
                     ELSE {}
         missing == request.missing \cup unscored
         outcome == CASE request.kind = "autopsy" /\ missing # {} ->
                           ResolveAnalysisOutcome(request.points.state, TRUE, FALSE)
                      [] request.kind # "autopsy" /\ Len(request.loaded) < Len(request.selected) ->
                           ResolveAnalysisOutcome(request.outcome, TRUE, FALSE)
                      [] OTHER -> request.outcome
     IN \E stale \in BOOLEAN :      \* the freshness of the user's manager data
          Answer([request EXCEPT !.missing = missing,
                    !.outcome = IF stale /\ outcome \notin {"partial", "unavailable"}
                                THEN ResolveAnalysisOutcome(outcome, FALSE, TRUE) ELSE outcome])
  /\ UNCHANGED data

(* What an answer shows besides: the pairs of a comparison, the owners of each
   player, the contributions of an autopsy. *)
Comparisons(a) == IF a.kind = "compare" /\ a.stage = "conclude"
                  THEN ComparePairs(a.loaded, a.points.of) ELSE {}
Ownership(a) == [p \in UNION {DOMAIN a.loaded[i].team : i \in DOMAIN a.loaded} |->
                   Cardinality({i \in DOMAIN a.loaded : p \in DOMAIN a.loaded[i].team})]
Contributions(a) == LET t == a.loaded[1].team IN
  [p \in {x \in DOMAIN t : Known(a.points.of, x)} |-> EffectivePoints(t, a.points.of, p)]

(* -- the syncs (ManagerSync, LiveFacts) ------------------------------------- *)

Write == writes < MaxWrites /\ writes' = writes + 1 /\ UNCHANGED <<request, answer>>

StorePage == Write /\ \E k \in DOMAIN Pages : \E rows \in Pages[k] :
  page' = [i \in DOMAIN page \cup {k} |-> IF i = k THEN rows ELSE page[i]]
  /\ UNCHANGED <<team, cost, failed, facts>>
StorePicks == Write /\ \E e \in Entries, t \in Teams :
  /\ team' = [team EXCEPT ![e] = [team |-> t, number |-> @.number + 1]]
  /\ failed' = failed \ {e} /\ UNCHANGED <<page, cost, facts>>
PicksFail == Write /\ \E e \in Entries : failed' = failed \cup {e} /\ UNCHANGED <<page, team, cost, facts>>
StoreCost == Write /\ \E e \in Entries, c \in Costs :
  cost' = [cost EXCEPT ![e] = c] /\ UNCHANGED <<page, team, failed, facts>>
StoreFacts == Write /\ \E f \in [Players -> Points], final \in BOOLEAN :
  facts' = [p \in Players |-> [points |-> f[p], final |-> final]] /\ UNCHANGED <<page, team, cost, failed>>
Sync == StorePage \/ StorePicks \/ PicksFail \/ StoreCost \/ StoreFacts

Init ==
  /\ page \in {<<>>} \cup {[k \in DOMAIN Pages |-> CHOOSE rows \in Pages[k] : TRUE]}
  /\ team \in [Entries -> [team: Teams \cup {NoTeam}, number: {0}]]
  /\ cost = [e \in Entries |-> 0] /\ failed = {}
  /\ \E some \in SUBSET Players, final \in BOOLEAN, w \in Points :
       facts = [p \in Players |-> IF p \in some THEN [points |-> w, final |-> final] ELSE NoPoints]
  /\ writes = 0 /\ request = Idle /\ answer = Idle

Analyse == \/ ReadMembers \/ ReadFailures \/ ReadPoints \/ ReadStandings \/ ReadPicks
           \/ ReadFacts \/ ReadMeta \/ Weigh \/ Conclude
Next == Ask \/ Analyse \/ Sync
Spec == Init /\ [][Next]_vars

(* -- properties -------------------------------------------------------------- *)

Ended(kinds) == answer.kind \in kinds /\ answer.stage = "conclude"
LoadedEntries == {answer.loaded[i].entry : i \in DOMAIN answer.loaded}
Selected      == {answer.selected[i] : i \in DOMAIN answer.selected}

(* Types of the stored data; a team shown has an entry the client asked for
   or the selection found. *)
TypeOK ==
  /\ DOMAIN page \subseteq DOMAIN Pages /\ writes \in 0..MaxWrites /\ failed \subseteq Entries
  /\ team \in [Entries -> [team: Teams \cup {NoTeam}, number: 0..MaxWrites]]
  /\ cost \in [Entries -> Costs]
  /\ \A p \in Players : facts[p] = NoPoints \/ facts[p] \in [points: Points, final: BOOLEAN]
  /\ Ended({"compare", "summary"}) => LoadedEntries \subseteq Selected

(* Pages of the standings are stored one by one, and an entry that moved
   between two of them is on both until both were read again: it is selected
   once at most (manager_read_repository.go:160). *)
SelectedOnce == answer.kind \in {"compare", "summary"} => IsInjective(answer.selected)

(* The stored data have their types, and an answer shows the teams that were
   selected, each once. *)
SelectionIsSound == TypeOK /\ SelectedOnce

(* A comparison or summary called actual rests on final points, and on the
   picks of every selected entry; each pick of a compared team has points,
   whatever was written between the queries (manager_service.go:383-423). *)
ActualIsComplete ==
  Ended({"compare", "summary"}) /\ answer.outcome = "actual" =>
    /\ LoadedEntries = Selected
    /\ \A i \in DOMAIN answer.loaded : LET n == answer.loaded[i] IN
         IF answer.kind = "summary" THEN n.state = "actual"
         ELSE answer.points.state = "actual" /\ DOMAIN n.team \subseteq DOMAIN answer.points.of

(* The difference of two teams is explained by their differentials, by the
   players both have with other multipliers, and by the cost of transfers, all
   of one and the same read of points; seen from the other side it is the
   opposite (manager.go:487-489, spec league-team-comparison). *)
DifferenceIsExplained ==
  \A c \in Comparisons(answer) :
    LET of(e) == answer.loaded[CHOOSE i \in DOMAIN answer.loaded : answer.loaded[i].entry = e]
        t == of(c.entry).team  u == of(c.opponent).team
    IN /\ c.difference + c.cost - of(c.opponent).cost
            = c.contribution + SumFunction([p \in c.shared |->
                 Worth(answer.points.of, p) * (t[p].multiplier - u[p].multiplier)])
       /\ \E d \in Comparisons(answer) :
            /\ d.entry = c.opponent /\ d.opponent = c.entry
            /\ d.difference = -c.difference /\ d.contribution = -c.contribution
            /\ d.shared = c.shared /\ d.overlap = c.overlap

(* When no sync wrote while the autopsy read, the points it shows for the team
   are the sum of the contributions it lists (manager_service.go:505-547). *)
AddsUp == answer.loaded[1].gross = SumFunction(Contributions(answer))
QuietAutopsyAddsUp ==
  Ended({"autopsy"}) /\ answer.missing = {} /\ writes = answer.since => AddsUp

(* The specification of comparisons asks for identical player and gameweek
   inputs: the total and the contributions of an autopsy agree. *)
AutopsyAddsUp == Ended({"autopsy"}) /\ answer.missing = {} => AddsUp

(* The specification of comparisons: incomplete inputs prevent one from being
   represented as complete actual data. *)
ActualMissesNothing == Ended({"compare"}) /\ answer.outcome = "actual" => answer.missing = {}
=============================================================================
