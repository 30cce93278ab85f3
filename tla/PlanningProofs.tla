---------------------------- MODULE PlanningProofs ----------------------------
(***************************************************************************)
(* What holds of Planning for any number of tabs, squads, active teams,    *)
(* public syncs, requests and failing statements, and whatever the rules   *)
(* of a squad say: the saved plan obeys them in a season its request saw,  *)
(* an active team is written over it once, and stored data change only to  *)
(* what was confirmed.                                                     *)
(*                                                                         *)
(* The invariant follows a request that saves: from the moment it has been *)
(* decided the squad it carries is legal, and an import carries the team   *)
(* it named.  For what is answered it adds that simulations have a         *)
(* deadline and that what they store is possible (Outcomes); there the     *)
(* rules are looked into: a squad they accept is one that was saved, since *)
(* a line-up of other players than the squad's is refused, and transfers   *)
(* keep a squad together.                                                  *)
(*                                                                         *)
(* Advice is proved about at the end, for any season and any legal squad:  *)
(* transfers of a simulation are accounted for, player by player and price *)
(* by price, and no line-up of the squad scores more than the recommended  *)
(* one, whose captains are its two best.                                   *)
(***************************************************************************)
EXTENDS Planning, Advice, CollectionTheorems

\* A request is a record with these fields.
Fields == {"kind", "squad", "team", "mode", "confirmed", "input", "cutoff", "prices", "excluded",
           "fixtures", "market", "row", "players", "lineup", "found", "stage"}
IsRequest(r) == r = [f \in Fields |-> r[f]]

\* Squad n was legal in one of the first m seasons.
LegalBy(n, m) == \E v \in 1 .. m : <<v, n>> \in Legal

\* A request that may still save, when there have been m public syncs.
Saving(r, m) ==
  /\ r.kind \in {"put", "import"} => r.cutoff = 0 /\ r.market \in 1 .. m
  /\ r.kind = "put" => r.mode = "none" /\ r.stage \in {"decide", "find", "write"}
  /\ r.kind = "import" => /\ r.team \in DOMAIN Teams /\ r.mode \in {"draft", "replace"}
                          /\ r.stage \in {"team", "event", "find", "write"}
  /\ r.stage = "team" => r.kind \in {"preview", "import"}
  /\ r.stage = "store" => r.kind = "scenario"
  /\ r.stage \in {"event", "find", "write"} =>
       /\ r.kind \in {"put", "import"} /\ LegalBy(r.squad, m)
       /\ r.kind = "import" => r.squad = TeamNumber(r.team) /\ (r.mode = "replace" => r.confirmed)

Good(r, m) == r = Idle \/ (IsRequest(r) /\ r.stage # "none" /\ Saving(r, m))

Inv ==
  /\ market \in Nat
  /\ plan # 0 => LegalBy(plan, market)
  /\ request = [t \in Tabs |-> request[t]]
  /\ \A t \in Tabs : Good(request[t], market)
  /\ replaced \in [DOMAIN Teams -> {0, 1}]
  /\ \A s \in DOMAIN Teams : replaced[s] = 1 => <<s, "replace">> \in imports

-----------------------------------------------------------------------------
(* Requests.                                                               *)

\* What was legal stays so: the seasons a request has seen do not change.
LEMMA LegalStays ==
  ASSUME NEW m \in Nat, NEW q \in Nat, m <= q, NEW n, LegalBy(n, m)
  PROVE  LegalBy(n, q)
BY DEF LegalBy

LEMMA GoodStays ==
  ASSUME NEW m \in Nat, NEW q \in Nat, m <= q, NEW r, Good(r, m)
  PROVE  Good(r, q)
<1>1. r.market \in 1 .. m => r.market \in 1 .. q
  OBVIOUS
<1> QED
  BY <1>1, LegalStays DEF Good, Saving

\* A request in one of its stages is one.
LEMMA AtRequest ==
  ASSUME NEW t \in Tabs, NEW stage, At(t, stage), Inv
  PROVE  IsRequest(request[t]) /\ Saving(request[t], market) /\ request[t].stage = stage
BY DEF At, Inv, Good

\* What becomes of the invariant when one request moves on and nothing is saved.
LEMMA Moves ==
  ASSUME Inv, NEW t \in Tabs, NEW r, Goto(t, r), Good(r, market), UNCHANGED saved, market' = market
  PROVE  Inv'
BY DEF Inv, Goto, saved

LEMMA Answers ==
  ASSUME Inv, NEW t \in Tabs, NEW a, Answer(t, a), UNCHANGED saved, market' = market
  PROVE  Inv'
BY DEF Inv, Answer, saved, Good

\* The requests that arrive.
LEMMA NewRequests ==
  ASSUME NEW kind
  PROVE  /\ IsRequest(NewRequest(kind)) /\ NewRequest(kind).kind = kind
         /\ NewRequest(kind).cutoff = 0 /\ NewRequest(kind).mode = "none"
BY DEF NewRequest, IsRequest, Fields

LEMMA NewPut ==
  ASSUME NEW n
  PROVE  IsRequest(Put(n)) /\ Put(n).kind = "put" /\ Put(n).cutoff = 0 /\ Put(n).mode = "none"
BY DEF Put, NewRequest, IsRequest, Fields

LEMMA NewImport ==
  ASSUME NEW s, NEW mode, NEW c
  PROVE  LET r == Import(s, mode, c) IN
         IsRequest(r) /\ r.kind = "import" /\ r.cutoff = 0 /\ r.team = s /\ r.mode = mode
BY DEF Import, NewRequest, IsRequest, Fields

\* A season is read.
LEMMA MarketRead ==
  ASSUME Inv, NEW t \in Tabs, NEW r, IsRequest(r), ReadMarket(t, r), UNCHANGED saved, market' = market, market > 0,
         r.kind \in {"put", "import"} => r.cutoff = 0,
         r.kind = "put" => r.mode = "none",
         r.kind = "import" => r.team \in DOMAIN Teams /\ r.mode \in {"draft", "replace"}
  PROVE  Inv'
<1> DEFINE new == [r EXCEPT !.market = market, !.stage = AfterMarket(r.kind)]
<1>1. /\ IsRequest(new) /\ new.kind = r.kind /\ new.mode = r.mode /\ new.team = r.team /\ new.cutoff = r.cutoff
      /\ new.market = market /\ new.stage = AfterMarket(r.kind)
  BY DEF IsRequest, Fields
<1>2. market \in 1 .. market
  BY DEF Inv
<1>3. /\ r.kind = "put" => AfterMarket(r.kind) = "decide"
      /\ r.kind = "import" => AfterMarket(r.kind) = "team"
      /\ AfterMarket(r.kind) = "team" => r.kind \in {"preview", "import"}
      /\ AfterMarket(r.kind) \in {"decide", "team", "row"}
  BY DEF AfterMarket
<1> HIDE DEF new
<1>4. Good(new, market)
  BY <1>1, <1>2, <1>3 DEF Good, Saving
<1>5. Goto(t, new)
  BY DEF ReadMarket, new
<1> QED
  BY <1>4, <1>5, Moves
\* A request arrives.
LEMMA ArriveStep ==
  ASSUME Inv, market > 0, NEW t \in Tabs, Arrive(t)
  PROVE  Inv'
<1>1. UNCHANGED saved /\ market' = market
  BY DEF Arrive, facts, public
<1>2. CASE Asks(t)
  <2>1. ASSUME NEW kind \in {"recommend", "preview"}, ReadMarket(t, NewRequest(kind)) PROVE Inv'
    BY <1>1, <2>1, NewRequests, MarketRead
  <2>2. ASSUME NEW n \in DOMAIN Squads, ReadMarket(t, Put(n)) PROVE Inv'
    BY <1>1, <2>2, NewPut, MarketRead
  <2>3. ASSUME NEW s \in DOMAIN Teams, NEW mode \in {"draft", "replace"}, NEW c \in BOOLEAN,
               ReadMarket(t, Import(s, mode, c))
        PROVE  Inv'
    BY <1>1, <2>3, NewImport, MarketRead
  <2> QED
    BY <1>2, <2>1, <2>2, <2>3 DEF Asks
<1>3. CASE Simulates(t)
  <2>1. PICK kind \in {"simulate", "scenario"}, i \in Inputs :
          Goto(t, [NewRequest(kind) EXCEPT !.input = i, !.cutoff = cutoff, !.stage = "prices"])
    BY <1>3 DEF Simulates
  <2> DEFINE r == [NewRequest(kind) EXCEPT !.input = i, !.cutoff = cutoff, !.stage = "prices"]
  <2>2. IsRequest(r) /\ r.kind = kind /\ r.stage = "prices"
    BY DEF NewRequest, IsRequest, Fields
  <2> HIDE DEF r
  <2>3. Good(r, market)
    BY <2>2 DEF Good, Saving
  <2>4. Goto(t, r)
    BY <2>1 DEF r
  <2> QED
    BY <1>1, <2>3, <2>4, Moves
<1> QED
  BY <1>2, <1>3 DEF Arrive

\* A request that does not save moves on: nothing is asked of it.
LEMMA Reads ==
  ASSUME Inv, NEW t \in Tabs, NEW r, Goto(t, r), UNCHANGED saved, market' = market,
         IsRequest(r), r.kind \notin {"put", "import"},
         r.stage \notin {"none", "team", "store", "event", "find", "write"}
  PROVE  Inv'
<1>1. Good(r, market)
  BY DEF Good, Saving
<1> QED
  BY <1>1, Moves

\* The queries before a decision.
LEMMA QuerySteps ==
  ASSUME Inv, market > 0, NEW t \in Tabs, UNCHANGED saved, market' = market,
         \/ ReadPrices(t) \/ CountExcluded(t) \/ ReadFixtures(t) \/ ReadSeason(t)
         \/ ReadRow(t) \/ ReadPlayers(t) \/ ReadLineup(t)
  PROVE  Inv'
<1> DEFINE r == request[t]
<1>1. PICK stage \in {"prices", "excluded", "fixtures", "market", "row", "players", "lineup"} : At(t, stage)
  BY DEF ReadPrices, CountExcluded, ReadFixtures, ReadSeason, ReadRow, ReadPlayers, ReadLineup
<1>2. IsRequest(r) /\ Saving(r, market) /\ r.stage = stage
  BY <1>1, AtRequest
<1>3. r.kind \notin {"put", "import"}
  BY <1>2 DEF Saving
<1> HIDE DEF r
<1>4. CASE CountExcluded(t)
  <2> DEFINE new == [r EXCEPT !.excluded = late # {}, !.stage = "fixtures"]
  <2>1. IsRequest(new) /\ new.kind = r.kind /\ new.stage = "fixtures"
    BY <1>2 DEF IsRequest, Fields
  <2>2. Goto(t, new)
    BY <1>4 DEF CountExcluded, r
  <2> QED
    BY <1>3, <2>1, <2>2, Reads
<1>5. CASE ReadFixtures(t)
  <2> DEFINE new == [r EXCEPT !.fixtures = Fixtures \ late, !.stage = "market"]
  <2>1. IsRequest(new) /\ new.kind = r.kind /\ new.stage = "market"
    BY <1>2 DEF IsRequest, Fields
  <2>2. Goto(t, new) \/ Refuse(t)
    BY <1>5 DEF ReadFixtures, r
  <2> QED
    BY <1>3, <2>1, <2>2, Reads, Answers DEF Refuse
<1>6. CASE ReadSeason(t)
  BY <1>2, <1>3, <1>6, MarketRead DEF ReadSeason, r
<1>7. CASE ReadRow(t)
  <2>1. PICK next \in {"decide", "players"} : Goto(t, [r EXCEPT !.row = plan, !.stage = next])
    BY <1>7 DEF ReadRow, r
  <2> DEFINE new == [r EXCEPT !.row = plan, !.stage = next]
  <2>2. IsRequest(new) /\ new.kind = r.kind /\ new.stage = next
    BY <1>2 DEF IsRequest, Fields
  <2> QED
    BY <1>3, <2>1, <2>2, Reads
<1>8. CASE ReadPlayers(t)
  <2> DEFINE new == [r EXCEPT !.players = plan, !.stage = "lineup"]
  <2>1. IsRequest(new) /\ new.kind = r.kind /\ new.stage = "lineup"
    BY <1>2 DEF IsRequest, Fields
  <2>2. Goto(t, new)
    BY <1>8 DEF ReadPlayers, r
  <2> QED
    BY <1>3, <2>1, <2>2, Reads
<1>9. CASE ReadLineup(t)
  <2> DEFINE new == [r EXCEPT !.lineup = plan, !.stage = "decide"]
  <2>1. IsRequest(new) /\ new.kind = r.kind /\ new.stage = "decide"
    BY <1>2 DEF IsRequest, Fields
  <2>2. Goto(t, new)
    BY <1>9 DEF ReadLineup, r
  <2> QED
    BY <1>3, <2>1, <2>2, Reads
<1>10. CASE ReadPrices(t)
  <2> DEFINE new == [r EXCEPT !.prices = r.cutoff, !.stage = "excluded"]
  <2>1. IsRequest(new) /\ new.kind = r.kind /\ new.stage = "excluded"
    BY <1>2 DEF IsRequest, Fields
  <2>2. Goto(t, new) \/ Refuse(t)
    BY <1>10 DEF ReadPrices, r
  <2> QED
    BY <1>3, <2>1, <2>2, Reads, Answers DEF Refuse
<1> QED
  BY <1>4, <1>5, <1>6, <1>7, <1>8, <1>9, <1>10

\* The next stage of a request that keeps everything else.
LEMMA NextStage ==
  ASSUME NEW r, IsRequest(r), NEW stage
  PROVE  LET new == [r EXCEPT !.stage = stage] IN
         /\ IsRequest(new) /\ new.stage = stage
         /\ new.kind = r.kind /\ new.cutoff = r.cutoff /\ new.prices = r.prices /\ new.market = r.market /\ new.mode = r.mode
         /\ new.team = r.team /\ new.squad = r.squad /\ new.confirmed = r.confirmed
BY DEF IsRequest, Fields

\* A squad is decided about: what goes on to be saved is legal.
LEMMA DecideStep ==
  ASSUME Inv, NEW t \in Tabs, Decide(t), UNCHANGED saved, market' = market
  PROVE  Inv'
<1> DEFINE r == request[t]
<1>1. IsRequest(r) /\ Saving(r, market) /\ r.stage = "decide"
  BY AtRequest DEF Decide
<1>2. CASE r.kind = "put" /\ Step(t, "find") /\ <<MarketOf(r), r.squad>> \in Legal
  <2> DEFINE new == [r EXCEPT !.stage = "find"]
  <2>1. LegalBy(r.squad, market)
    BY <1>1, <1>2 DEF MarketOf, Saving, LegalBy
  <2> HIDE DEF r
  <2>2. Good(new, market)
    BY <1>1, <1>2, <2>1, NextStage DEF Good, Saving
  <2>3. Goto(t, new)
    BY <1>2 DEF Step, r
  <2> QED
    BY <2>2, <2>3, Moves
<1>3. CASE r.kind = "scenario" /\ Step(t, "store")
  <2> DEFINE new == [r EXCEPT !.stage = "store"]
  <2> HIDE DEF r
  <2>2. Good(new, market)
    BY <1>1, <1>3, NextStage DEF Good, Saving
  <2>3. Goto(t, new)
    BY <1>3 DEF Step, r
  <2> QED
    BY <2>2, <2>3, Moves
<1>4. CASE Refuse(t) \/ Answer(t, [kind |-> r.kind, ok |-> TRUE, read |-> r])
  BY <1>4, Answers DEF Refuse
<1> QED
  BY <1>2, <1>3, <1>4 DEF Decide

\* The active team is read: an import that goes on names it, and it is legal.
LEMMA TeamStep ==
  ASSUME Inv, NEW t \in Tabs, ReadTeam(t), UNCHANGED saved, market' = market
  PROVE  Inv'
<1> DEFINE r == request[t]
<1>1. IsRequest(r) /\ Saving(r, market) /\ r.stage = "team"
  BY AtRequest DEF ReadTeam
<1>2. CASE Refuse(t) \/ Preview(t, latest)
  BY <1>2, Answers DEF Refuse, Preview
<1>3. CASE r.kind # "preview" /\ MayImport(r) /\ Goto(t, [r EXCEPT !.squad = TeamNumber(latest), !.stage = "event"])
  <2> DEFINE new == [r EXCEPT !.squad = TeamNumber(latest), !.stage = "event"]
  <2>1. r.kind = "import" /\ r.cutoff = 0 /\ r.market \in 1 .. market
    BY <1>1, <1>3 DEF Saving
  <2>2. LegalBy(TeamNumber(latest), market) /\ latest = r.team /\ (r.mode = "replace" => r.confirmed)
    BY <1>3, <2>1 DEF MayImport, MarketOf, LegalBy
  <2> HIDE DEF r
  <2>3. /\ IsRequest(new) /\ new.stage = "event" /\ new.squad = TeamNumber(latest)
        /\ new.kind = r.kind /\ new.cutoff = r.cutoff /\ new.market = r.market /\ new.mode = r.mode
        /\ new.team = r.team /\ new.confirmed = r.confirmed
    BY <1>1 DEF IsRequest, Fields
  <2>4. Goto(t, new)
    BY <1>3
  <2> HIDE DEF new
  <2>5. Good(new, market)
    BY <1>1, <2>1, <2>2, <2>3 DEF Good, Saving
  <2> QED
    BY <2>4, <2>5, Moves
<1> QED
  BY <1>2, <1>3 DEF ReadTeam

\* The stages between the team and the write.
LEMMA EventStep ==
  ASSUME Inv, NEW t \in Tabs, UNCHANGED saved, market' = market, FindEvent(t)
  PROVE  Inv'
<1> DEFINE r == request[t]
<1>1. IsRequest(r) /\ Saving(r, market) /\ r.stage = "event"
  BY AtRequest DEF FindEvent
<1>2. CASE Answer(t, [kind |-> "import", ok |-> TRUE, read |-> r])
  BY <1>2, Answers
<1>3. ASSUME NEW stage \in {"write", "find"}, Step(t, stage) PROVE Inv'
  <2> DEFINE new == [r EXCEPT !.stage = stage]
  <2>1. Goto(t, new)
    BY <1>3 DEF Step
  <2>2. r.kind = "import"
    BY <1>1 DEF Saving
  <2> HIDE DEF r
  <2>3. Good(new, market)
    BY <1>1, <2>2, NextStage DEF Good, Saving
  <2> QED
    BY <2>1, <2>3, Moves
<1> QED
  BY <1>2, <1>3 DEF FindEvent

LEMMA FindStep ==
  ASSUME Inv, NEW t \in Tabs, FindPlan(t)
  PROVE  Inv'
<1> DEFINE r == request[t]
           new == [r EXCEPT !.found = plan # 0, !.stage = "write"]
<1>1. IsRequest(r) /\ Saving(r, market) /\ r.stage = "find"
  BY AtRequest DEF FindPlan
<1>2. Goto(t, new) /\ UNCHANGED saved /\ market' = market
  BY DEF FindPlan, facts, public
<1> HIDE DEF r
<1>3. /\ IsRequest(new) /\ new.stage = "write"
      /\ new.kind = r.kind /\ new.cutoff = r.cutoff /\ new.market = r.market /\ new.mode = r.mode
      /\ new.team = r.team /\ new.squad = r.squad /\ new.confirmed = r.confirmed
  BY <1>1 DEF IsRequest, Fields
<1> HIDE DEF new
<1>4. Good(new, market)
  BY <1>1, <1>3 DEF Good, Saving
<1> QED
  BY <1>2, <1>4, Moves

-----------------------------------------------------------------------------
(* What is saved.                                                          *)

\* The plan is written with a legal squad, by an import once for each team.
LEMMA CommitStep ==
  ASSUME Inv, NEW t \in Tabs, Commit(t)
  PROVE  Inv'
<1> DEFINE r == request[t]
<1>1. IsRequest(r) /\ Saving(r, market) /\ r.stage = "write"
  BY AtRequest DEF Commit
<1>2. r.kind \in {"put", "import"} /\ LegalBy(r.squad, market)
      /\ (r.kind = "import" => r.team \in DOMAIN Teams /\ r.mode \in {"draft", "replace"})
      /\ (r.kind = "put" => r.mode = "none")
  BY <1>1 DEF Saving
<1>3. market' = market
  BY DEF Commit, facts, public
<1>4. CASE Refuse(t) /\ UNCHANGED <<plan, drafts, imports, replaced>>
  BY <1>4, <1>3, Answers DEF Refuse, saved, Commit, Inv, Answer, Good
<1>5. CASE ~(Refuse(t) /\ UNCHANGED <<plan, drafts, imports, replaced>>)
  <2>1. /\ FirstEvent(r) /\ Answer(t, [kind |-> r.kind, ok |-> TRUE, read |-> r])
        /\ IF r.mode = "draft"
           THEN UNCHANGED <<plan, replaced>>
           ELSE /\ plan' = r.squad
                /\ replaced' = IF r.kind = "put" THEN replaced ELSE [replaced EXCEPT ![r.team] = @ + 1]
        /\ imports' = IF r.kind = "put" THEN imports ELSE imports \cup {<<r.team, r.mode>>}
    BY <1>5 DEF Commit
  <2>2. request' = [request EXCEPT ![t] = Idle]
    BY <2>1 DEF Answer
  <2>3. plan' # 0 => LegalBy(plan', market)
    BY <1>2, <2>1 DEF Inv
  <2>4. request' = [u \in Tabs |-> request'[u]] /\ \A u \in Tabs : Good(request'[u], market)
    BY <2>2 DEF Inv, Good
  <2>5. /\ replaced' \in [DOMAIN Teams -> {0, 1}]
        /\ \A s \in DOMAIN Teams : replaced'[s] = 1 => <<s, "replace">> \in imports'
    <3>1. CASE r.kind = "put" \/ r.mode = "draft"
      BY <1>2, <2>1, <3>1 DEF Inv
    <3>2. CASE r.kind = "import" /\ r.mode = "replace"
      <4>1. replaced[r.team] = 0
        BY <1>2, <2>1, <3>2 DEF Inv, FirstEvent
      <4>2. replaced' = [replaced EXCEPT ![r.team] = 1] /\ imports' = imports \cup {<<r.team, "replace">>}
        BY <2>1, <3>2, <4>1
      <4> QED
        BY <1>2, <4>2, <3>2 DEF Inv
    <3> QED
      BY <1>2, <3>1, <3>2
  <2> QED
    BY <1>3, <2>3, <2>4, <2>5 DEF Inv
<1> QED
  BY <1>4, <1>5

LEMMA StoreStep ==
  ASSUME Inv, NEW t \in Tabs, Store(t)
  PROVE  Inv'
<1>1. UNCHANGED <<plan, imports, replaced, market>> /\ request' = [request EXCEPT ![t] = Idle]
  BY DEF Store, Answer, facts, public
<1> QED
  BY <1>1 DEF Inv, Good

LEMMA FailStep ==
  ASSUME Inv, NEW t \in Tabs, Fail(t)
  PROVE  Inv'
<1> DEFINE r == request[t]
<1>1. UNCHANGED saved /\ market' = market
  BY DEF Fail, facts, public
<1>2. CASE Refuse(t)
  BY <1>1, <1>2, Answers DEF Refuse
<1>3. CASE r.stage = "lineup" /\ Step(t, "decide")
  <2>1. IsRequest(r) /\ Saving(r, market)
    BY <1>3, AtRequest DEF Fail, At
  <2>2. r.kind \notin {"put", "import"}
    BY <1>3, <2>1 DEF Saving
  <2>3. Goto(t, [r EXCEPT !.stage = "decide"])
    BY <1>3 DEF Step
  <2> HIDE DEF r
  <2> QED
    BY <1>1, <2>1, <2>2, <2>3, NextStage, Reads
<1> QED
  BY <1>2, <1>3 DEF Fail

-----------------------------------------------------------------------------
(* Squads.                                                                 *)

\* A list without repetition has as many members as places.
LEMMA ListSize ==
  ASSUME NEW s, IsList(s)
  PROVE  /\ IsFiniteSet(ToSet(s)) /\ Cardinality(ToSet(s)) \in Nat
         /\ IsInjective(s) => Cardinality(ToSet(s)) = Len(s)
<1>1. Len(s) \in Nat /\ s \in [1..Len(s) -> ToSet(s)] /\ DOMAIN s = 1..Len(s)
  BY LenProperties DEF IsList
<1>2. s \in Surjection(1..Len(s), ToSet(s))
  BY <1>1 DEF Surjection, ToSet
<1>3. IsFiniteSet(1..Len(s)) /\ Cardinality(1..Len(s)) = Len(s)
  BY <1>1, FS_Interval
<1>4. IsFiniteSet(ToSet(s))
  BY <1>2, <1>3, FS_Surjection
<1>5. ASSUME IsInjective(s) PROVE Cardinality(ToSet(s)) = Len(s)
  <2>1. s \in Bijection(1..Len(s), ToSet(s))
    BY <1>1, <1>2, <1>5 DEF Bijection, Injection
  <2> QED
    BY <1>3, <2>1, FS_Bijection DEF ExistsBijection
<1> QED
  BY <1>4, <1>5, FS_CardinalityType

\* The rules leave no player of the squad out of the line-up: eleven and four
\* different players of fifteen are all of them.
LEMMA RulesMakeOneSquad ==
  ASSUME NEW d, NEW s, IsSquad(s), ValidateSquad(d, s) = {}, ValidateLineup(d, s) = {}
  PROVE  ToSet(s.starting) \cup ToSet(s.bench) = DOMAIN s.prices
<1> DEFINE P == DOMAIN s.prices
           A == ToSet(s.starting)
           B == ToSet(s.bench)
<1>1. Cardinality(P) = 15
  BY DEF ValidateSquad, Rule
<1>2. Len(s.starting) = 11 /\ Len(s.bench) = 4 /\ A \subseteq P /\ B \subseteq P /\ A \cap B = {}
      /\ IsInjective(s.starting) /\ IsInjective(s.bench)
  BY DEF ValidateLineup, Rule
<1>3. IsFiniteSet(P) /\ IsFiniteSet(A) /\ IsFiniteSet(B) /\ Cardinality(A) = 11 /\ Cardinality(B) = 4
  BY <1>2, ListSize DEF IsSquad
<1> HIDE DEF P, A, B
<1>4. Cardinality(A \cup B) = 15
  <2>1. Cardinality(A \cap B) = 0
    BY <1>2, FS_EmptySet
  <2> QED
    BY <1>3, <2>1, FS_Union
<1>5. A \cup B = P
  BY <1>1, <1>2, <1>3, <1>4, FS_Subset
<1> QED
  BY <1>5 DEF A, B, P

\* Every numbered squad is one, and so is what is loaded of three of them.
LEMMA VersionsAreSquads ==
  ASSUME NEW n \in Numbers
  PROVE  IsSquad(Version[n])
<1>1. Len(Squads) \in Nat /\ Len(Teams) \in Nat /\ n \in 1..(Len(Squads) + Len(Teams))
  BY PlanningAssumption, LenProperties DEF Numbers, IsList
<1>2. CASE n <= Len(Squads)
  <2>1. Version[n] = Squads[n] /\ n \in DOMAIN Squads
    BY <1>1, <1>2, PlanningAssumption, LenProperties DEF Version, IsList
  <2> QED
    BY <2>1, PlanningAssumption
<1>3. CASE n > Len(Squads)
  <2> DEFINE s == n - Len(Squads)
             team == Teams[s]
  <2>1. Version[n] = Proposed(Markets[Len(Markets)], team) /\ s \in DOMAIN Teams
    BY <1>1, <1>3, PlanningAssumption, LenProperties DEF Version, IsList
  <2>2. IsList(team.picks) /\ IsFiniteSet(DOMAIN team.prices)
    BY <2>1, PlanningAssumption
  <2> HIDE DEF s, team
  <2> DEFINE ids(r) == [i \in DOMAIN r |-> r[i].player]
  <2>3. ASSUME NEW I PROVE IsList(ids(Subsequence(team.picks, I)))
    <3> DEFINE r == Subsequence(team.picks, I)
    <3>1. r \in Seq(ToSet(team.picks))
      BY <2>2, SubsequenceFacts DEF IsList
    <3>2. Len(r) \in Nat /\ DOMAIN r = 1..Len(r)
      BY <3>1, LenProperties
    <3> HIDE DEF r
    <3>3. ids(r) \in [1..Len(r) -> ToSet(ids(r))]
      BY <3>2 DEF ToSet
    <3>4. ids(r) \in Seq(ToSet(ids(r)))
      BY <3>2, <3>3, IsASeq
    <3> QED
      BY <3>4 DEF IsList, r
  <2>4. /\ Version[n].starting = ids(Subsequence(team.picks, {i \in DOMAIN team.picks : team.picks[i].multiplier > 0}))
        /\ Version[n].bench = ids(Subsequence(team.picks, {i \in DOMAIN team.picks : team.picks[i].multiplier <= 0}))
    BY ONLY <2>1, SMTT(60) DEF Proposed
  <2>5. DOMAIN Version[n] = DOMAIN NoSquad /\ Version[n].prices = team.prices
    BY ONLY <2>1, SMTT(60) DEF Proposed, NoSquad
  <2> HIDE DEF ids
  <2> QED
    BY <2>2, <2>3, <2>4, <2>5 DEF IsSquad
<1> QED
  BY <1>1, <1>2, <1>3

LEMMA NoSquadIsOne == IsSquad(NoSquad)
<1>1. ToSet(<<>>) = {} /\ <<>> \in Seq({})
  BY DEF ToSet
<1>2. DOMAIN <<>> = {} /\ IsFiniteSet({})
  BY FS_EmptySet
<1> QED
  BY <1>1, <1>2 DEF IsSquad, IsList, NoSquad

LEMMA LoadedSquads ==
  ASSUME NEW b \in Bases
  PROVE  /\ IsSquad(Load(b))
         /\ 0 \in {b[1], b[2]} => DOMAIN Load(b).prices = {}
<1>1. \A k \in 1..3 : b[k] # 0 => b[k] \in Numbers
  BY DEF Bases
<1> DEFINE lineup == IF b[3] = 0 THEN NoSquad ELSE Version[b[3]]
<1>2. IsSquad(lineup)
  BY <1>1, NoSquadIsOne, VersionsAreSquads
<1>3. CASE 0 \in {b[1], b[2]}
  BY <1>3, NoSquadIsOne DEF Load, NoSquad
<1>4. CASE 0 \notin {b[1], b[2]}
  <2>1. Load(b) = [lineup EXCEPT !.prices = Version[b[2]].prices, !.budget = Version[b[1]].budget]
    BY <1>4 DEF Load
  <2>2. IsFiniteSet(DOMAIN Version[b[2]].prices)
    BY <1>1, <1>4, VersionsAreSquads DEF IsSquad
  <2> HIDE DEF lineup
  <2>3. /\ DOMAIN Load(b) = DOMAIN lineup /\ Load(b).starting = lineup.starting
        /\ Load(b).bench = lineup.bench /\ Load(b).prices = Version[b[2]].prices
    BY <1>2, <2>1 DEF IsSquad, NoSquad
  <2> QED
    BY <1>2, <1>4, <2>2, <2>3 DEF IsSquad
<1> QED
  BY <1>3, <1>4

-----------------------------------------------------------------------------
(* Transfers.                                                              *)

Untouched(before) == [prices |-> before.prices, outs |-> {}, ins |-> {}, errors |-> {}]

\* The states between the transfers.
Played(state, d, before, moves) ==
  /\ state[0] = Untouched(before)
  /\ \A k \in 1..Len(moves) : state[k] = Transfer(d, state[k - 1], moves[k])

\* There is a function that satisfies the recursive definition.
LEMMA TransfersArePlayed ==
  ASSUME NEW d, NEW before, NEW moves, Len(moves) \in Nat
  PROVE  \E state : Transferred(d, before, moves) = state[Len(moves)] /\ Played(state, d, before, moves)
<1> DEFINE E(n, h) == h = [k \in 0..n |->
             IF k = 0 THEN Untouched(before) ELSE Transfer(d, h[k - 1], moves[k])]
           bad == {n \in Nat : ~ \E h : E(n, h)}
<1>1. ASSUME bad # {}
      PROVE  FALSE
  <2>1. PICK n \in bad : \A m \in bad : n <= m
    BY <1>1, LeastNumber
  <2>2. n # 0
    <3> DEFINE h == [k \in 0..0 |-> Untouched(before)]
    <3>1. E(0, h)
      OBVIOUS
    <3> QED
      BY <3>1
  <2>3. n - 1 \in Nat /\ n \in Nat /\ ~ (n <= n - 1)
    BY <2>2
  <2>4. PICK h : E(n - 1, h)
    <3>1. n - 1 \notin bad
      BY <2>1, <2>3
    <3> HIDE DEF E
    <3> QED
      BY <2>3, <3>1
  <2> DEFINE g == [k \in 0..n |-> IF k = n THEN Transfer(d, h[n - 1], moves[n]) ELSE h[k]]
  <2>5. ASSUME NEW k \in 0..n
        PROVE  g[k] = IF k = 0 THEN Untouched(before) ELSE Transfer(d, g[k - 1], moves[k])
    <3>1. CASE k = n
      BY <2>2, <2>3, <3>1
    <3>2. CASE k # n
      <4>1. k \in 0..(n - 1) /\ g[k] = h[k] /\ (k # 0 => g[k - 1] = h[k - 1])
        BY <2>3, <3>2
      <4> QED
        BY <2>4, <4>1
    <3> QED
      BY <3>1, <3>2
  <2>6. E(n, g)
    <3>1. g = [k \in 0..n |-> g[k]]
      OBVIOUS
    <3> HIDE DEF g
    <3> QED
      BY <2>5, <3>1
  <2> QED
    BY <2>1, <2>6
<1>2. \E h : E(Len(moves), h)
  <2> HIDE DEF E
  <2> QED
    BY <1>1
<1>3. PICK state : state = CHOOSE h : E(Len(moves), h)
  OBVIOUS
<1>4. E(Len(moves), state)
  BY <1>2, <1>3
<1>5. Transferred(d, before, moves) = state[Len(moves)]
  BY <1>3 DEF Transferred, Untouched
<1>6. \A k \in 0..Len(moves) : state[k] =
        IF k = 0 THEN Untouched(before) ELSE Transfer(d, state[k - 1], moves[k])
  BY <1>4
<1> HIDE DEF E
<1>7. state[0] = Untouched(before)
  BY <1>6
<1>8. \A k \in 1..Len(moves) : state[k] = Transfer(d, state[k - 1], moves[k])
  BY <1>6
<1> QED
  BY <1>5, <1>7, <1>8 DEF Played

\* A state has these fields, and prices of finitely many players.
IsState(x) == DOMAIN x = {"prices", "outs", "ins", "errors"} /\ IsFiniteSet(DOMAIN x.prices)

\* A transfer that finds no error and leaves none: it brings in somebody new at
\* his price and sends away somebody who was there.
Exchange(d, x, m, y) ==
  /\ x.errors = {} /\ m.out \in DOMAIN x.prices \ x.outs /\ m.in \in DOMAIN d \ DOMAIN x.prices
  /\ m.in \notin x.ins /\ y.ins = x.ins \cup {m.in} /\ y.outs = x.outs \cup {m.out}
  /\ DOMAIN y.prices = (DOMAIN x.prices \ {m.out}) \cup {m.in}
  /\ y.prices[m.in] = d[m.in].price
  /\ \A p \in DOMAIN y.prices : p # m.in => y.prices[p] = x.prices[p]

LEMMA TransferFacts ==
  ASSUME NEW d, NEW x, IsState(x), NEW m, NEW y, y = Transfer(d, x, m)
  PROVE  /\ IsState(y)
         /\ y.errors = {} => Exchange(d, x, m, y)
<1> DEFINE Allowed == /\ m.out \in DOMAIN x.prices \ x.outs /\ m.in \notin x.ins
                      /\ m.in \in DOMAIN d \ DOMAIN x.prices
<1>1. CASE y = ApplyMove(d, x, m) /\ Allowed
  <2>1. DOMAIN y = DOMAIN x /\ y.errors = x.errors /\ y.ins = x.ins \cup {m.in}
        /\ y.outs = x.outs \cup {m.out} /\ y.prices = Exchanged(x.prices, m, d[m.in].price)
    BY <1>1 DEF ApplyMove, IsState
  <2>2. /\ DOMAIN y.prices = (DOMAIN x.prices \ {m.out}) \cup {m.in}
        /\ y.prices[m.in] = d[m.in].price
        /\ \A p \in DOMAIN y.prices : p # m.in => y.prices[p] = x.prices[p]
    BY <2>1 DEF Exchanged
  <2>3. IsFiniteSet(DOMAIN y.prices)
    <3>1. IsFiniteSet(DOMAIN x.prices \ {m.out})
      BY FS_RemoveElement DEF IsState
    <3>2. IsFiniteSet((DOMAIN x.prices \ {m.out}) \cup {m.in})
      BY <3>1, FS_AddElement
    <3> QED
      BY <2>2, <3>2
  <2> QED
    BY <1>1, <2>1, <2>2, <2>3 DEF IsState, Exchange
<1>2. ASSUME NEW code, \/ y = [x EXCEPT !.errors = @ \cup {code}]
                       \/ y = [x EXCEPT !.errors = @ \cup {code}, !.outs = @ \cup {m.out}, !.ins = @ \cup {m.in}]
      PROVE  IsState(y) /\ y.errors # {}
  <2>1. DOMAIN y = DOMAIN x /\ y.prices = x.prices /\ y.errors = x.errors \cup {code}
    BY <1>2 DEF IsState
  <2> QED
    BY <2>1 DEF IsState
<1>3. \/ y = ApplyMove(d, x, m) /\ Allowed
      \/ \E code : \/ y = [x EXCEPT !.errors = @ \cup {code}]
                   \/ y = [x EXCEPT !.errors = @ \cup {code}, !.outs = @ \cup {m.out}, !.ins = @ \cup {m.in}]
  BY DEF Transfer
<1>4. (y = ApplyMove(d, x, m) /\ Allowed) \/ (IsState(y) /\ y.errors # {})
  BY <1>2, <1>3
<1> QED
  BY <1>1, <1>4

\* What holds after the first k transfers when none of them failed.
Priced(x, d, moves, k) ==
  /\ IsState(x)
  /\ x.errors = {} => \A j \in 1..k :
       LET p == moves[j].in IN p \in x.ins /\ (p \in DOMAIN x.prices => x.prices[p] = d[p].price)

\* The players brought in have the price of the domain, and the first one sent
\* away was in the squad.
LEMMA TransferredFacts ==
  ASSUME NEW d, NEW before, IsFiniteSet(DOMAIN before.prices), NEW moves, Len(moves) \in Nat
  PROVE  LET end == Transferred(d, before, moves) IN
         /\ Priced(end, d, moves, Len(moves))
         /\ end.errors = {} /\ Len(moves) > 0 => DOMAIN before.prices # {}
<1> DEFINE n == Len(moves)
<1>1. PICK state : Transferred(d, before, moves) = state[n] /\ Played(state, d, before, moves)
  BY TransfersArePlayed
<1> DEFINE T(k) == /\ Priced(state[k], d, moves, k)
                   /\ state[k].errors = {} /\ k > 0 => DOMAIN before.prices # {}
           G == {k \in Nat : k <= n => T(k)}
<1>2. T(0)
  <2>1. IsState(Untouched(before))
    BY DEF IsState, Untouched
  <2>2. state[0] = Untouched(before)
    BY <1>1 DEF Played
  <2> QED
    BY <2>1, <2>2 DEF Priced
<1>3. ASSUME NEW k \in Nat, k + 1 <= n, T(k) PROVE T(k + 1)
  <2>0. PICK x, y, m : x = state[k] /\ y = state[k + 1] /\ m = moves[k + 1]
    OBVIOUS
  <2>1. y = Transfer(d, x, m)
    <3>1. k + 1 \in 1..n /\ (k + 1) - 1 = k
      BY <1>3
    <3> QED
      BY <1>1, <2>0, <3>1 DEF Played
  <2>2. IsState(x)
    BY <1>3, <2>0 DEF Priced
  <2>3. /\ IsState(y)
        /\ y.errors = {} => Exchange(d, x, m, y)
    BY <2>1, <2>2, TransferFacts
  <2>4. ASSUME y.errors = {}, NEW j \in 1..(k + 1)
        PROVE  LET p == moves[j].in IN p \in y.ins /\ (p \in DOMAIN y.prices => y.prices[p] = d[p].price)
    <3> DEFINE p == moves[j].in
    <3>1. CASE j = k + 1
      BY <2>0, <2>3, <2>4, <3>1 DEF Exchange
    <3>2. CASE j # k + 1
      <4>1. j \in 1..k
        BY <3>2
      <4>2. p \in x.ins /\ (p \in DOMAIN x.prices => x.prices[p] = d[p].price)
        BY <1>3, <2>0, <2>3, <2>4, <4>1 DEF Priced, Exchange
      <4> HIDE DEF p
      <4>3. p \in y.ins /\ p # m.in
        BY <2>3, <2>4, <4>2 DEF Exchange
      <4>4. p \in DOMAIN y.prices => p \in DOMAIN x.prices /\ y.prices[p] = x.prices[p]
        BY <2>3, <2>4, <4>3 DEF Exchange
      <4>5. p \in y.ins /\ (p \in DOMAIN y.prices => y.prices[p] = d[p].price)
        BY <4>2, <4>3, <4>4
      <4> QED
        BY <4>5 DEF p
    <3> QED
      BY <3>1, <3>2
  <2>5. y.errors = {} => DOMAIN before.prices # {}
    <3>1. CASE k = 0
      <4>1. x = Untouched(before)
        BY <1>1, <2>0, <3>1 DEF Played
      <4>2. x.prices = before.prices
        BY <4>1 DEF Untouched
      <4> QED
        BY <2>3, <4>2 DEF Exchange
    <3>2. CASE k > 0
      BY <1>3, <2>0, <2>3, <3>2 DEF Exchange
    <3> QED
      BY <3>1, <3>2
  <2> QED
    BY <2>0, <2>3, <2>4, <2>5 DEF Priced
<1>4. 0 \in G /\ \A k \in Nat : k \in G => k + 1 \in G
  <2> HIDE DEF T
  <2> QED
    BY <1>2, <1>3
<1>5. n \in G
  <2> HIDE DEF G
  <2> QED
    BY <1>4, InductiveSet
<1> QED
  BY <1>1, <1>5

\* Who was brought in and stayed cost what the domain says.
BoughtAt(d, moves, after) ==
  \A i \in DOMAIN moves : LET p == moves[i].in IN
    p \in DOMAIN after.prices => after.prices[p] = d[p].price

\* What a simulation without errors says.
LEMMA SimulationFacts ==
  ASSUME NEW d, NEW before, IsSquad(before), NEW input,
         IsList(input.moves), IsList(input.starting), IsList(input.bench),
         SimulateTransfers(d, before, input).errors = {}
  PROVE  LET after == SimulateTransfers(d, before, input).after IN
         /\ OneSquad(after)
         /\ DOMAIN before.prices # {}
         /\ BoughtAt(d, input.moves, after)
<1> DEFINE end == Transferred(d, before, input.moves)
           r == SimulateTransfers(d, before, input)
<1>1. PICK n \in Nat : n = Len(input.moves) /\ DOMAIN input.moves = 1..n
  BY LenProperties DEF IsList
<1>2. /\ Priced(end, d, input.moves, n)
      /\ end.errors = {} /\ n > 0 => DOMAIN before.prices # {}
  BY <1>1, TransferredFacts DEF IsSquad
<1>3. /\ end.errors = {} /\ ValidatePlan(d, r.after) = {} /\ n \in 1..5
  BY <1>1 DEF SimulateTransfers, Rule
<1>4. /\ DOMAIN r.after = DOMAIN before /\ r.after.prices = end.prices
      /\ r.after.starting = input.starting \/
           r.after.starting = [i \in DOMAIN before.starting |-> Successor(input.moves, before.starting[i])]
      /\ r.after.bench = input.bench \/
           r.after.bench = [i \in DOMAIN before.bench |-> Successor(input.moves, before.bench[i])]
  BY DEF SimulateTransfers, IsSquad, NoSquad
<1> HIDE DEF end, r
<1>5. ASSUME NEW s, IsList(s) PROVE IsList([i \in DOMAIN s |-> Successor(input.moves, s[i])])
  <2> DEFINE q == [i \in DOMAIN s |-> Successor(input.moves, s[i])]
  <2>1. Len(s) \in Nat /\ DOMAIN s = 1..Len(s)
    BY <1>5, LenProperties DEF IsList
  <2>2. q \in [1..Len(s) -> ToSet(q)]
    BY <2>1 DEF ToSet
  <2>3. q \in Seq(ToSet(q))
    BY <2>1, <2>2, IsASeq
  <2> QED
    BY <2>3 DEF IsList
<1>6. IsSquad(r.after)
  BY <1>2, <1>4, <1>5 DEF IsSquad, Priced, IsState
<1>7. OneSquad(r.after)
  BY <1>3, <1>6, RulesMakeOneSquad DEF ValidatePlan, OneSquad
<1>8. BoughtAt(d, input.moves, r.after)
  BY <1>1, <1>2, <1>3, <1>4 DEF Priced, BoughtAt
<1>9. DOMAIN before.prices # {}
  BY <1>2, <1>3
<1> QED
  BY <1>7, <1>8, <1>9 DEF r

-----------------------------------------------------------------------------
(* The theorems.                                                           *)

\* The season and what is synchronised; the number of public syncs only grows.
Seasoned == market \in Nat \ {0}

LEMMA SyncsStep ==
  ASSUME Inv, Syncs
  PROVE  Inv' /\ market' \in {market, market + 1}
<1>1. UNCHANGED <<saved, request>> /\ market' \in {market, market + 1}
  BY DEF Syncs, TeamSync, Public, PublicFetch, PublicUpsert, PublicSnapshot, PublicPlayers, PublicFails, Deadline, public
<1>2. market \in Nat /\ market' \in Nat /\ market <= market'
  BY <1>1 DEF Inv
<1> QED
  BY <1>1, <1>2, GoodStays, LegalStays DEF Inv, saved

LEMMA InitInv == Init => Inv /\ Seasoned
<1> SUFFICES ASSUME Init PROVE Inv /\ Seasoned
  OBVIOUS
<1>1. plan # 0 => LegalBy(plan, market)
  <2> SUFFICES ASSUME plan = 1, market = 1 PROVE \E v \in 1 .. market : <<v, plan>> \in Legal
    BY DEF Init, LegalBy
  <2>1. 1 \in DOMAIN Markets /\ 1 \in DOMAIN Squads /\ Len(Squads) \in Nat /\ Len(Teams) \in Nat /\ 1 <= Len(Squads)
    BY PlanningAssumption DEF IsList
  <2>2. 1 \in Numbers /\ Version[1] = Squads[1]
    BY <2>1 DEF Numbers, Version
  <2>3. 1 \in {k \in Numbers : ValidatePlan(Markets[1], Version[k]) = {}}
    BY <2>2, PlanningAssumption
  <2>4. <<1, 1>> \in Legal
    BY <2>1, <2>3 DEF Legal
  <2> QED
    BY <2>4
<1> QED
  BY <1>1 DEF Init, Inv, Seasoned, Good

LEMMA StepInv == Inv /\ Seasoned /\ [Next]_vars => (Inv /\ Seasoned)'
<1> SUFFICES ASSUME Inv, Seasoned, [Next]_vars PROVE (Inv /\ Seasoned)'
  OBVIOUS
<1>1. CASE Syncs
  BY <1>1, SyncsStep DEF Seasoned
<1>2. ASSUME NEW t \in Tabs, Serve(t) PROVE Inv' /\ market' = market
  <2>1. market' = market
    BY <1>2 DEF Serve, Arrive, FindPlan, Commit, Store, Fail, facts, public
  <2>2. market > 0
    BY DEF Seasoned
  <2>3. CASE Queries(t) /\ UNCHANGED saved
    BY <2>1, <2>2, <2>3, QuerySteps, DecideStep, TeamStep, EventStep DEF Queries
  <2> QED
    BY <1>2, <2>1, <2>2, <2>3, ArriveStep, FindStep, CommitStep, StoreStep, FailStep DEF Serve
<1>3. CASE UNCHANGED vars
  BY <1>3 DEF vars, saved, facts, public, Inv, Seasoned
<1> QED
  BY <1>1, <1>2, <1>3 DEF Next, Seasoned

\* The inductive invariant: what a request carries from its decision to its
\* commit.
THEOREM PlanningInvariant == Spec => [](Inv /\ Seasoned)
BY InitInv, StepInv, PTL DEF Spec

\* The saved plan obeyed every rule in a season the request saw, whatever was
\* saved, imported or synchronised beside it (api.go:1062, manager_service.go:333).
THEOREM SavedPlanIsLegal == Spec => []PlanIsLegal
<1>1. Inv => PlanIsLegal
  BY DEF Inv, PlanIsLegal, LegalBy
<1> QED
  BY <1>1, PlanningInvariant, PTL

\* An active team is written over the plan once, however often and from however
\* many tabs it is confirmed (manager_import_repository.go:19-26, :51).
THEOREM TeamsAreImportedOnce == Spec => []ImportedOnce
<1>1. Inv => ImportedOnce
  BY DEF Inv, ImportedOnce
<1> QED
  BY <1>1, PlanningInvariant, PTL

\* The plan becomes what a client sent or what it named and confirmed, and a
\* stored scenario is never changed (manager_service.go:330,
\* repository_transfer_research.go:114).
THEOREM OnlyWhatWasConfirmed == Spec => StoredAsConfirmed
<1> DEFINE Asked == plan' # plan => \E t \in Tabs : LET r == request[t] IN
             \/ r.kind = "put" /\ plan' = r.squad
             \/ r.kind = "import" /\ r.mode = "replace" /\ r.confirmed /\ plan' = TeamNumber(r.team)
           Stay == \A id \in DOMAIN scenarios : id \in DOMAIN scenarios' /\ scenarios'[id] = scenarios[id]
<1>1. Inv /\ [Next]_vars => [Asked]_plan
  <2> SUFFICES ASSUME Inv, Next, plan' # plan PROVE Asked
    BY DEF vars, saved
  <2>1. PICK t \in Tabs : Commit(t)
    BY DEF Next, Syncs, Serve, Arrive, FindPlan, Store, Fail, Queries, saved
  <2> DEFINE r == request[t]
  <2>2. Saving(r, market) /\ r.stage = "write"
    BY <2>1, AtRequest DEF Commit
  <2>3. plan' = r.squad /\ r.mode # "draft"
    BY <2>1 DEF Commit
  <2> QED
    BY <2>2, <2>3 DEF Saving
<1>2. [Next]_vars => [Stay]_scenarios
  <2> SUFFICES ASSUME Next, scenarios' # scenarios PROVE Stay
    BY DEF vars, saved
  <2>1. PICK t \in Tabs : Store(t)
    BY DEF Next, Syncs, Serve, Arrive, FindPlan, Commit, Fail, Queries, saved
  <2> QED
    BY <2>1 DEF Store
<1> QED
  BY <1>1, <1>2, PlanningInvariant, PTL DEF Spec, StoredAsConfirmed, OnlyAsConfirmed, ScenariosStay

-----------------------------------------------------------------------------
(* What is stored beside the plan, and what is answered.                   *)

\* The stored data but the plan; a public sync under way has a season to come,
\* and until the deadline every season stored was fetched before it.
Stored ==
  /\ latest \in 0..Len(Teams) /\ market \in DOMAIN Markets
  /\ sync = "upsert" => market < Len(Markets)
  /\ known \in 1..(market + 1)
  /\ ~passed => market <= known /\ (sync = "upsert" => market < known)
  /\ imports \subseteq (DOMAIN Teams) \X {"draft", "replace"}
  /\ drafts = {TeamNumber(e[1]) : e \in {i \in imports : i[2] = "draft"}}
  /\ cutoff \in 0..market /\ cutoff <= known /\ priced \subseteq 1..market /\ late \subseteq Fixtures
  /\ \A id \in DOMAIN scenarios : scenarios[id] \in Numbers \X Numbers \X ({0} \cup Numbers)

\* A simulation has a snapshot fetched before the deadline, uses its prices once
\* they are read, and what is about to be stored is possible.
Case(r) == <<MarketOf(r), Basis(r)>>
Simulation(r) == <<MarketOf(r), Basis(r), r.input>>
Simulating == {"simulate", "scenario"}
Decided(r, k) ==
  r.kind \in Simulating => /\ r.cutoff \in 1..k
                          /\ (r.stage # "prices" => r.prices = r.cutoff)
                          /\ (r.stage = "store" => Simulation(r) \in Possible)
Timely(r, k) == r.cutoff \in 1..k /\ r.prices = r.cutoff /\ Simulation(r) \in Possible

Told ==
  /\ Given({"recommend"}) => Case(answer.read) \in Advised
  /\ Given(Simulating) => Timely(answer.read, known)

Requests == \A t \in Tabs : request[t] # Idle => Decided(request[t], known)

Outcomes == Stored /\ Told /\ Requests

\* A recommendation is made for one squad.
LEMMA AdvisedSquads ==
  ASSUME NEW r, Case(r) \in Advised
  PROVE  OneSquad(Load(Basis(r)))
<1>1. Basis(r) \in Bases /\ Recommend(Markets[MarketOf(r)], Load(Basis(r)), Score).errors = {}
  BY DEF Advised, Cases, Case
<1> DEFINE d == Markets[MarketOf(r)]
           s == Load(Basis(r))
<1>2. IsSquad(s)
  BY <1>1, LoadedSquads
<1> HIDE DEF d, s
<1>3. Recommend(d, s, Score).errors = {}
  BY <1>1 DEF d, s
<1>4. ValidateSquad(d, s) = {} /\ (s.starting # <<>> => ValidateLineup(d, s) = {})
  BY <1>3 DEF Recommend
<1>5. OneSquad(s)
  BY <1>2, <1>4, RulesMakeOneSquad DEF OneSquad
<1> QED
  BY <1>5 DEF s

\* A simulation ends with one squad, at the prices of its market, and it was
\* made from the rows of a plan.
LEMMA PossibleSimulations ==
  ASSUME NEW r, Simulation(r) \in Possible
  PROVE  /\ OneSquad(Outcome(r)) /\ Basis(r) \in Bases /\ 0 \notin {r.row, r.players}
         /\ BoughtAt(Markets[MarketOf(r)], r.input.moves, Outcome(r))
<1> DEFINE d == Markets[MarketOf(r)]
           s == Load(Basis(r))
<1>1. Basis(r) \in Bases /\ r.input \in Inputs /\ SimulateTransfers(d, s, r.input).errors = {}
  BY DEF Possible, Simulations, Simulation
<1>2. IsSquad(s) /\ (0 \in {r.row, r.players} => DOMAIN s.prices = {})
  BY <1>1, LoadedSquads DEF Basis
<1>3. IsList(r.input.moves) /\ IsList(r.input.starting) /\ IsList(r.input.bench)
  BY <1>1, PlanningAssumption
<1>4. Outcome(r) = SimulateTransfers(d, s, r.input).after
  BY DEF Outcome
<1> HIDE DEF s
<1>5. /\ OneSquad(Outcome(r)) /\ DOMAIN s.prices # {}
      /\ BoughtAt(d, r.input.moves, Outcome(r))
  BY <1>1, <1>2, <1>3, <1>4, SimulationFacts
<1> QED
  BY <1>1, <1>2, <1>5

\* A request moves on without being decided about.
LEMMA GoesOn ==
  ASSUME Inv, Requests, known' = known, NEW t \in Tabs, NEW r, Goto(t, r), Decided(r, known)
  PROVE  Requests' /\ Told'
<1>1. request' = [request EXCEPT ![t] = r] /\ answer' = None
  BY DEF Goto
<1>2. ASSUME NEW u \in Tabs, request'[u] # Idle PROVE Decided(request'[u], known)
  BY <1>1, <1>2 DEF Requests, Inv
<1>3. Requests'
  BY <1>2 DEF Requests, Decided, MarketOf, Simulation, Basis
<1>4. Told'
  BY <1>1 DEF Told, Given, None, Simulating
<1> QED
  BY <1>3, <1>4

\* A request is answered.
LEMMA IsAnswered ==
  ASSUME Inv, Requests, known' = known, NEW t \in Tabs, NEW a, Answer(t, a),
         a.kind = "recommend" /\ a.ok => Case(a.read) \in Advised,
         a.kind \in Simulating /\ a.ok => Timely(a.read, known)
  PROVE  Requests' /\ Told'
<1>1. request' = [request EXCEPT ![t] = Idle] /\ answer' = a
  BY DEF Answer
<1>2. ASSUME NEW u \in Tabs, request'[u] # Idle PROVE Decided(request'[u], known)
  BY <1>1, <1>2 DEF Requests, Inv
<1>3. Requests'
  BY <1>2 DEF Requests, Decided, MarketOf, Simulation, Basis
<1>4. Told'
  BY <1>1 DEF Told, Given, Timely, Case, Simulation, MarketOf, Basis
<1> QED
  BY <1>3, <1>4

LEMMA IsRefused ==
  ASSUME Inv, Requests, known' = known, NEW t \in Tabs, Refuse(t)
  PROVE  Requests' /\ Told'
<1> DEFINE a == [kind |-> request[t].kind, ok |-> FALSE]
<1>1. Answer(t, a) /\ ~a.ok
  BY DEF Refuse
<1> HIDE DEF a
<1> QED
  BY <1>1, IsAnswered

\* Nobody becomes a simulation on the way, and only a decision leads to storing.
LEMMA StaysDecided ==
  ASSUME NEW k, NEW r, Decided(r, k), r.stage # "prices",
         NEW n, n.kind = r.kind, n.cutoff = r.cutoff, n.prices = r.prices, n.stage # "store"
  PROVE  Decided(n, k)
BY DEF Decided

LEMMA OutcomesOfQueries ==
  ASSUME Inv, Requests, known' = known, NEW t \in Tabs,
         \/ ReadPrices(t) \/ CountExcluded(t) \/ ReadFixtures(t) \/ ReadSeason(t) \/ ReadRow(t) \/ ReadPlayers(t) \/ ReadLineup(t)
         \/ FindPlan(t) \/ (Step(t, "decide") /\ At(t, "lineup"))
  PROVE  Requests' /\ Told'
<1> DEFINE r == request[t]
<1>1. r # Idle
  BY DEF ReadPrices, CountExcluded, ReadFixtures, ReadSeason, ReadRow, ReadPlayers, ReadLineup, FindPlan, At
<1>2. IsRequest(r) /\ Decided(r, known) /\ (r.stage = "prices" => ReadPrices(t))
  BY <1>1 DEF Inv, Good, Requests, ReadPrices, CountExcluded, ReadFixtures, ReadSeason, ReadRow, ReadPlayers,
              ReadLineup, FindPlan, At
<1> HIDE DEF r
<1>0. CASE ReadPrices(t)
  <2> DEFINE n == [r EXCEPT !.prices = r.cutoff, !.stage = "excluded"]
  <2>1. n.kind = r.kind /\ n.cutoff = r.cutoff /\ n.prices = n.cutoff /\ n.stage = "excluded"
    BY <1>2 DEF IsRequest, Fields
  <2>2. Goto(t, n) \/ Refuse(t)
    BY <1>0 DEF ReadPrices, r
  <2> HIDE DEF n
  <2>3. Decided(n, known)
    BY <1>2, <2>1 DEF Decided
  <2> QED
    BY <2>2, <2>3, GoesOn, IsRefused
<1>3. ASSUME NEW n, Goto(t, n), n.kind = r.kind, n.cutoff = r.cutoff, n.prices = r.prices, n.stage # "store",
             ~ReadPrices(t)
      PROVE  Requests' /\ Told'
  BY <1>2, <1>3, StaysDecided, GoesOn
<1>4. CASE CountExcluded(t)
  <2> DEFINE n == [r EXCEPT !.excluded = late # {}, !.stage = "fixtures"]
  <2>1. n.kind = r.kind /\ n.cutoff = r.cutoff /\ n.prices = r.prices /\ n.stage = "fixtures"
    BY <1>2 DEF IsRequest, Fields
  <2>2. Goto(t, n)
    BY <1>4 DEF CountExcluded, r
  <2> QED
    BY <1>0, <1>3, <2>1, <2>2
<1>5. CASE ReadFixtures(t)
  <2> DEFINE n == [r EXCEPT !.fixtures = Fixtures \ late, !.stage = "market"]
  <2>1. n.kind = r.kind /\ n.cutoff = r.cutoff /\ n.prices = r.prices /\ n.stage = "market"
    BY <1>2 DEF IsRequest, Fields
  <2>2. Goto(t, n) \/ Refuse(t)
    BY <1>5 DEF ReadFixtures, r
  <2> QED
    BY <1>0, <1>3, <2>1, <2>2, IsRefused
<1>6. CASE ReadSeason(t)
  <2> DEFINE n == [r EXCEPT !.market = market, !.stage = AfterMarket(r.kind)]
  <2>1. n.kind = r.kind /\ n.cutoff = r.cutoff /\ n.prices = r.prices /\ n.stage = AfterMarket(r.kind)
    BY <1>2 DEF IsRequest, Fields
  <2>2. Goto(t, n) /\ AfterMarket(r.kind) # "store"
    BY <1>6 DEF ReadSeason, ReadMarket, AfterMarket, r
  <2> QED
    BY <1>0, <1>3, <2>1, <2>2
<1>7. CASE ReadRow(t)
  <2>0. PICK next \in {"decide", "players"} : Goto(t, [r EXCEPT !.row = plan, !.stage = next])
    BY <1>7 DEF ReadRow, r
  <2> DEFINE n == [r EXCEPT !.row = plan, !.stage = next]
  <2>1. n.kind = r.kind /\ n.cutoff = r.cutoff /\ n.prices = r.prices /\ n.stage = next
    BY <1>2 DEF IsRequest, Fields
  <2>2. Goto(t, n)
    BY <2>0
  <2> QED
    BY <1>0, <1>3, <2>1, <2>2
<1>8. CASE ReadPlayers(t)
  <2> DEFINE n == [r EXCEPT !.players = plan, !.stage = "lineup"]
  <2>1. n.kind = r.kind /\ n.cutoff = r.cutoff /\ n.prices = r.prices /\ n.stage = "lineup"
    BY <1>2 DEF IsRequest, Fields
  <2>2. Goto(t, n)
    BY <1>8 DEF ReadPlayers, r
  <2> QED
    BY <1>0, <1>3, <2>1, <2>2
<1>9. CASE ReadLineup(t)
  <2> DEFINE n == [r EXCEPT !.lineup = plan, !.stage = "decide"]
  <2>1. n.kind = r.kind /\ n.cutoff = r.cutoff /\ n.prices = r.prices /\ n.stage = "decide"
    BY <1>2 DEF IsRequest, Fields
  <2>2. Goto(t, n)
    BY <1>9 DEF ReadLineup, r
  <2> QED
    BY <1>0, <1>3, <2>1, <2>2
<1>10. CASE FindPlan(t)
  <2> DEFINE n == [r EXCEPT !.found = plan # 0, !.stage = "write"]
  <2>1. n.kind = r.kind /\ n.cutoff = r.cutoff /\ n.prices = r.prices /\ n.stage = "write"
    BY <1>2 DEF IsRequest, Fields
  <2>2. Goto(t, n)
    BY <1>10 DEF FindPlan, r
  <2> QED
    BY <1>0, <1>3, <2>1, <2>2
<1>11. CASE Step(t, "decide")
  <2> DEFINE n == [r EXCEPT !.stage = "decide"]
  <2>1. n.kind = r.kind /\ n.cutoff = r.cutoff /\ n.prices = r.prices /\ n.stage = "decide"
    BY <1>2, NextStage
  <2>2. Goto(t, n)
    BY <1>11 DEF Step, r
  <2> QED
    BY <1>0, <1>3, <2>1, <2>2
<1> QED
  BY <1>0, <1>4, <1>5, <1>6, <1>7, <1>8, <1>9, <1>10, <1>11

LEMMA OutcomesOfArrivals ==
  ASSUME Inv, Requests, Stored, known' = known, NEW t \in Tabs, Arrive(t)
  PROVE  Requests' /\ Told'
<1>1. ASSUME NEW r, IsRequest(r), r.kind \notin Simulating, ReadMarket(t, r) PROVE Requests' /\ Told'
  <2> DEFINE n == [r EXCEPT !.market = market, !.stage = AfterMarket(r.kind)]
  <2>1. n.kind = r.kind
    BY <1>1 DEF IsRequest, Fields
  <2>2. Goto(t, n)
    BY <1>1 DEF ReadMarket
  <2> HIDE DEF n
  <2> QED
    BY <1>1, <2>1, <2>2, GoesOn DEF Decided
<1>2. CASE Asks(t)
  <2>1. ASSUME NEW kind \in {"recommend", "preview"}, ReadMarket(t, NewRequest(kind)) PROVE Requests' /\ Told'
    BY <1>1, <2>1, NewRequests DEF Simulating
  <2>2. ASSUME NEW n \in DOMAIN Squads, ReadMarket(t, Put(n)) PROVE Requests' /\ Told'
    BY <1>1, <2>2, NewPut DEF Simulating
  <2>3. ASSUME NEW s \in DOMAIN Teams, NEW mode \in {"draft", "replace"}, NEW c \in BOOLEAN,
               ReadMarket(t, Import(s, mode, c))
        PROVE  Requests' /\ Told'
    BY <1>1, <2>3, NewImport DEF Simulating
  <2> QED
    BY <1>2, <2>1, <2>2, <2>3 DEF Asks
<1>3. CASE Simulates(t)
  <2>1. PICK kind \in {"simulate", "scenario"}, i \in Inputs :
          Goto(t, [NewRequest(kind) EXCEPT !.input = i, !.cutoff = cutoff, !.stage = "prices"])
    BY <1>3 DEF Simulates
  <2> DEFINE r == [NewRequest(kind) EXCEPT !.input = i, !.cutoff = cutoff, !.stage = "prices"]
  <2>2. r.cutoff = cutoff /\ r.stage = "prices"
    BY DEF NewRequest
  <2>3. cutoff \in 1..known
    BY <1>3 DEF Simulates, Stored
  <2>4. Goto(t, r)
    BY <2>1
  <2> HIDE DEF r
  <2> QED
    BY <2>2, <2>3, <2>4, GoesOn DEF Decided
<1> QED
  BY <1>2, <1>3 DEF Arrive

LEMMA OutcomesOfDecisions ==
  ASSUME Inv, Requests, known' = known, NEW t \in Tabs, Decide(t)
  PROVE  Requests' /\ Told'
<1> DEFINE r == request[t]
<1>1. IsRequest(r) /\ Decided(r, known) /\ r.stage = "decide"
  BY AtRequest DEF Decide, At, Requests
<1>2. CASE Refuse(t)
  BY <1>2, IsRefused
<1>3. CASE Step(t, "find")
  <2> DEFINE n == [r EXCEPT !.stage = "find"]
  <2> HIDE DEF r
  <2>1. n.kind = r.kind /\ n.cutoff = r.cutoff /\ n.prices = r.prices /\ n.stage = "find"
    BY <1>1, NextStage
  <2>2. Goto(t, n)
    BY <1>3 DEF Step, r
  <2> QED
    BY <1>1, <2>1, <2>2, StaysDecided, GoesOn
<1>4. CASE r.kind \in Simulating /\ Simulation(r) \in Possible /\ Step(t, "store")
  <2> DEFINE n == [r EXCEPT !.stage = "store"]
  <2> HIDE DEF r
  <2>1. n.kind = r.kind /\ n.cutoff = r.cutoff /\ n.prices = r.prices /\ Simulation(n) = Simulation(r)
    BY <1>1 DEF IsRequest, Fields, Simulation, MarketOf, Basis
  <2>2. Goto(t, n)
    BY <1>4 DEF Step, r
  <2> HIDE DEF n
  <2> QED
    BY <1>1, <1>4, <2>1, <2>2, GoesOn DEF Decided
<1>5. CASE /\ Answer(t, [kind |-> r.kind, ok |-> TRUE, read |-> r])
           /\ r.kind = "recommend" => Case(r) \in Advised
           /\ r.kind \in Simulating => Simulation(r) \in Possible
  <2> DEFINE a == [kind |-> r.kind, ok |-> TRUE, read |-> r]
  <2>1. a.kind = r.kind /\ a.read = r
    OBVIOUS
  <2>2. r.kind \in Simulating => Timely(r, known)
    BY <1>1, <1>5 DEF Decided, Timely
  <2>3. Answer(t, a)
    BY <1>5
  <2> HIDE DEF a
  <2> QED
    BY <1>5, <2>1, <2>2, <2>3, IsAnswered
<1> QED
  BY <1>2, <1>3, <1>4, <1>5 DEF Decide, Case, Simulation, Simulating

\* Saving and importing answer something else; storing answers what was decided.
LEMMA OutcomesOfSaving ==
  ASSUME Inv, Requests, known' = known, NEW t \in Tabs, ReadTeam(t) \/ FindEvent(t) \/ Commit(t) \/ Store(t)
  PROVE  Requests' /\ Told'
<1> DEFINE r == request[t]
<1>1. /\ IsRequest(r) /\ Decided(r, known) /\ Saving(r, market)
      /\ ReadTeam(t) => r.stage = "team"
      /\ FindEvent(t) => r.stage = "event"
      /\ Commit(t) => r.stage = "write"
      /\ Store(t) => r.stage = "store"
  BY AtRequest DEF ReadTeam, FindEvent, Commit, Store, At, Requests
<1>2. CASE Refuse(t)
  BY <1>2, IsRefused
<1>3. ASSUME NEW a, Answer(t, a), a.kind \in {"put", "preview", "import"} PROVE Requests' /\ Told'
  BY <1>3, IsAnswered DEF Simulating
<1>4. CASE ReadTeam(t)
  <2>1. CASE Preview(t, latest)
    <3> DEFINE a == [kind |-> "preview", ok |-> TRUE, read |-> r, shown |-> latest]
    <3>1. Answer(t, a) /\ a.kind = "preview"
      BY <2>1 DEF Preview
    <3> HIDE DEF a
    <3> QED
      BY <1>3, <3>1
  <2>2. CASE Goto(t, [r EXCEPT !.squad = TeamNumber(latest), !.stage = "event"])
    <3> DEFINE n == [r EXCEPT !.squad = TeamNumber(latest), !.stage = "event"]
    <3> HIDE DEF r
    <3>1. n.kind = r.kind /\ n.cutoff = r.cutoff /\ n.prices = r.prices /\ n.stage = "event"
      BY <1>1 DEF IsRequest, Fields
    <3>2. Goto(t, n)
      BY <2>2
    <3> QED
      BY <1>1, <3>1, <3>2, StaysDecided, GoesOn
  <2> QED
    BY <1>2, <1>4, <2>1, <2>2 DEF ReadTeam
<1>5. CASE FindEvent(t)
  <2>1. CASE Answer(t, [kind |-> "import", ok |-> TRUE, read |-> r])
    <3> DEFINE a == [kind |-> "import", ok |-> TRUE, read |-> r]
    <3>1. Answer(t, a) /\ a.kind = "import"
      BY <2>1
    <3> HIDE DEF a
    <3> QED
      BY <1>3, <3>1
  <2>2. ASSUME NEW stage \in {"write", "find"}, Step(t, stage) PROVE Requests' /\ Told'
    <3> DEFINE n == [r EXCEPT !.stage = stage]
    <3> HIDE DEF r
    <3>1. n.kind = r.kind /\ n.cutoff = r.cutoff /\ n.prices = r.prices /\ n.stage = stage
      BY <1>1, NextStage
    <3>2. Goto(t, n)
      BY <2>2 DEF Step, r
    <3> QED
      BY <1>1, <3>1, <3>2, StaysDecided, GoesOn
  <2> QED
    BY <1>5, <2>1, <2>2 DEF FindEvent
<1>6. CASE Commit(t)
  <2> DEFINE a == [kind |-> r.kind, ok |-> TRUE, read |-> r]
  <2>1. Refuse(t) \/ Answer(t, a)
    BY <1>6 DEF Commit
  <2>2. a.kind \in {"put", "import"}
    BY <1>1, <1>6 DEF Saving
  <2> HIDE DEF a
  <2> QED
    BY <1>2, <1>3, <2>1, <2>2
<1>7. CASE Store(t)
  <2> DEFINE a == [kind |-> "scenario", ok |-> TRUE, read |-> r]
  <2>1. Answer(t, a) /\ a.kind = "scenario" /\ a.read = r
    BY <1>7 DEF Store
  <2>2. Timely(r, known)
    BY <1>1, <1>7 DEF Saving, Decided, Timely, Simulating
  <2> HIDE DEF a
  <2> QED
    BY <2>1, <2>2, IsAnswered
<1> QED
  BY <1>4, <1>5, <1>6, <1>7

\* The syncs.
LEMMA StoredBySyncs ==
  ASSUME Stored, Inv, Syncs
  PROVE  Stored' /\ (Requests => Requests') /\ Told'
<1>1. UNCHANGED <<saved, request>> /\ answer' = None
  BY DEF Syncs
<1>2. Len(Markets) \in Nat /\ DOMAIN Markets = 1..Len(Markets) /\ Len(Teams) \in Nat /\ DOMAIN Teams = 1..Len(Teams)
  BY PlanningAssumption, LenProperties DEF IsList
<1>3. UNCHANGED <<imports, drafts, scenarios>>
  BY <1>1 DEF saved
<1>4. market \in Nat /\ known \in 1..(market + 1)
  BY <1>2 DEF Stored
<1>5. ASSUME TeamSync PROVE Stored'
  BY <1>2, <1>3, <1>5 DEF TeamSync, Stored, public
<1>6. ASSUME Deadline PROVE Stored'
  BY <1>3, <1>6 DEF Deadline, Stored, public
<1>7. ASSUME UNCHANGED <<latest, passed>> /\ PublicFetch PROVE Stored'
  BY <1>2, <1>3, <1>4, <1>7 DEF PublicFetch, Stored
<1>8. ASSUME UNCHANGED <<latest, passed>> /\ PublicUpsert PROVE Stored'
  <2>1. market' \in DOMAIN Markets /\ late' \subseteq Fixtures
    BY <1>2, <1>8 DEF PublicUpsert, Stored
  <2>2. cutoff' \in 0..market' /\ cutoff' <= known' /\ priced' \subseteq 1..market' /\ known' \in 1..(market' + 1)
    BY <1>4, <1>8 DEF PublicUpsert, Stored
  <2>3. /\ sync' # "upsert"
        /\ ~passed' => market' <= known'
    BY <1>4, <1>8 DEF PublicUpsert, Stored
  <2> QED
    BY <1>3, <1>8, <2>1, <2>2, <2>3 DEF Stored
<1>9. ASSUME UNCHANGED <<latest, passed>> /\ PublicSnapshot PROVE Stored'
  BY <1>3, <1>4, <1>9 DEF PublicSnapshot, Stored
<1>10. ASSUME UNCHANGED <<latest, passed>> /\ PublicPlayers PROVE Stored'
  <2>1. market \in 1..market
    BY <1>2 DEF Stored
  <2> QED
    BY <1>3, <1>4, <1>10, <2>1 DEF PublicPlayers, Stored
<1>11. ASSUME UNCHANGED <<latest, passed>> /\ PublicFails PROVE Stored'
  BY <1>3, <1>4, <1>11 DEF PublicFails, Stored
<1>12. Stored'
  BY <1>5, <1>6, <1>7, <1>8, <1>9, <1>10, <1>11 DEF Syncs, Public
<1>13. known <= known'
  BY <1>4 DEF Syncs, TeamSync, Public, PublicFetch, PublicUpsert, PublicSnapshot, PublicPlayers, PublicFails, Deadline, public
<1>14. known \in Int /\ known' \in Int
  BY <1>4, <1>12 DEF Stored
<1>15. ASSUME NEW r, Decided(r, known) PROVE Decided(r, known')
  <2>1. r.cutoff \in 1..known => r.cutoff \in 1..known'
    BY <1>13, <1>14
  <2> QED
    BY <1>15, <2>1 DEF Decided
<1>16. Requests => \A t \in Tabs : request[t] # Idle => Decided(request[t], known')
  BY <1>15 DEF Requests
<1>17. Requests => Requests'
  BY <1>1, <1>16 DEF Requests, Decided, MarketOf, Simulation, Basis
<1> QED
  BY <1>1, <1>12, <1>17 DEF Told, Given, None, Simulating

\* What an import and a scenario leave behind.
LEMMA StoredByCommit ==
  ASSUME Stored, Inv, NEW t \in Tabs, Commit(t)
  PROVE  Stored'
<1> DEFINE r == request[t]
           seen(I) == {TeamNumber(e[1]) : e \in {i \in I : i[2] = "draft"}}
<1>1. Saving(r, market) /\ r.stage = "write"
  BY AtRequest DEF Commit
<1>2. UNCHANGED <<scenarios, facts>>
  BY DEF Commit
<1>3. /\ r.kind \in {"put", "import"}
      /\ r.kind = "put" => r.mode = "none"
      /\ r.kind = "import" => r.team \in DOMAIN Teams /\ r.mode \in {"draft", "replace"} /\ r.squad = TeamNumber(r.team)
  BY <1>1 DEF Saving
<1>4. imports' \subseteq (DOMAIN Teams) \X {"draft", "replace"} /\ drafts' = seen(imports')
  <2>1. imports \subseteq (DOMAIN Teams) \X {"draft", "replace"} /\ drafts = seen(imports)
    BY DEF Stored
  <2>2. CASE r.kind = "import" /\ r.mode = "draft" /\ imports' = imports \cup {<<r.team, "draft">>}
             /\ drafts' = drafts \cup {TeamNumber(r.team)}
    <3> DEFINE e == <<r.team, "draft">>
               A == {i \in imports' : i[2] = "draft"}
               B == {i \in imports : i[2] = "draft"}
    <3>1. e[1] = r.team /\ e[2] = "draft"
      OBVIOUS
    <3>2. A = B \cup {e}
      BY <2>2
    <3> HIDE DEF A, B, e
    <3>3. {TeamNumber(i[1]) : i \in A} = {TeamNumber(i[1]) : i \in B} \cup {TeamNumber(e[1])}
      BY <3>2
    <3>4. seen(imports') = seen(imports) \cup {TeamNumber(r.team)}
      BY <3>1, <3>3 DEF A, B
    <3> QED
      BY <1>3, <2>1, <2>2, <3>4
  <2>3. CASE r.kind = "import" /\ imports' = imports \cup {<<r.team, "replace">>} /\ drafts' = drafts
    <3>1. seen(imports') = seen(imports)
      BY <2>3
    <3> QED
      BY <1>3, <2>1, <2>3, <3>1
  <2>4. CASE imports' = imports /\ drafts' = drafts
    BY <2>1, <2>4
  <2> QED
    BY <1>3, <2>2, <2>3, <2>4 DEF Commit
<1> QED
  BY <1>2, <1>4 DEF Stored, facts, public

LEMMA StoredByStore ==
  ASSUME Stored, Inv, Requests, NEW t \in Tabs, Store(t)
  PROVE  Stored'
<1> DEFINE r == request[t]
<1>1. r.kind = "scenario" /\ Decided(r, known) /\ r.stage = "store"
  BY AtRequest DEF Store, Saving, Requests, At
<1>2. Simulation(r) \in Possible
  BY <1>1 DEF Decided, Simulating
<1>3. Basis(r) \in Bases /\ 0 \notin {r.row, r.players}
  BY <1>2, PossibleSimulations
<1>4. Basis(r) \in Numbers \X Numbers \X ({0} \cup Numbers)
  BY <1>3 DEF Basis, Bases
<1>5. scenarios' = [id \in DOMAIN scenarios \cup {<<r.cutoff, r.input>>} |->
                      IF id \in DOMAIN scenarios THEN scenarios[id] ELSE Basis(r)]
      /\ UNCHANGED <<imports, drafts, facts>>
  BY DEF Store
<1>6. \A id \in DOMAIN scenarios' : scenarios'[id] \in Numbers \X Numbers \X ({0} \cup Numbers)
  BY <1>4, <1>5 DEF Stored
<1> QED
  BY <1>5, <1>6 DEF Stored, facts, public

LEMMA OutcomesInit == Init => Outcomes
<1> SUFFICES ASSUME Init PROVE Outcomes
  OBVIOUS
<1>1. Len(Markets) \in Nat /\ DOMAIN Markets = 1..Len(Markets) /\ Len(Teams) \in Nat /\ 1 \in DOMAIN Markets
  BY PlanningAssumption, LenProperties DEF IsList
<1>2. Told /\ Requests
  BY DEF Init, Told, Given, None, Simulating, Requests
<1>3. PICK n \in DOMAIN Squads : <<1, n>> \in Legal /\
       scenarios = IF plan = 0 THEN <<>> ELSE [s \in {<<1, i>> : i \in Inputs} |-> <<n, n, n>>]
  BY DEF Init
<1>4. n \in Numbers
  BY <1>3 DEF Legal
<1>5. \A id \in DOMAIN scenarios : scenarios[id] \in Numbers \X Numbers \X ({0} \cup Numbers)
  BY <1>3, <1>4
<1>6. drafts = {TeamNumber(e[1]) : e \in {i \in imports : i[2] = "draft"}}
  BY DEF Init
<1>7. sync = "idle" /\ known = 1 /\ priced = {1}
  BY DEF Init
<1>8. latest = 0 /\ market = 1 /\ cutoff = 1 /\ late = {} /\ imports = {}
  BY DEF Init
<1>9. Stored
  BY <1>1, <1>5, <1>6, <1>7, <1>8 DEF Stored
<1> QED
  BY <1>2, <1>9 DEF Outcomes

LEMMA OutcomesStep == Inv /\ Seasoned /\ Outcomes /\ [Next]_vars => Outcomes'
<1> SUFFICES ASSUME Inv, Stored, Told, Requests, [Next]_vars PROVE Outcomes'
  BY DEF Outcomes
<1>1. CASE Syncs
  BY <1>1, StoredBySyncs DEF Outcomes
<1>2. ASSUME NEW t \in Tabs, Serve(t) PROVE Outcomes'
  <2>0. known' = known
    BY <1>2 DEF Serve, Arrive, FindPlan, Commit, Store, Fail, facts, public
  <2>1. Requests' /\ Told'
    <3>1. CASE Queries(t)
      BY <2>0, <3>1, OutcomesOfQueries, OutcomesOfDecisions, OutcomesOfSaving DEF Queries
    <3>2. CASE Fail(t)
      <4>1. Refuse(t) \/ (Step(t, "decide") /\ At(t, "lineup"))
        BY <3>2 DEF Fail, At
      <4> QED
        BY <2>0, <4>1, IsRefused, OutcomesOfQueries
    <3> QED
      BY <1>2, <2>0, <3>1, <3>2, OutcomesOfArrivals, OutcomesOfQueries, OutcomesOfSaving DEF Serve
  <2>2. CASE Commit(t)
    BY <2>2, StoredByCommit, <2>1 DEF Outcomes
  <2>3. CASE Store(t)
    BY <2>3, StoredByStore, <2>1 DEF Outcomes
  <2>4. CASE ~Commit(t) /\ ~Store(t)
    <3>1. UNCHANGED <<saved, facts>>
      BY <1>2, <2>4 DEF Serve, Arrive, FindPlan, Fail
    <3>2. Stored'
      BY <3>1 DEF Stored, saved, facts, public
    <3> QED
      BY <2>1, <3>2 DEF Outcomes
  <2> QED
    BY <2>2, <2>3, <2>4
<1>3. CASE UNCHANGED vars
  <2>1. Stored'
    BY <1>3 DEF vars, saved, facts, public, Stored
  <2>2. Told' /\ Requests'
    BY <1>3 DEF vars, facts, public, Told, Given, Requests, Case, Timely, Simulation, MarketOf, Basis, Decided
  <2> QED
    BY <2>1, <2>2 DEF Outcomes
<1> QED
  BY <1>1, <1>2, <1>3 DEF Next

LEMMA OutcomesInvariant == Spec => []Outcomes
<1>1. Init => Outcomes
  BY OutcomesInit
<1>2. Inv /\ Seasoned /\ Outcomes /\ [Next]_vars => Outcomes'
  BY OutcomesStep
<1> QED
  BY <1>1, <1>2, PlanningInvariant, PTL DEF Spec

\* What is stored has its type, every draft is of a team that was imported, and
\* the plan obeys the rules (api.go:1062, manager_import_repository.go:19-26).
THEOREM WhatIsSavedIsSound == Spec => []SavedIsSound
<1>1. Inv /\ Outcomes => TypeOK
  <2> SUFFICES ASSUME Inv, Stored PROVE TypeOK
    BY DEF Outcomes
  <2>1. plan \in {0} \cup Numbers
    BY DEF Inv, LegalBy, Legal
  <2> QED
    BY <2>1 DEF Stored, TypeOK
<1> QED
  BY <1>1, PlanningInvariant, OutcomesInvariant, SavedPlanIsLegal, PTL DEF SavedIsSound

\* Nothing is recommended from the players of one squad and the line-up of
\* another, and every simulation ends with one squad (repository.go:1123-1151,
\* optimizer.go:39, transfer_research.go:371).
THEOREM OneSquadIsAnswered == Spec => []TornSquadsAreRefused
<1>1. Told => TornSquadsAreRefused
  BY AdvisedSquads, PossibleSimulations DEF Told, Timely, TornSquadsAreRefused, Simulating
<1> QED
  BY <1>1, OutcomesInvariant, PTL DEF Outcomes

\* The snapshot a simulation answers for was fetched before the deadline, and a
\* player brought in costs what he cost in it, whatever syncs wrote between the
\* queries (repository_transfer_research.go:26, :42, api.go:684, :696).
THEOREM PricesAreOfTheDeadline == Spec => []NoLaterPrices
<1>1. Stored /\ Told => NoLaterPrices
  <2> DEFINE r == answer.read
  <2> SUFFICES ASSUME Stored, Told, Given(Simulating)
               PROVE  r.cutoff <= known /\ BoughtAt(Markets[r.cutoff], r.input.moves, Outcome(r))
    BY DEF NoLaterPrices, Simulating, BoughtAt
  <2>1. r.cutoff \in 1..known /\ r.prices = r.cutoff /\ Simulation(r) \in Possible
    BY DEF Told, Timely
  <2>2. known \in Int
    BY DEF Stored
  <2> HIDE DEF r
  <2>3. MarketOf(r) = r.cutoff
    BY <2>1, <2>2 DEF MarketOf
  <2> QED
    BY <2>1, <2>2, <2>3, PossibleSimulations
<1> QED
  BY <1>1, OutcomesInvariant, PTL DEF Outcomes

-----------------------------------------------------------------------------
(* The account of a simulation.                                            *)

Owners == DOMAIN Squad.prices
Book(prices) == [p \in DOMAIN prices |-> Value(Domain, prices, p)]
Naming(moves, k, p, side) == {i \in 1..k : moves[i][side] = p}
Changes(moves) == [i \in DOMAIN moves |-> Change(moves[i], Squad.prices)]

\* After k transfers without an error: who is in the squad has the price he was
\* bought at, whoever left was sent away, and players and money add up.
Prices(x) ==
  /\ DOMAIN x.prices \subseteq DOMAIN Domain
  /\ \A p \in DOMAIN x.prices :
       IF p \in x.ins THEN x.prices[p] = Domain[p].price
       ELSE p \in Owners /\ x.prices[p] = Squad.prices[p]
  /\ \A p \in Owners : p \notin DOMAIN x.prices \/ p \in x.ins => p \in x.outs

Players(x, moves, k) ==
  \A p \in DOMAIN Domain :
    OneIf(p \in DOMAIN x.prices) = OneIf(p \in Owners)
      + Cardinality(Naming(moves, k, p, "in")) - Cardinality(Naming(moves, k, p, "out"))

Money(x, moves, k) ==
  SumFunction(Book(x.prices)) = SumFunction(Book(Squad.prices)) + SumFunctionOnSet(Changes(moves), 1..k)

Accounted(x, moves, k) ==
  IsState(x) /\ (x.errors = {} => Prices(x) /\ Players(x, moves, k) /\ Money(x, moves, k))

LEMMA ThePlayers ==
  /\ IsFiniteSet(Owners) /\ Owners \subseteq DOMAIN Domain /\ DOMAIN Domain \subseteq Nat \ {0}
  /\ \A p \in DOMAIN Domain : Domain[p].price \in Int
  /\ \A p \in Owners : Squad.prices[p] \in Int
<1>1. ValidateSquad(Domain, Squad) = {}
  BY AdviceAssumption DEF ValidatePlan
<1>2. Owners \ DOMAIN Domain = {}
  BY <1>1 DEF ValidateSquad, Rule, Owners
<1> QED
  BY <1>2, AdviceAssumption DEF IsSquad, Owners

\* One transfer more.
LEMMA PricesStep ==
  ASSUME NEW x, NEW m, NEW y, Exchange(Domain, x, m, y), Prices(x)
  PROVE  Prices(y)
<1>1. DOMAIN y.prices \subseteq DOMAIN Domain
  BY DEF Exchange, Prices
<1>2. ASSUME NEW p \in DOMAIN y.prices
      PROVE  IF p \in y.ins THEN y.prices[p] = Domain[p].price
             ELSE p \in Owners /\ y.prices[p] = Squad.prices[p]
  BY DEF Exchange, Prices
<1>3. ASSUME NEW p \in Owners, p \notin DOMAIN y.prices \/ p \in y.ins
      PROVE  p \in y.outs
  BY <1>3 DEF Exchange, Prices
<1> QED
  BY <1>1, <1>2, <1>3 DEF Prices

LEMMA CountStep ==
  ASSUME NEW moves, NEW k \in Nat, NEW p, NEW side
  PROVE  LET old == Cardinality(Naming(moves, k, p, side)) IN
         /\ old \in Nat
         /\ Cardinality(Naming(moves, k + 1, p, side)) = IF moves[k + 1][side] = p THEN old + 1 ELSE old
<1> DEFINE A == Naming(moves, k, p, side)
           B == Naming(moves, k + 1, p, side)
<1>1. IsFiniteSet(1..k)
  BY FS_Interval
<1>2. A \subseteq 1..k /\ k + 1 \notin A
  BY DEF Naming
<1>3. B = IF moves[k + 1][side] = p THEN A \cup {k + 1} ELSE A
  <2>1. 1..(k + 1) = (1..k) \cup {k + 1}
    OBVIOUS
  <2> QED
    BY <2>1 DEF Naming
<1> HIDE DEF A, B
<1>4. IsFiniteSet(A) /\ Cardinality(A) \in Nat
  BY <1>1, <1>2, FS_Subset, FS_CardinalityType
<1>5. Cardinality(A \cup {k + 1}) = Cardinality(A) + 1
  BY <1>2, <1>4, FS_AddElement
<1> QED
  BY <1>3, <1>4, <1>5 DEF A, B

LEMMA PlayersStep ==
  ASSUME NEW x, NEW y, NEW moves, NEW k \in Nat, Exchange(Domain, x, moves[k + 1], y),
         Prices(x), Players(x, moves, k)
  PROVE  Players(y, moves, k + 1)
<1> DEFINE m == moves[k + 1]
<1>1. ASSUME NEW p \in DOMAIN Domain
      PROVE  OneIf(p \in DOMAIN y.prices) = OneIf(p \in Owners)
               + Cardinality(Naming(moves, k + 1, p, "in")) - Cardinality(Naming(moves, k + 1, p, "out"))
  <2>1. PICK i, j, u, v : /\ i = Cardinality(Naming(moves, k, p, "in")) /\ u = Cardinality(Naming(moves, k + 1, p, "in"))
                          /\ j = Cardinality(Naming(moves, k, p, "out")) /\ v = Cardinality(Naming(moves, k + 1, p, "out"))
    OBVIOUS
  <2>2. /\ i \in Nat /\ u = IF m.in = p THEN i + 1 ELSE i
        /\ j \in Nat /\ v = IF m.out = p THEN j + 1 ELSE j
    BY <2>1, CountStep
  <2>3. PICK a, b, o : /\ a = OneIf(p \in DOMAIN x.prices) /\ b = OneIf(p \in DOMAIN y.prices)
                       /\ o = OneIf(p \in Owners) /\ a = o + i - j
    BY <2>1 DEF Players
  <2>4. /\ a = IF p \in DOMAIN x.prices THEN 1 ELSE 0
        /\ b = IF p \in DOMAIN y.prices THEN 1 ELSE 0
        /\ o \in {0, 1}
    BY <2>3 DEF OneIf
  <2>5. /\ p = m.in => a = 0 /\ b = 1 /\ m.out # p
        /\ p = m.out => a = 1 /\ b = 0 /\ m.in # p
        /\ p # m.in /\ p # m.out => b = a
    BY <2>4 DEF Exchange
  <2> HIDE DEF m
  <2>6. b = o + u - v
    BY <2>2, <2>3, <2>4, <2>5
  <2> QED
    BY <2>1, <2>3, <2>6
<1> QED
  BY <1>1 DEF Players

\* The sum of a book is an integer.
LEMMA BookSum ==
  ASSUME NEW x, IsState(x), Prices(x)
  PROVE  /\ \A p \in DOMAIN x.prices : Book(x.prices)[p] = Value(Domain, x.prices, p) /\ Book(x.prices)[p] \in Int
         /\ SumFunction(Book(x.prices)) = SumFunctionOnSet(Book(x.prices), DOMAIN x.prices)
         /\ SumFunction(Book(x.prices)) \in Int
<1>1. DOMAIN Book(x.prices) = DOMAIN x.prices
  BY DEF Book
<1>2. ASSUME NEW p \in DOMAIN x.prices
      PROVE  Book(x.prices)[p] = Value(Domain, x.prices, p) /\ Book(x.prices)[p] \in Int
  <2>1. x.prices[p] \in Int /\ Domain[p].price \in Int
    BY ThePlayers DEF Prices
  <2> QED
    BY <2>1 DEF Book, Value
<1>3. SumFunction(Book(x.prices)) = SumFunctionOnSet(Book(x.prices), DOMAIN x.prices)
  BY <1>1 DEF SumFunction
<1>4. SumFunctionOnSet(Book(x.prices), DOMAIN x.prices) \in Int
  <2> HIDE DEF Book
  <2> QED
    BY <1>2, SumType DEF IsState
<1> QED
  BY <1>2, <1>3, <1>4

\* What a transfer changes is the value of who comes less that of who goes.
LEMMA ChangeOfExchange ==
  ASSUME NEW x, NEW m, NEW y, Exchange(Domain, x, m, y), Prices(x)
  PROVE  /\ Change(m, Squad.prices) = Domain[m.in].price - Value(Domain, x.prices, m.out)
         /\ Value(Domain, y.prices, m.in) = Domain[m.in].price
         /\ Value(Domain, x.prices, m.out) \in Int /\ Domain[m.in].price \in Int
<1>1. /\ m.out \in DOMAIN x.prices /\ m.out \notin x.outs /\ m.in \in DOMAIN Domain
      /\ y.prices[m.in] = Domain[m.in].price
  BY DEF Exchange
<1>2. m.out \in DOMAIN Domain
  BY <1>1 DEF Prices
<1>3. CASE m.out \in Owners
  <2>1. x.prices[m.out] = Squad.prices[m.out]
    BY <1>1, <1>3 DEF Prices
  <2> QED
    BY <1>1, <1>2, <1>3, <2>1, ThePlayers DEF Change, Value, Owners
<1>4. CASE m.out \notin Owners
  <2>1. x.prices[m.out] = Domain[m.out].price
    BY <1>1, <1>4 DEF Prices
  <2> QED
    BY <1>1, <1>2, <1>4, <2>1, ThePlayers DEF Change, Value, Owners
<1> QED
  BY <1>3, <1>4

LEMMA MoneyStep ==
  ASSUME NEW x, NEW y, NEW moves, NEW k \in Nat, k + 1 \in DOMAIN moves, \A i \in 1..k : i \in DOMAIN moves,
         Exchange(Domain, x, moves[k + 1], y),
         IsState(x), IsState(y), Prices(x), Money(x, moves, k),
         \A i \in 1..k : Changes(moves)[i] \in Int
  PROVE  Money(y, moves, k + 1) /\ Changes(moves)[k + 1] \in Int
<1> DEFINE m == moves[k + 1]
           P == DOMAIN x.prices \ {m.out}
<1>1. /\ m.out \in DOMAIN x.prices /\ m.in \notin DOMAIN x.prices
      /\ DOMAIN y.prices = (DOMAIN x.prices \ {m.out}) \cup {m.in}
      /\ \A p \in DOMAIN y.prices : p # m.in => y.prices[p] = x.prices[p]
  BY DEF Exchange
<1>2. PICK c, u, w : /\ c = Changes(moves)[k + 1] /\ u = Book(y.prices)[m.in] /\ w = Book(x.prices)[m.out]
  OBVIOUS
<1>3. Prices(y)
  BY PricesStep
<1>4. c = u - w /\ u \in Int /\ w \in Int
  <2>1. c = Change(m, Squad.prices)
    BY <1>2 DEF Changes
  <2>2. u = Value(Domain, y.prices, m.in) /\ w = Value(Domain, x.prices, m.out)
    BY <1>1, <1>2, <1>3, BookSum
  <2> QED
    BY <2>1, <2>2, ChangeOfExchange
<1>5. PICK s : s = SumFunctionOnSet(Book(x.prices), P)
  OBVIOUS
<1>6. IsFiniteSet(P)
  BY FS_RemoveElement DEF IsState
<1>7. SumFunctionOnSet(Book(y.prices), P) = s
  <2>1. \A p \in P : Book(y.prices)[p] = Book(x.prices)[p]
    BY <1>1 DEF Book, Value
  <2> HIDE DEF P, Book
  <2> QED
    BY <1>5, <1>6, <2>1, SumSame
<1>8. SumFunction(Book(x.prices)) = w + s
  <2>1. SumFunctionOnSet(Book(x.prices), DOMAIN x.prices) = w + s
    BY <1>1, <1>2, <1>5, BookSum, SumStep DEF IsState
  <2> QED
    BY <2>1, BookSum
<1>9. SumFunction(Book(y.prices)) = u + s
  <2>1. DOMAIN y.prices \ {m.in} = P /\ m.in \in DOMAIN y.prices
    BY <1>1
  <2>2. IsFiniteSet(DOMAIN y.prices) /\ \A p \in DOMAIN y.prices : Book(y.prices)[p] \in Int
    BY <1>3, BookSum DEF IsState
  <2> HIDE DEF P
  <2>3. SumFunctionOnSet(Book(y.prices), DOMAIN y.prices) = u + SumFunctionOnSet(Book(y.prices), P)
    BY <1>2, <2>1, <2>2, SumStep
  <2> QED
    BY <1>3, <1>7, <2>3, BookSum
<1>10. s \in Int
  <2>1. \A p \in P : Book(x.prices)[p] \in Int
    BY BookSum
  <2> HIDE DEF P
  <2> QED
    BY <1>5, <1>6, <2>1, SumType
<1>11. PICK t : t = SumFunctionOnSet(Changes(moves), 1..k)
  OBVIOUS
<1>12. SumFunctionOnSet(Changes(moves), 1..(k + 1)) = c + t /\ t \in Int
  <2>1. IsFiniteSet(1..(k + 1)) /\ IsFiniteSet(1..k)
    BY FS_Interval
  <2>2. (1..(k + 1)) \ {k + 1} = 1..k /\ k + 1 \in 1..(k + 1)
    OBVIOUS
  <2>3. \A i \in 1..(k + 1) : Changes(moves)[i] \in Int
    <3>1. \A i \in 1..(k + 1) : i \in 1..k \/ i = k + 1
      OBVIOUS
    <3>2. c \in Int
      BY <1>4
    <3> QED
      BY <1>2, <3>1, <3>2
  <2>4. t \in Int
    BY <1>11, <2>1, SumType
  <2>5. SumFunctionOnSet(Changes(moves), 1..(k + 1)) = Changes(moves)[k + 1] + SumFunctionOnSet(Changes(moves), (1..(k + 1)) \ {k + 1})
    BY <2>1, <2>2, <2>3, SumStep
  <2> QED
    BY <1>2, <1>11, <2>2, <2>4, <2>5
<1>13. PICK b : b = SumFunction(Book(Squad.prices)) /\ w + s = b + t
  BY <1>8, <1>11 DEF Money
<1>14. b \in Int
  <2>1. PICK z : z = Untouched(Squad)
    OBVIOUS
  <2>2. z.prices = Squad.prices /\ z.ins = {} /\ z.outs = {} /\ IsState(z)
    BY <2>1, ThePlayers DEF Untouched, IsState, Owners
  <2>3. Prices(z)
    BY <2>2, ThePlayers DEF Prices, Owners
  <2> QED
    BY <1>13, <2>2, <2>3, BookSum
<1>15. u + s = b + (c + t)
  BY <1>4, <1>10, <1>12, <1>13, <1>14
<1>16. c \in Int
  BY <1>4
<1> QED
  BY <1>2, <1>9, <1>12, <1>13, <1>15, <1>16 DEF Money

LEMMA TransfersAreAccounted ==
  ASSUME NEW moves, Len(moves) \in Nat, DOMAIN moves = 1..Len(moves)
  PROVE  Accounted(Transferred(Domain, Squad, moves), moves, Len(moves))
<1> DEFINE n == Len(moves)
<1>1. PICK state : Transferred(Domain, Squad, moves) = state[n] /\ Played(state, Domain, Squad, moves)
  BY TransfersArePlayed
<1> DEFINE T(k) == /\ Accounted(state[k], moves, k)
                   /\ state[k].errors = {} => \A i \in 1..k : Changes(moves)[i] \in Int
           G == {k \in Nat : k <= n => T(k)}
<1>2. T(0)
  <2>1. PICK z : z = state[0] /\ z = Untouched(Squad)
    BY <1>1 DEF Played
  <2>2. z.prices = Squad.prices /\ z.ins = {} /\ z.outs = {} /\ IsState(z)
    BY <2>1, ThePlayers DEF Untouched, IsState, Owners
  <2>3. Prices(z)
    BY <2>2, ThePlayers DEF Prices, Owners
  <2>4. Players(z, moves, 0)
    <3>1. ASSUME NEW p \in DOMAIN Domain, NEW side PROVE Cardinality(Naming(moves, 0, p, side)) = 0
      <4>1. Naming(moves, 0, p, side) = {}
        BY DEF Naming
      <4> QED
        BY <4>1, FS_EmptySet
    <3>2. ASSUME NEW p \in DOMAIN Domain
          PROVE OneIf(p \in DOMAIN z.prices) = OneIf(p \in Owners)
                  + Cardinality(Naming(moves, 0, p, "in")) - Cardinality(Naming(moves, 0, p, "out"))
      <4>1. PICK o : o = OneIf(p \in Owners) /\ o = OneIf(p \in DOMAIN z.prices)
        BY <2>2 DEF Owners
      <4>2. o \in {0, 1}
        BY <4>1 DEF OneIf
      <4>3. o = o + 0 - 0
        BY <4>2
      <4> QED
        BY <3>1, <4>1, <4>3
    <3> QED
      BY <3>2 DEF Players
  <2>5. Money(z, moves, 0)
    <3>1. 1..0 = {}
      OBVIOUS
    <3>2. SumFunctionOnSet(Changes(moves), 1..0) = 0
      BY <3>1, SumEmpty
    <3>3. PICK b : b = SumFunction(Book(Squad.prices)) /\ b \in Int
      BY <2>2, <2>3, BookSum
    <3> QED
      BY <2>2, <3>2, <3>3 DEF Money
  <2>6. 1..0 = {}
    OBVIOUS
  <2> QED
    BY <2>1, <2>2, <2>3, <2>4, <2>5, <2>6 DEF Accounted
<1>3. ASSUME NEW k \in Nat, k + 1 <= n, T(k) PROVE T(k + 1)
  <2>1. PICK x, y, m : x = state[k] /\ y = state[k + 1] /\ m = moves[k + 1]
    OBVIOUS
  <2>2. y = Transfer(Domain, x, m)
    <3>1. k + 1 \in 1..n /\ (k + 1) - 1 = k
      BY <1>3
    <3> QED
      BY <1>1, <2>1, <3>1 DEF Played
  <2>3. IsState(x)
    BY <1>3, <2>1 DEF Accounted
  <2>4. IsState(y) /\ (y.errors = {} => Exchange(Domain, x, m, y))
    BY <2>2, <2>3, TransferFacts
  <2>5. ASSUME y.errors = {}
        PROVE  /\ Prices(y) /\ Players(y, moves, k + 1) /\ Money(y, moves, k + 1)
               /\ \A i \in 1..(k + 1) : Changes(moves)[i] \in Int
    <3>1. Exchange(Domain, x, moves[k + 1], y)
      BY <2>1, <2>4, <2>5
    <3>2. x.errors = {}
      BY <3>1 DEF Exchange
    <3>3. Prices(x) /\ Players(x, moves, k) /\ Money(x, moves, k) /\ \A i \in 1..k : Changes(moves)[i] \in Int
      BY <1>3, <2>1, <3>2 DEF Accounted
    <3>4. k + 1 \in DOMAIN moves /\ \A i \in 1..k : i \in DOMAIN moves
      BY <1>3
    <3>5. Prices(y)
      BY <3>1, <3>3, PricesStep
    <3>6. Players(y, moves, k + 1)
      BY <3>1, <3>3, PlayersStep
    <3>7. Money(y, moves, k + 1) /\ Changes(moves)[k + 1] \in Int
      BY <2>3, <2>4, <3>1, <3>3, <3>4, MoneyStep
    <3>8. \A i \in 1..(k + 1) : i \in 1..k \/ i = k + 1
      OBVIOUS
    <3> QED
      BY <3>3, <3>5, <3>6, <3>7, <3>8
  <2> QED
    BY <2>1, <2>4, <2>5 DEF Accounted
<1>4. 0 \in G /\ \A k \in Nat : k \in G => k + 1 \in G
  <2> HIDE DEF T
  <2> QED
    BY <1>2, <1>3
<1>5. n \in G
  <2> HIDE DEF G
  <2> QED
    BY <1>4, InductiveSet
<1> QED
  BY <1>1, <1>5

\* Free and paid transfers are all of them.
LEMMA FreeAndPaid ==
  ASSUME NEW count \in Nat, NEW free \in Nat
  PROVE  Min({count, free}) + Max({0, count - free}) = count
<1>1. \E x \in {count, free} : \A y \in {count, free} : x <= y
  OBVIOUS
<1>2. PICK low : low = Min({count, free})
  OBVIOUS
<1>3. low \in {count, free} /\ \A y \in {count, free} : low <= y
  BY <1>1, <1>2 DEF Min
<1>4. \E x \in {0, count - free} : \A y \in {0, count - free} : x >= y
  OBVIOUS
<1>5. PICK high : high = Max({0, count - free})
  OBVIOUS
<1>6. high \in {0, count - free} /\ \A y \in {0, count - free} : high >= y
  BY <1>4, <1>5 DEF Max
<1> QED
  BY <1>2, <1>3, <1>5, <1>6

\* The state between requests, and after a simulation.
Simulated(a) ==
  \E n \in Nat : \E moves \in [1..n -> Named], l \in Lineups, free \in 0..1 :
    LET input == [moves |-> moves, starting |-> l.starting, bench |-> l.bench, captain |-> l.captain,
                  vice |-> l.vice, formation |-> NoFormation, free |-> free]
    IN a.moves = moves /\ a.result = SimulateTransfers(Domain, Squad, input)
Recommended(a) ==
  \E score \in Scores : a.score = score /\ a.result = Recommend(Domain, Squad, score)

AdviceInv ==
  /\ advice.kind = "simulate" => Simulated(advice)
  /\ advice.kind = "recommend" => Recommended(advice)

LEMMA AdviceIsGiven == AdviceSpec => []AdviceInv
<1>1. AdviceInit => AdviceInv
  BY DEF AdviceInit, NoAdvice, AdviceInv
<1>2. ASSUME AdviceInv, [AdviceNext]_advice
      PROVE  AdviceInv'
  <2>1. CASE AskRecommendation
    <3>1. PICK score \in Scores : advice' = [kind |-> "recommend", score |-> score,
                                             result |-> Recommend(Domain, Squad, score)]
      BY <2>1 DEF AskRecommendation
    <3>2. advice'.kind = "recommend" /\ advice'.score = score /\ advice'.result = Recommend(Domain, Squad, score)
      BY <3>1
    <3> QED
      BY <3>2 DEF AdviceInv, Recommended
  <2>2. CASE AskSimulation
    <3>1. PICK n \in 1..MaxMoves : \E moves \in [1..n -> Named], l \in Lineups, free \in 0..1 :
            advice' = [kind |-> "simulate", moves |-> moves, given |-> l.starting # <<>>,
               result |-> SimulateTransfers(Domain, Squad,
                 [moves |-> moves, starting |-> l.starting, bench |-> l.bench, captain |-> l.captain,
                  vice |-> l.vice, formation |-> NoFormation, free |-> free])]
      BY <2>2 DEF AskSimulation
    <3>2. n \in Nat
      BY AdviceAssumption
    <3>3. advice'.kind = "simulate" /\ Simulated(advice')
      BY <3>1, <3>2 DEF Simulated
    <3> QED
      BY <3>3 DEF AdviceInv
  <2>3. CASE advice' = NoAdvice
    BY <2>3 DEF NoAdvice, AdviceInv
  <2>4. CASE UNCHANGED advice
    BY <1>2, <2>4 DEF AdviceInv
  <2> QED
    BY <1>2, <2>1, <2>2, <2>3, <2>4 DEF AdviceNext
<1> QED
  BY <1>1, <1>2, PTL DEF AdviceSpec

\* However transfers chain, one bringing in whom another sends away, a simulation
\* without errors accounts for them: who is in the squad, what it costs, who plays
\* and what is paid in points (transfer_research.go:324-371).
THEOREM SimulationsAddUp == AdviceSpec => []TransfersAddUp
<1>1. ASSUME AdviceInv PROVE TransfersAddUp
  <2> SUFFICES ASSUME Accepted("simulate") PROVE TransfersAddUp
    BY DEF TransfersAddUp
  <2>1. Simulated(advice) /\ advice.result.errors = {}
    BY <1>1 DEF AdviceInv, Accepted
  <2>2. PICK n \in Nat : \E moves \in [1..n -> Named], l \in Lineups, free \in 0..1 :
          LET input == [moves |-> moves, starting |-> l.starting, bench |-> l.bench, captain |-> l.captain,
                        vice |-> l.vice, formation |-> NoFormation, free |-> free]
          IN advice.moves = moves /\ advice.result = SimulateTransfers(Domain, Squad, input)
    BY <2>1 DEF Simulated
  <2>3. PICK moves \in [1..n -> Named], l \in Lineups, free \in 0..1 :
          LET input == [moves |-> moves, starting |-> l.starting, bench |-> l.bench, captain |-> l.captain,
                        vice |-> l.vice, formation |-> NoFormation, free |-> free]
          IN advice.moves = moves /\ advice.result = SimulateTransfers(Domain, Squad, input)
    BY <2>2
  <2>4. PICK input :
          /\ input = [moves |-> moves, starting |-> l.starting, bench |-> l.bench, captain |-> l.captain,
                      vice |-> l.vice, formation |-> NoFormation, free |-> free]
          /\ advice.moves = moves /\ advice.result = SimulateTransfers(Domain, Squad, input)
    BY <2>3
  <2>5. PICK r : r = advice.result
    OBVIOUS
  <2>6. DOMAIN moves = 1..n /\ Len(moves) = n /\ IsList(moves)
    <3>1. moves \in Seq(Named) /\ Len(moves) = n
      BY LenProperties, SeqDef
    <3>2. moves \in [1..n -> ToSet(moves)]
      BY DEF ToSet
    <3> QED
      BY <3>1, <3>2, IsASeq DEF IsList
  <2>7. /\ input.moves = moves /\ IsList(input.starting) /\ IsList(input.bench) /\ input.free = free
    BY <2>4, AdviceAssumption
  <2> DEFINE end == Transferred(Domain, Squad, moves)
  <2>8. /\ r.before = Squad /\ r.after.prices = end.prices /\ end.errors = {}
        /\ r.after.starting # <<>> /\ r.used + r.paid = n /\ r.hit = 4 * r.paid
    <3>1. r = SimulateTransfers(Domain, Squad, input) /\ r.errors = {} /\ "prices" \in DOMAIN Squad
      BY <2>1, <2>4, <2>5, AdviceAssumption DEF IsSquad, NoSquad
    <3>2. PICK ms, e : ms = input.moves /\ e = Transferred(Domain, Squad, ms) /\ ms = moves /\ e = end
      BY <2>7
    <3>3. r.before = Squad /\ e.errors = {} /\ ValidatePlan(Domain, r.after) = {}
      BY ONLY <3>1, <3>2 DEF SimulateTransfers
    <3>4. r.after.prices = e.prices
      BY ONLY <3>1, <3>2 DEF SimulateTransfers
    <3>5. r.used = Min({Len(ms), input.free}) /\ r.paid = Max({0, Len(ms) - input.free}) /\ r.hit = 4 * r.paid
      BY ONLY <3>1, <3>2 DEF SimulateTransfers
    <3>6. r.used + r.paid = Len(ms)
      <4>1. Len(ms) \in Nat /\ input.free \in Nat
        BY <2>6, <2>7, <3>2
      <4> QED
        BY <3>5, <4>1, FreeAndPaid
    <3>7. r.after.starting # <<>>
      <4>1. Len(r.after.starting) = 11
        BY <3>3 DEF ValidatePlan, ValidateLineup, Rule
      <4>2. ASSUME NEW q, q = <<>> PROVE Len(q) # 11
        <5>1. Len(q) = 0
          BY <4>2
        <5> QED
          BY <5>1
      <4> QED
        BY <4>1, <4>2
    <3> HIDE DEF end
    <3> QED
      BY <2>6, <3>2, <3>3, <3>4, <3>5, <3>6, <3>7
  <2>9. ToSet(r.after.starting) \cup ToSet(r.after.bench) = DOMAIN r.after.prices
    <3>1. IsSquad(Squad)
      BY AdviceAssumption
    <3>2. OneSquad(r.after)
      BY <2>1, <2>4, <2>5, <2>6, <2>7, <3>1, SimulationFacts
    <3> QED
      BY <2>8, <3>2 DEF OneSquad
  <2>10. IsState(end) /\ Prices(end) /\ Players(end, moves, n) /\ Money(end, moves, n)
    <3>1. Accounted(end, moves, n)
      BY <2>6, TransfersAreAccounted
    <3> QED
      BY <2>8, <3>1 DEF Accounted
  <2> HIDE DEF end
  <2>11. advice.moves = moves
    BY <2>4
  <2>12. ASSUME NEW p \in DOMAIN Domain
        PROVE  OneIf(p \in DOMAIN r.after.prices) = OneIf(p \in DOMAIN r.before.prices) + Times(p, "in") - Times(p, "out")
    <3>1. \A side : Times(p, side) = Cardinality(Naming(moves, n, p, side))
      BY ONLY <2>6, <2>11 DEF Times, Naming
    <3> QED
      BY <2>8, <2>10, <3>1 DEF Players, Owners
  <2>13. Cost(Domain, r.after) = SumFunction(Book(end.prices)) /\ Cost(Domain, r.before) = SumFunction(Book(Squad.prices))
    <3>1. DOMAIN end.prices \cap DOMAIN Domain = DOMAIN end.prices /\ DOMAIN Squad.prices \cap DOMAIN Domain = DOMAIN Squad.prices
      BY <2>10, ThePlayers DEF Prices, Owners
    <3> QED
      BY <2>8, <3>1 DEF Cost, Book, Owned
  <2>14. SumFunction([i \in DOMAIN advice.moves |-> Change(advice.moves[i], r.before.prices)])
           = SumFunctionOnSet(Changes(moves), 1..n)
    <3>1. [i \in DOMAIN advice.moves |-> Change(advice.moves[i], r.before.prices)] = Changes(moves)
      BY <2>8, <2>11 DEF Changes
    <3>2. DOMAIN Changes(moves) = 1..n
      BY <2>6 DEF Changes
    <3> QED
      BY <3>1, <3>2 DEF SumFunction
  <2>15. r.used + r.paid = Len(advice.moves)
    BY ONLY <2>6, <2>8, <2>11
  <2> QED
    BY <2>5, <2>8, <2>10, <2>9, <2>12, <2>13, <2>14, <2>15 DEF TransfersAddUp, Money
<1> QED
  BY <1>1, AdviceIsGiven, PTL

-----------------------------------------------------------------------------
(* The recommended line-up.                                                *)

BestFirst(score, T) ==
  {x \in T \X T : score[x[1]] > score[x[2]] \/ (score[x[1]] = score[x[2]] /\ x[1] <= x[2])}

\* The players of one position are listed by score.
LEMMA RankedFacts ==
  ASSUME NEW d, NEW S, IsFiniteSet(S), NEW score, NEW r, \A p \in S : p \in Int /\ score[p] \in Int,
         NEW T, T = {p \in S : d[p].position = r}, NEW s, s = Ranked(d, S, score, r)
  PROVE  /\ Enumerates(s, T)
         /\ \A i, j \in 1..Len(s) : i < j => score[s[i]] >= score[s[j]]
<1> DEFINE R == BestFirst(score, T)
           rank == [p \in T |-> Cardinality({q \in T : <<q, p>> \in R})]
<1>1. IsFiniteSet(T) /\ \A p \in T : p \in Int /\ score[p] \in Int
  BY FS_Subset
<1>2. \A p, q \in T : <<p, q>> \in R <=> score[p] > score[q] \/ (score[p] = score[q] /\ p <= q)
  BY DEF BestFirst
<1> HIDE DEF R
<1>3. s = [i \in 1..Cardinality(T) |-> CHOOSE p \in T :
             Cardinality({q \in T : score[q] > score[p] \/ (score[q] = score[p] /\ q <= p)}) = i]
  BY DEF Ranked, Ordered
<1>4. \A p \in T : rank[p] = Cardinality({q \in T : score[q] > score[p] \/ (score[q] = score[p] /\ q <= p)})
  <2>1. ASSUME NEW p \in T
        PROVE  {q \in T : <<q, p>> \in R} = {q \in T : score[q] > score[p] \/ (score[q] = score[p] /\ q <= p)}
    BY <1>2
  <2> QED
    BY <2>1
<1>5. DOMAIN s = 1..Cardinality(T) /\ s = [i \in DOMAIN s |-> s[i]]
  <2> DEFINE place(i) == CHOOSE p \in T :
             Cardinality({q \in T : score[q] > score[p] \/ (score[q] = score[p] /\ q <= p)}) = i
  <2>1. s = [i \in 1..Cardinality(T) |-> place(i)]
    BY ONLY <1>3
  <2> HIDE DEF place
  <2> QED
    BY ONLY <2>1
<1>6. ASSUME NEW i \in 1..Cardinality(T), \E p \in T : rank[p] = i
      PROVE  s[i] \in T /\ rank[s[i]] = i
  <2> DEFINE count(p) == Cardinality({q \in T : score[q] > score[p] \/ (score[q] = score[p] /\ q <= p)})
  <2>1. s[i] = CHOOSE p \in T : count(p) = i
    BY <1>3
  <2>2. \A p \in T : rank[p] = count(p)
    BY <1>4
  <2> HIDE DEF count, rank
  <2> QED
    BY <1>6, <2>1, <2>2
<1>7. Orders(R, T)
  BY <1>1, <1>2 DEF Orders
<1>8. PlacesByRank(s, Ranks(T, R), T)
  <2>1. rank = Ranks(T, R)
    BY DEF Ranks
  <2> HIDE DEF rank
  <2> QED
    BY <1>5, <1>6, <2>1 DEF PlacesByRank
<1> HIDE DEF rank
<1>9. /\ s \in Seq(T) /\ Len(s) = Cardinality(T) /\ Cardinality(T) \in Nat
      /\ s \in Bijection(1..Cardinality(T), T)
      /\ \A i, j \in 1..Cardinality(T) : i < j => <<s[i], s[j]>> \in R
  BY ONLY <1>1, <1>7, <1>8, SortedList
<1>10. Enumerates(s, T)
  BY <1>9, BijectionEnumerates
<1>11. ASSUME NEW i \in 1..Len(s), NEW j \in 1..Len(s), i < j
       PROVE  score[s[i]] >= score[s[j]]
  <2>1. s[i] \in T /\ s[j] \in T
    BY <1>9, ElementOfSeq
  <2>2. <<s[i], s[j]>> \in R
    BY <1>9, <1>11
  <2>3. PICK p, q : p = s[i] /\ q = s[j]
    OBVIOUS
  <2>4. score[p] > score[q] \/ score[p] = score[q]
    BY <1>2, <2>1, <2>2, <2>3
  <2>5. score[p] \in Int /\ score[q] \in Int
    BY <1>1, <2>1, <2>3
  <2> QED
    BY ONLY <2>3, <2>4, <2>5
<1> QED
  BY <1>10, <1>11

KeepersLast(d, score, T) ==
  {x \in T \X T :
    \/ d[x[1]].position # Goalkeeper /\ d[x[2]].position = Goalkeeper
    \/ /\ d[x[1]].position = Goalkeeper <=> d[x[2]].position = Goalkeeper
       /\ score[x[1]] > score[x[2]] \/ (score[x[1]] = score[x[2]] /\ x[1] <= x[2])}

\* The bench lists the players who are left, a goalkeeper at its end.
LEMMA BenchFacts ==
  ASSUME NEW d, NEW T, IsFiniteSet(T), NEW score, \A p \in T : p \in Int /\ score[p] \in Int,
         NEW s, s = BenchOrder(d, T, score)
  PROVE  /\ Enumerates(s, T)
         /\ (\E p \in T : d[p].position = Goalkeeper) => d[Last(s)].position = Goalkeeper
<1> DEFINE R == KeepersLast(d, score, T)
           rank == [p \in T |-> Cardinality({q \in T : <<q, p>> \in R})]
           before(q, p) == LET keepers == <<d[q].position = Goalkeeper, d[p].position = Goalkeeper>> IN
             \/ keepers = <<FALSE, TRUE>>
             \/ keepers[1] = keepers[2] /\ (score[q] > score[p] \/ (score[q] = score[p] /\ q <= p))
           count(p) == Cardinality({q \in T : before(q, p)})
<1>1. \A p, q \in T : <<p, q>> \in R <=>
        \/ d[p].position # Goalkeeper /\ d[q].position = Goalkeeper
        \/ /\ d[p].position = Goalkeeper <=> d[q].position = Goalkeeper
           /\ score[p] > score[q] \/ (score[p] = score[q] /\ p <= q)
  BY DEF KeepersLast
<1> HIDE DEF R
<1>2. s = [i \in 1..Cardinality(T) |-> CHOOSE p \in T : count(p) = i]
  BY DEF BenchOrder, Ordered
<1>3. \A p \in T : rank[p] = count(p)
  <2>1. ASSUME NEW p \in T
        PROVE  {q \in T : <<q, p>> \in R} = {q \in T : before(q, p)}
    <3>1. ASSUME NEW q \in T PROVE <<q, p>> \in R <=> before(q, p)
      <4>1. PICK a, b : a = (d[q].position = Goalkeeper) /\ b = (d[p].position = Goalkeeper)
                        /\ a \in BOOLEAN /\ b \in BOOLEAN
        OBVIOUS
      <4>2. <<a, b>> = <<FALSE, TRUE>> <=> ~a /\ b
        BY <4>1
      <4>3. <<a, b>>[1] = <<a, b>>[2] <=> (a <=> b)
        BY <4>1
      <4> QED
        BY <1>1, <4>1, <4>2, <4>3
    <3> HIDE DEF before
    <3> QED
      BY <3>1
  <2> HIDE DEF before
  <2> QED
    BY <2>1
<1> HIDE DEF count
<1>4. DOMAIN s = 1..Cardinality(T) /\ s = [i \in DOMAIN s |-> s[i]]
  BY ONLY <1>2
<1>5. ASSUME NEW i \in 1..Cardinality(T), \E p \in T : rank[p] = i
      PROVE  s[i] \in T /\ rank[s[i]] = i
  <2> HIDE DEF rank
  <2> QED
    BY <1>2, <1>3, <1>5
<1>6. Orders(R, T)
  BY <1>1 DEF Orders
<1>7. PlacesByRank(s, Ranks(T, R), T)
  <2>1. rank = Ranks(T, R)
    BY DEF Ranks
  <2> HIDE DEF rank
  <2> QED
    BY <1>4, <1>5, <2>1 DEF PlacesByRank
<1> HIDE DEF rank
<1>8. IsFiniteSet(T)
  OBVIOUS
<1>9. /\ s \in Seq(T) /\ Len(s) = Cardinality(T) /\ Cardinality(T) \in Nat
      /\ s \in Bijection(1..Cardinality(T), T)
      /\ \A i, j \in 1..Cardinality(T) : i < j => <<s[i], s[j]>> \in R
  BY ONLY <1>8, <1>6, <1>7, SortedList
<1>10. Enumerates(s, T)
  BY <1>9, BijectionEnumerates
<1>11. ASSUME NEW p \in T, d[p].position = Goalkeeper PROVE d[Last(s)].position = Goalkeeper
  <2>1. PICK i : i \in 1..Len(s) /\ p = s[i]
    BY <1>9 DEF Bijection, Surjection
  <2>2. Last(s) = s[Len(s)] /\ Len(s) \in 1..Len(s)
    BY <1>9, <2>1 DEF Last
  <2>3. CASE i < Len(s)
    <3>1. <<p, Last(s)>> \in R /\ Last(s) \in T
      BY <1>9, <2>1, <2>2, <2>3, ElementOfSeq
    <3> QED
      BY <1>1, <1>11, <3>1
  <2>4. CASE i = Len(s)
    BY <1>11, <2>1, <2>2, <2>4
  <2> QED
    BY <1>9, <2>1, <2>3, <2>4
<1> QED
  BY <1>10, <1>11

First(l) == [captain |-> l[1], vice |-> l[2]]

\* There is a function that satisfies the recursive definition: who leads after
\* each of the starters.
LEMMA CaptainsAreChosen ==
  ASSUME NEW d, NEW l, NEW score, Len(l) \in Nat
  PROVE  \E state : /\ Captains(d, l, score) = state[Len(l)] /\ state[0] = First(l)
                    /\ \A k \in 1..Len(l) : state[k] = Lead(d, score, state[k - 1], l[k])
<1> DEFINE E(n, h) == h = [k \in 0..n |->
             IF k = 0 THEN First(l) ELSE Lead(d, score, h[k - 1], l[k])]
           bad == {n \in Nat : ~ \E h : E(n, h)}
<1>1. ASSUME bad # {}
      PROVE  FALSE
  <2>1. PICK n \in bad : \A m \in bad : n <= m
    BY <1>1, LeastNumber
  <2>2. n # 0
    <3> DEFINE h == [k \in 0..0 |-> First(l)]
    <3>1. E(0, h)
      OBVIOUS
    <3> QED
      BY <3>1
  <2>3. n - 1 \in Nat /\ n \in Nat /\ ~ (n <= n - 1)
    BY <2>2
  <2>4. PICK h : E(n - 1, h)
    <3>1. n - 1 \notin bad
      BY <2>1, <2>3
    <3> HIDE DEF E
    <3> QED
      BY <2>3, <3>1
  <2> DEFINE g == [k \in 0..n |-> IF k = n THEN Lead(d, score, h[n - 1], l[n]) ELSE h[k]]
  <2>5. ASSUME NEW k \in 0..n
        PROVE  g[k] = IF k = 0 THEN First(l) ELSE Lead(d, score, g[k - 1], l[k])
    <3>1. CASE k = n
      BY <2>2, <2>3, <3>1
    <3>2. CASE k # n
      <4>1. k \in 0..(n - 1) /\ g[k] = h[k] /\ (k # 0 => g[k - 1] = h[k - 1])
        BY <2>3, <3>2
      <4> QED
        BY <2>4, <4>1
    <3> QED
      BY <3>1, <3>2
  <2>6. E(n, g)
    <3>1. g = [k \in 0..n |-> g[k]]
      OBVIOUS
    <3> HIDE DEF g
    <3> QED
      BY <2>5, <3>1
  <2> QED
    BY <2>1, <2>6
<1>2. \E h : E(Len(l), h)
  <2> HIDE DEF E
  <2> QED
    BY <1>1
<1>3. PICK state : state = CHOOSE h : E(Len(l), h)
  OBVIOUS
<1>4. E(Len(l), state)
  BY <1>2, <1>3
<1>5. Captains(d, l, score) = state[Len(l)]
  BY <1>3 DEF Captains, First
<1>6. \A k \in 0..Len(l) : state[k] = IF k = 0 THEN First(l) ELSE Lead(d, score, state[k - 1], l[k])
  BY <1>4
<1> HIDE DEF E
<1>7. state[0] = First(l)
  BY <1>6
<1>8. \A k \in 1..Len(l) : state[k] = Lead(d, score, state[k - 1], l[k])
  BY <1>6
<1> QED
  BY <1>5, <1>7, <1>8

\* After k starters the two who lead are two of them, the best of the k and the
\* best of the others; before the second it is the first two.
Leads(c, l, score, k, i, j) ==
  /\ c = [captain |-> l[i], vice |-> l[j]] /\ i # j
  /\ IF k < 2 THEN i = 1 /\ j = 2 ELSE i \in 1..k /\ j \in 1..k
  /\ \A m \in 1..k : score[l[m]] <= score[l[i]] /\ (m # i => score[l[m]] <= score[l[j]])

\* Different players, of whom only the first may keep goal.
OneKeeper(d, l, score, N) ==
  /\ \A m \in 1..N : score[l[m]] \in Int
  /\ \A m \in 2..N : d[l[m]].position # Goalkeeper
  /\ \A m, q \in 1..N : l[m] = l[q] => m = q

LEMMA LeadStep ==
  ASSUME NEW d, NEW l, NEW score, NEW N \in Nat, N >= 2, OneKeeper(d, l, score, N),
         NEW k \in Nat, k + 1 <= N, NEW c, NEW e, e = Lead(d, score, c, l[k + 1]),
         NEW i \in 1..N, NEW j \in 1..N, Leads(c, l, score, k, i, j)
  PROVE  \E x, y \in 1..N : Leads(e, l, score, k + 1, x, y)
<1>1. k + 1 \in 1..N /\ 1..(k + 1) \subseteq 1..N /\ (\A m \in 1..(k + 1) : m \in 1..k \/ m = k + 1)
  OBVIOUS
<1>2. /\ \A m \in 1..N : score[l[m]] \in Int
      /\ \A m \in 2..N : d[l[m]].position # Goalkeeper
      /\ \A m, q \in 1..N : l[m] = l[q] => m = q
  BY DEF OneKeeper
<1>3. PICK p, a : p = l[k + 1] /\ a = d[p].position
  OBVIOUS
<1>4. PICK f : /\ \A m \in 1..N : f[m] = score[l[m]] /\ f[m] \in Int
  <2>1. PICK f : f = [m \in 1..N |-> score[l[m]]]
    OBVIOUS
  <2> QED
    BY ONLY <1>2, <2>1
<1>5. \A m \in 1..k : f[m] <= f[i] /\ (m # i => f[m] <= f[j])
  BY <1>1, <1>4 DEF Leads
<1>6. i # j /\ c = [captain |-> l[i], vice |-> l[j]] /\ IF k < 2 THEN i = 1 /\ j = 2 ELSE i \in 1..k /\ j \in 1..k
  BY DEF Leads
<1>7. e = IF a # Goalkeeper /\ f[k + 1] > f[i] THEN [captain |-> p, vice |-> c.captain]
          ELSE IF p # c.captain /\ f[k + 1] > f[j] THEN [c EXCEPT !.vice = p] ELSE c
  BY <1>1, <1>3, <1>4, <1>6 DEF Lead
<1>8. CASE a # Goalkeeper /\ f[k + 1] > f[i]
  <2>1. e = [captain |-> l[k + 1], vice |-> l[i]]
    BY <1>3, <1>6, <1>7, <1>8
  <2>2. k # 0 /\ i # k + 1 /\ i \in 1..k
    BY <1>4, <1>6, <1>8
  <2>3. \A m \in 1..(k + 1) : f[m] <= f[k + 1] /\ (m # k + 1 => f[m] <= f[i])
    BY <1>1, <1>4, <1>5, <1>8
  <2>4. Leads(e, l, score, k + 1, k + 1, i)
    BY <1>1, <1>4, <2>1, <2>2, <2>3 DEF Leads
  <2> QED
    BY <1>1, <2>4
<1>9. CASE ~ (a # Goalkeeper /\ f[k + 1] > f[i]) /\ p # c.captain /\ f[k + 1] > f[j]
  <2>1. e = [c EXCEPT !.vice = p]
    BY ONLY <1>7, <1>9
  <2>2. k # 0 /\ i # k + 1
    BY <1>3, <1>6, <1>9
  <2>3. a # Goalkeeper
    BY <1>2, <1>1, <1>3, <2>2
  <2>4. f[k + 1] <= f[i]
    BY <1>1, <1>4, <1>9, <2>3
  <2>5. \A m \in 1..(k + 1) : f[m] <= f[i] /\ (m # i => f[m] <= f[k + 1])
    BY <1>1, <1>4, <1>5, <1>9, <2>4
  <2>6. i \in 1..(k + 1) /\ k + 1 \in 1..(k + 1) /\ ~(k + 1 < 2)
    BY <1>6, <2>2
  <2>7. e = [captain |-> l[i], vice |-> l[k + 1]]
    BY <1>3, <1>6, <2>1
  <2>8. Leads(e, l, score, k + 1, i, k + 1)
    BY <1>1, <1>4, <2>2, <2>5, <2>6, <2>7 DEF Leads
  <2> QED
    BY <1>1, <2>8
<1>10. CASE ~ (a # Goalkeeper /\ f[k + 1] > f[i]) /\ ~ (p # c.captain /\ f[k + 1] > f[j])
  <2>1. e = c
    BY ONLY <1>7, <1>10
  <2>2. f[k + 1] <= f[i]
    <3>1. CASE k = 0
      BY <1>1, <1>4, <1>6, <3>1
    <3>2. CASE k # 0
      <4>1. k + 1 \in 2..N
        BY <3>2
      <4>2. a # Goalkeeper
        BY <1>2, <1>3, <4>1
      <4> QED
        BY <1>1, <1>4, <1>10, <4>2
    <3> QED
      BY <3>1, <3>2
  <2>3. k + 1 # i => f[k + 1] <= f[j]
    <3>1. ASSUME k + 1 # i PROVE p # c.captain
      BY <1>2, <1>1, <1>3, <1>6, <3>1
    <3> QED
      BY <1>1, <1>4, <1>10, <3>1
  <2>4. \A m \in 1..(k + 1) : f[m] <= f[i] /\ (m # i => f[m] <= f[j])
    BY <1>1, <1>5, <2>2, <2>3
  <2>5. IF k + 1 < 2 THEN i = 1 /\ j = 2 ELSE i \in 1..(k + 1) /\ j \in 1..(k + 1)
    BY <1>6
  <2>6. Leads(e, l, score, k + 1, i, j)
    BY <1>1, <1>4, <1>6, <2>1, <2>4, <2>5 DEF Leads
  <2> QED
    BY <2>6
<1> QED
  BY <1>8, <1>9, <1>10

LEMMA CaptainsFacts ==
  ASSUME NEW d, NEW l, NEW S, Enumerates(l, S), NEW score, Len(l) >= 2, \A p \in S : score[p] \in Int,
         \A m \in 2..Len(l) : d[l[m]].position # Goalkeeper, NEW c, c = Captains(d, l, score)
  PROVE  /\ c.captain \in S /\ c.vice \in S /\ c.captain # c.vice
         /\ \A p \in S : score[p] <= score[c.captain]
         /\ \A p \in S \ {c.captain} : score[p] <= score[c.vice]
<1>1. PICK N : N = Len(l)
  OBVIOUS
<1>2. N \in Nat /\ N >= 2 /\ (\A m \in 1..N : l[m] \in S) /\ (\A m, q \in 1..N : l[m] = l[q] => m = q)
      /\ (\A p \in S : \E m \in 1..N : p = l[m])
  BY <1>1, EnumerationFacts DEF Bijection, Injection, Surjection, IsInjective
<1>3. PICK state : /\ Captains(d, l, score) = state[Len(l)] /\ state[0] = First(l)
                   /\ \A k \in 1..Len(l) : state[k] = Lead(d, score, state[k - 1], l[k])
  <2>1. Len(l) \in Nat
    BY <1>1, <1>2
  <2> QED
    BY ONLY <2>1, CaptainsAreChosen
<1>4. c = state[N] /\ state[0] = First(l) /\ \A k \in 1..N : state[k] = Lead(d, score, state[k - 1], l[k])
  BY <1>1, <1>3
<1>5. OneKeeper(d, l, score, N)
  BY <1>1, <1>2 DEF OneKeeper
<1> DEFINE T(k) == k <= N => \E i, j \in 1..N : Leads(state[k], l, score, k, i, j)
           G == {k \in Nat : T(k)}
<1>6. T(0)
  <2>1. Leads(state[0], l, score, 0, 1, 2)
    BY <1>4 DEF Leads, First
  <2> QED
    BY <1>2, <2>1
<1>7. ASSUME NEW k \in Nat, T(k) PROVE T(k + 1)
  <2> SUFFICES ASSUME k + 1 <= N PROVE \E i, j \in 1..N : Leads(state[k + 1], l, score, k + 1, i, j)
    OBVIOUS
  <2>1. PICK b, e : b = state[k] /\ e = state[k + 1]
    OBVIOUS
  <2>2. PICK i \in 1..N, j \in 1..N : Leads(b, l, score, k, i, j)
    BY <1>2, <1>7, <2>1
  <2>3. e = Lead(d, score, b, l[k + 1])
    <3>1. k + 1 \in 1..N /\ (k + 1) - 1 = k
      BY <1>2
    <3> QED
      BY <1>4, <2>1, <3>1
  <2>4. k + 1 <= N /\ k \in Nat
    OBVIOUS
  <2>5. \E x, y \in 1..N : Leads(e, l, score, k + 1, x, y)
    BY ONLY <1>2, <1>5, <2>2, <2>3, <2>4, LeadStep
  <2> QED
    BY <2>1, <2>5
<1>8. 0 \in G /\ \A k \in Nat : k \in G => k + 1 \in G
  <2> HIDE DEF T
  <2> QED
    BY <1>6, <1>7
<1>9. N \in G
  <2> HIDE DEF G
  <2> QED
    BY <1>2, <1>8, InductiveSet
<1>10. \E i, j \in 1..N : Leads(state[N], l, score, N, i, j)
  <2>1. T(N)
    BY ONLY <1>9
  <2>2. N <= N
    BY ONLY <1>2
  <2> QED
    BY ONLY <2>1, <2>2
<1>11. PICK i \in 1..N, j \in 1..N : Leads(c, l, score, N, i, j)
  <2>1. c = state[N]
    BY <1>4
  <2> QED
    BY ONLY <1>10, <2>1
<1>12. c.captain = l[i] /\ c.vice = l[j] /\ i # j
      /\ \A m \in 1..N : score[l[m]] <= score[l[i]] /\ (m # i => score[l[m]] <= score[l[j]])
  BY <1>11 DEF Leads
<1> QED
  BY <1>2, <1>12

\* The players of a squad who play in a position.
In(d, S, r) == {p \in S : d[p].position = r}

Full(d, S) ==
  /\ IsFiniteSet(S) /\ Cardinality(S) = 15 /\ S \subseteq DOMAIN d
  /\ Cardinality(In(d, S, 1)) = 2 /\ Cardinality(In(d, S, 2)) = 5
  /\ Cardinality(In(d, S, 3)) = 5 /\ Cardinality(In(d, S, 4)) = 3

LEMMA LegalSquadIsFull ==
  ASSUME NEW d, NEW s, IsFiniteSet(DOMAIN s.prices), ValidateSquad(d, s) = {}
  PROVE  Full(d, DOMAIN s.prices)
<1>1. PICK S : S = DOMAIN s.prices
  OBVIOUS
<1>2. Cardinality(S) = 15 /\ S \ DOMAIN d = {} /\ \A r \in 1..4 : CountOf(d, S, r) = <<2, 5, 5, 3>>[r]
  BY <1>1 DEF ValidateSquad, Rule
<1>3. S \cap DOMAIN d = S /\ S \subseteq DOMAIN d
  BY <1>2
<1>4. \A r : CountOf(d, S, r) = Cardinality(In(d, S, r))
  BY <1>3 DEF CountOf, In
<1>5. \A r \in 1..4 : Cardinality(In(d, S, r)) = <<2, 5, 5, 3>>[r]
  BY <1>2, <1>4
<1> QED
  BY <1>1, <1>2, <1>3, <1>5 DEF Full

\* Ten outfield players, one defender at least, and no more of a position than
\* a squad has.
LEMMA FormationFacts ==
  ASSUME NEW f \in ToSet(Formations)
  PROVE  /\ f[1] \in 1..5 /\ f[2] \in 0..5 /\ f[3] \in 0..3 /\ f[1] + f[2] + f[3] = 10
         /\ f = [r \in 1..3 |-> f[r]] /\ f # <<>>
<1>1. \A i \in DOMAIN Formations : i \in 1..8
  BY DEF Formations
<1>2. PICK i \in 1..8 : f = Formations[i]
  BY <1>1 DEF ToSet
<1>3. f \in {<<3, 4, 3>>, <<3, 5, 2>>, <<4, 5, 1>>, <<4, 4, 2>>,
             <<4, 3, 3>>, <<5, 4, 1>>, <<5, 3, 2>>, <<5, 2, 3>>}
  BY <1>2 DEF Formations
<1>4. ASSUME NEW a \in 1..5, NEW b \in 0..5, NEW c \in 0..3, a + b + c = 10, f = <<a, b, c>>
      PROVE  /\ f[1] \in 1..5 /\ f[2] \in 0..5 /\ f[3] \in 0..3 /\ f[1] + f[2] + f[3] = 10
             /\ f = [r \in 1..3 |-> f[r]] /\ f # <<>>
  BY <1>4
<1> QED
  BY <1>3, <1>4

\* The best n players of a position.
Top(d, S, score, r, n) == {Ranked(d, S, score, r)[i] : i \in 1..n}

Scored(S, score) == \A p \in S : p \in Int /\ score[p] \in Int

\* They are listed by t, and are as many as asked for.
Tops(t, E, d, S, score, r, n) ==
  /\ t = SubSeq(Ranked(d, S, score, r), 1, n) /\ E = Top(d, S, score, r, n)
  /\ n \in 0..Cardinality(In(d, S, r))

\* No other set of as many members scores more.
ScoresMost(E, score, T) ==
  \A A \in SUBSET T : Cardinality(A) = Cardinality(E) => SumFunctionOnSet(score, A) <= SumFunctionOnSet(score, E)

LEMMA TopFacts ==
  ASSUME NEW d, NEW S, NEW score, NEW r, NEW n, NEW t, NEW E,
         IsFiniteSet(S), Scored(S, score), Tops(t, E, d, S, score, r, n)
  PROVE  /\ Enumerates(t, E) /\ Len(t) = n /\ E \subseteq In(d, S, r)
         /\ IsFiniteSet(E) /\ Cardinality(E) = n /\ SumFunctionOnSet(score, E) \in Int
         /\ ScoresMost(E, score, In(d, S, r))
<1>1. PICK T, s : T = In(d, S, r) /\ s = Ranked(d, S, score, r)
  OBVIOUS
<1>2. Enumerates(s, T) /\ \A i, j \in 1..Len(s) : i < j => score[s[i]] >= score[s[j]]
  <2>1. T = {p \in S : d[p].position = r}
    BY <1>1 DEF In
  <2>2. \A p \in S : p \in Int /\ score[p] \in Int
    BY DEF Scored
  <2> QED
    BY <1>1, <2>1, <2>2, RankedFacts
<1>3. t = SubSeq(s, 1, n) /\ E = {s[i] : i \in 1..n} /\ n \in 0..Cardinality(T)
  BY <1>1 DEF Tops, Top
<1>4. Len(s) \in Nat /\ DOMAIN s = 1..Len(s) /\ s \in Bijection(1..Len(s), T) /\ IsFiniteSet(T) /\ Cardinality(T) = Len(s)
  BY <1>2, EnumerationFacts
<1>5. n \in 0..Len(s) /\ n \in Nat
  BY <1>3, <1>4
<1>6. E = {s[i] : i \in 1..n}
  BY <1>3
<1>7. Enumerates(t, E) /\ Len(t) = n
  BY <1>3, <1>2, <1>5, Prefix
<1>8. IsFiniteSet(E) /\ Cardinality(E) = n
  BY <1>7, EnumerationFacts
<1>9. E \subseteq T
  BY <1>4, <1>5, <1>6 DEF Bijection, Injection
<1>10. \A p \in T : score[p] \in Int
  BY <1>1 DEF In, Scored
<1>11. SumFunctionOnSet(score, E) \in Int
  BY <1>8, <1>9, <1>10, SumType
<1>12. ASSUME NEW x \in T \ E, NEW y \in E
       PROVE  score[x] <= score[y]
  <2>1. PICK i \in 1..Len(s) : x = s[i]
    BY <1>4 DEF Bijection, Surjection
  <2>2. PICK j \in 1..n : y = s[j]
    BY <1>6
  <2>3. i \notin 1..n
    BY <1>6, <2>1
  <2>4. j < i /\ j \in 1..Len(s)
    BY <1>5, <2>3
  <2>5. score[y] >= score[x]
    BY <1>2, <2>1, <2>2, <2>4
  <2>6. score[x] \in Int /\ score[y] \in Int
    BY <1>9, <1>10
  <2> QED
    BY ONLY <2>5, <2>6
<1>13. ASSUME NEW A \in SUBSET T, Cardinality(A) = Cardinality(E)
       PROVE  SumFunctionOnSet(score, A) <= SumFunctionOnSet(score, E)
  <2>1. A \subseteq T /\ Cardinality(A) = Cardinality(E)
    BY <1>8, <1>13
  <2> QED
    BY ONLY <1>4, <1>9, <1>10, <1>12, <2>1, SumOfBest
<1>14. ScoresMost(E, score, T)
  BY <1>13 DEF ScoresMost
<1> QED
  BY <1>1, <1>7, <1>8, <1>9, <1>11, <1>14

\* The line-up of a formation.
LineOf(d, S, score, f) ==
  SubSeq(Ranked(d, S, score, 1), 1, 1) \o SubSeq(Ranked(d, S, score, 2), 1, f[1])
    \o SubSeq(Ranked(d, S, score, 3), 1, f[2]) \o SubSeq(Ranked(d, S, score, 4), 1, f[3])

\* The score of a line-up is what the players of each position add.
ScoresTogether(l, score, E1, E2, E3, E4) ==
  \E x1, x2, x3, x4 \in Int :
    /\ x1 = SumFunctionOnSet(score, E1) /\ x2 = SumFunctionOnSet(score, E2)
    /\ x3 = SumFunctionOnSet(score, E3) /\ x4 = SumFunctionOnSet(score, E4)
    /\ TotalScore(score, l) = x1 + x2 + x3 + x4

\* The best of each position, eleven in all: a list that starts with the goalkeeper.
LEMMA LineFacts ==
  ASSUME NEW d, NEW S, NEW score, NEW f \in ToSet(Formations), NEW l, NEW E1, NEW E2, NEW E3, NEW E4,
         Full(d, S), Scored(S, score), l = LineOf(d, S, score, f),
         E1 = Top(d, S, score, 1, 1), E2 = Top(d, S, score, 2, f[1]),
         E3 = Top(d, S, score, 3, f[2]), E4 = Top(d, S, score, 4, f[3])
  PROVE  /\ Enumerates(l, E1 \cup E2 \cup E3 \cup E4) /\ Len(l) = 11 /\ TotalScore(score, l) \in Int
         /\ \A m \in 2..Len(l) : l[m] \in E2 \cup E3 \cup E4
         /\ ScoresTogether(l, score, E1, E2, E3, E4)
<1>1. PICK t1, t2, t3, t4, a, b, c :
        /\ t1 = SubSeq(Ranked(d, S, score, 1), 1, 1) /\ t2 = SubSeq(Ranked(d, S, score, 2), 1, a)
        /\ t3 = SubSeq(Ranked(d, S, score, 3), 1, b) /\ t4 = SubSeq(Ranked(d, S, score, 4), 1, c)
        /\ a = f[1] /\ b = f[2] /\ c = f[3]
  OBVIOUS
<1>2. l = ((t1 \o t2) \o t3) \o t4
  BY <1>1 DEF LineOf
<1>3. a \in 1..5 /\ b \in 0..5 /\ c \in 0..3 /\ a + b + c = 10
  BY <1>1, FormationFacts
<1>4. /\ 1 \in 0..Cardinality(In(d, S, 1)) /\ a \in 0..Cardinality(In(d, S, 2))
      /\ b \in 0..Cardinality(In(d, S, 3)) /\ c \in 0..Cardinality(In(d, S, 4))
      /\ IsFiniteSet(S) /\ Scored(S, score)
  BY <1>3 DEF Full
<1>5. E1 = Top(d, S, score, 1, 1) /\ E2 = Top(d, S, score, 2, a)
      /\ E3 = Top(d, S, score, 3, b) /\ E4 = Top(d, S, score, 4, c)
  BY <1>1
<1>6. Tops(t1, E1, d, S, score, 1, 1) /\ Tops(t2, E2, d, S, score, 2, a)
      /\ Tops(t3, E3, d, S, score, 3, b) /\ Tops(t4, E4, d, S, score, 4, c)
  BY <1>1, <1>5, <1>4 DEF Tops
<1>7. IsFiniteSet(S) /\ Scored(S, score)
  BY <1>4
<1>8. Enumerates(t1, E1) /\ Len(t1) = 1 /\ E1 \subseteq In(d, S, 1) /\ IsFiniteSet(E1) /\ SumFunctionOnSet(score, E1) \in Int
  <2>1. PICK r, n : r = 1 /\ n = 1 /\ Tops(t1, E1, d, S, score, r, n)
    BY <1>6
  <2>2. Tops(t1, E1, d, S, score, r, n) /\ IsFiniteSet(S) /\ Scored(S, score)
    BY <1>4, <2>1
  <2>3. Enumerates(t1, E1) /\ Len(t1) = n /\ E1 \subseteq In(d, S, r) /\ IsFiniteSet(E1) /\ SumFunctionOnSet(score, E1) \in Int
    BY ONLY <2>2, TopFacts
  <2> QED
    BY <2>1, <2>3
<1>9. Enumerates(t2, E2) /\ Len(t2) = a /\ E2 \subseteq In(d, S, 2) /\ IsFiniteSet(E2) /\ SumFunctionOnSet(score, E2) \in Int
  BY ONLY <1>6, <1>7, TopFacts
<1>10. Enumerates(t3, E3) /\ Len(t3) = b /\ E3 \subseteq In(d, S, 3) /\ IsFiniteSet(E3) /\ SumFunctionOnSet(score, E3) \in Int
  BY ONLY <1>6, <1>7, TopFacts
<1>11. Enumerates(t4, E4) /\ Len(t4) = c /\ E4 \subseteq In(d, S, 4) /\ IsFiniteSet(E4) /\ SumFunctionOnSet(score, E4) \in Int
  BY ONLY <1>6, <1>7, TopFacts
<1>12. PICK U, V : U = E1 \cup E2 /\ V = U \cup E3
  OBVIOUS
<1>13. E1 \cap E2 = {} /\ U \cap E3 = {} /\ V \cap E4 = {}
  <2>1. /\ \A p \in E1 : d[p].position = 1
        /\ \A p \in E2 : d[p].position = 2
        /\ \A p \in E3 : d[p].position = 3
        /\ \A p \in E4 : d[p].position = 4
    BY <1>8, <1>9, <1>10, <1>11 DEF In
  <2>2. E1 \cap E2 = {}
    BY ONLY <2>1
  <2>3. U \cap E3 = {}
    BY ONLY <1>12, <2>1
  <2>4. V \cap E4 = {}
    BY ONLY <1>12, <2>1
  <2> QED
    BY ONLY <2>2, <2>3, <2>4
<1>14. \A p \in V \cup E4 : score[p] \in Int
  BY <1>8, <1>9, <1>10, <1>11, <1>12 DEF In, Scored
<1>15. PICK u : u = t1 \o t2
  OBVIOUS
<1>16. Enumerates(u, U) /\ Len(u) = 1 + a /\ \A i \in 1..a : u[1 + i] = t2[i]
  <2>1. /\ Enumerates(t1 \o t2, E1 \cup E2) /\ Len(t1 \o t2) = Len(t1) + Len(t2)
        /\ \A i \in 1..Len(t2) : (t1 \o t2)[Len(t1) + i] = t2[i]
    <3>1. Enumerates(t1, E1) /\ Enumerates(t2, E2) /\ E1 \cap E2 = {}
      BY <1>8, <1>9, <1>13
    <3> QED
      BY ONLY <3>1, Joined
  <2> QED
    BY ONLY <1>8, <1>9, <1>12, <1>15, <2>1
<1>17. PICK v : v = u \o t3
  OBVIOUS
<1>18. /\ Enumerates(v, V) /\ Len(v) = 1 + a + b
       /\ \A i \in 1..(1 + a) : v[i] = u[i]
       /\ \A i \in 1..b : v[1 + a + i] = t3[i]
  <2>1. /\ Enumerates(u \o t3, U \cup E3) /\ Len(u \o t3) = Len(u) + Len(t3)
        /\ \A i \in 1..Len(u) : (u \o t3)[i] = u[i]
        /\ \A i \in 1..Len(t3) : (u \o t3)[Len(u) + i] = t3[i]
    BY ONLY <1>10, <1>13, <1>16, Joined
  <2> QED
    BY ONLY <1>10, <1>12, <1>16, <1>17, <2>1
<1>19. /\ Enumerates(l, V \cup E4) /\ Len(l) = 1 + a + b + c
       /\ \A i \in 1..(1 + a + b) : l[i] = v[i]
       /\ \A i \in 1..c : l[1 + a + b + i] = t4[i]
  <2>1. /\ Enumerates(v \o t4, V \cup E4) /\ Len(v \o t4) = Len(v) + Len(t4)
        /\ \A i \in 1..Len(v) : (v \o t4)[i] = v[i]
        /\ \A i \in 1..Len(t4) : (v \o t4)[Len(v) + i] = t4[i]
    BY ONLY <1>11, <1>13, <1>18, Joined
  <2>2. l = v \o t4
    BY ONLY <1>2, <1>15, <1>17
  <2> QED
    BY ONLY <1>11, <1>18, <2>1, <2>2
<1>20. (\A i \in 1..a : t2[i] \in E2) /\ (\A i \in 1..b : t3[i] \in E3) /\ (\A i \in 1..c : t4[i] \in E4)
  <2>1. ASSUME NEW t, NEW T, NEW n, Enumerates(t, T), Len(t) = n, NEW i \in 1..n PROVE t[i] \in T
    BY ONLY <2>1, EnumerationFacts DEF Bijection, Injection
  <2> QED
    BY ONLY <1>9, <1>10, <1>11, <2>1
<1>21. ASSUME NEW m \in 2..Len(l) PROVE l[m] \in E2 \cup E3 \cup E4
  <2>1. CASE m - 1 \in 1..a
    <3>1. PICK i : i = m - 1
      OBVIOUS
    <3>2. m = 1 + i /\ i \in 1..a /\ m \in 1..(1 + a) /\ m \in 1..(1 + a + b)
      BY <1>3, <2>1, <3>1
    <3> QED
      BY <1>16, <1>18, <1>19, <1>20, <3>2
  <2>2. CASE m - 1 - a \in 1..b
    <3>1. PICK i : i = m - 1 - a
      OBVIOUS
    <3>2. m = 1 + a + i /\ i \in 1..b /\ m \in 1..(1 + a + b)
      BY <1>3, <2>2, <3>1
    <3> QED
      BY <1>18, <1>19, <1>20, <3>2
  <2>3. CASE m - 1 - a - b \in 1..c
    <3>1. PICK i : i = m - 1 - a - b
      OBVIOUS
    <3>2. m = 1 + a + b + i /\ i \in 1..c
      BY <1>3, <2>3, <3>1
    <3> QED
      BY <1>19, <1>20, <3>2
  <2>4. m \in 2..(1 + a + b + c)
    BY <1>19
  <2> QED
    BY <1>3, <2>1, <2>2, <2>3, <2>4
<1>22. PICK x1, x2, x3, x4 :
         /\ x1 = SumFunctionOnSet(score, E1) /\ x2 = SumFunctionOnSet(score, E2)
         /\ x3 = SumFunctionOnSet(score, E3) /\ x4 = SumFunctionOnSet(score, E4)
  OBVIOUS
<1>23. SumFunctionOnSet(score, U) = x1 + x2 /\ IsFiniteSet(U)
  <2>1. \A p \in E1 \cup E2 : score[p] \in Int
    BY <1>12, <1>14
  <2>2. SumFunctionOnSet(score, E1 \cup E2) = SumFunctionOnSet(score, E1) + SumFunctionOnSet(score, E2)
    BY ONLY <1>8, <1>9, <1>13, <2>1, SumUnion
  <2>3. IsFiniteSet(E1 \cup E2)
    BY <1>8, <1>9, FS_Union
  <2> QED
    BY <1>12, <1>22, <2>2, <2>3
<1>24. SumFunctionOnSet(score, V) = x1 + x2 + x3 /\ IsFiniteSet(V)
  <2>1. \A p \in U \cup E3 : score[p] \in Int
    BY <1>12, <1>14
  <2>2. SumFunctionOnSet(score, U \cup E3) = SumFunctionOnSet(score, U) + SumFunctionOnSet(score, E3)
    BY ONLY <1>10, <1>13, <1>23, <2>1, SumUnion
  <2>3. IsFiniteSet(U \cup E3)
    BY <1>10, <1>23, FS_Union
  <2> QED
    BY <1>12, <1>22, <1>23, <2>2, <2>3
<1>25. SumFunctionOnSet(score, V \cup E4) = x1 + x2 + x3 + x4
  <2>1. SumFunctionOnSet(score, V \cup E4) = SumFunctionOnSet(score, V) + SumFunctionOnSet(score, E4)
    BY ONLY <1>11, <1>13, <1>14, <1>24, SumUnion
  <2> QED
    BY <1>22, <1>24, <2>1
<1>26. TotalScore(score, l) = SumFunctionOnSet(score, V \cup E4)
  <2>1. SumFunction([i \in DOMAIN l |-> score[l[i]]]) = SumFunctionOnSet(score, V \cup E4)
    BY ONLY <1>14, <1>19, SumOfList
  <2> QED
    BY <2>1 DEF TotalScore
<1>27. Len(l) = 11
  BY <1>3, <1>19
<1>28. V \cup E4 = E1 \cup E2 \cup E3 \cup E4
  BY <1>12
<1>29. TotalScore(score, l) \in Int
  BY <1>8, <1>9, <1>10, <1>11, <1>22, <1>25, <1>26
<1>30. x1 \in Int /\ x2 \in Int /\ x3 \in Int /\ x4 \in Int /\ TotalScore(score, l) = x1 + x2 + x3 + x4
  BY <1>8, <1>9, <1>10, <1>11, <1>22, <1>25, <1>26
<1>31. ScoresTogether(l, score, E1, E2, E3, E4)
  BY ONLY <1>22, <1>30, Zenon DEF ScoresTogether
<1>32. Enumerates(l, E1 \cup E2 \cup E3 \cup E4)
  BY <1>19, <1>28
<1> QED
  BY <1>21, <1>27, <1>29, <1>31, <1>32

\* The line-up is that of a formation, and that of no other one scores more.
LEMMA BestFormation ==
  ASSUME NEW d, NEW S, Full(d, S), NEW score, Scored(S, score)
  PROVE  \E f \in ToSet(Formations) :
           /\ BestStarters(d, S, score) = LineOf(d, S, score, f)
           /\ \A g \in ToSet(Formations) :
                TotalScore(score, LineOf(d, S, score, g)) <= TotalScore(score, LineOf(d, S, score, f))
<1>1. DOMAIN Formations = 1..8
  BY DEF Formations
<1> DEFINE total == [i \in 1..8 |-> TotalScore(score, LineOf(d, S, score, Formations[i]))]
<1>2. ASSUME NEW i \in 1..8
      PROVE  total[i] \in Int
  <2>1. PICK f : f = Formations[i] /\ f \in ToSet(Formations)
    BY <1>1 DEF ToSet
  <2>2. PICK l, E1, E2, E3, E4 :
          /\ l = LineOf(d, S, score, f)
          /\ E1 = Top(d, S, score, 1, 1) /\ E2 = Top(d, S, score, 2, f[1])
          /\ E3 = Top(d, S, score, 3, f[2]) /\ E4 = Top(d, S, score, 4, f[3])
    OBVIOUS
  <2>3. TotalScore(score, l) \in Int
    BY <2>1, <2>2, LineFacts
  <2> QED
    BY <2>1, <2>2, <2>3
<1> DEFINE Totals == {total[i] : i \in 1..8}
<1>3. Totals # {} /\ Totals \subseteq Int /\ IsFiniteSet(Totals)
  <2> HIDE DEF total
  <2>1. IsFiniteSet(1..8)
    <3>1. 1 \in Int /\ 8 \in Int
      OBVIOUS
    <3> QED
      BY ONLY <3>1, FS_Interval
  <2> QED
    BY <1>2, <2>1, FiniteImage
<1> DEFINE firsts == {i \in 1..8 : \A j \in 1..8 : total[j] <= total[i]}
<1>4. firsts # {}
  <2>1. Max(Totals) \in Totals /\ \A x \in Totals : x <= Max(Totals)
    <3> HIDE DEF Totals
    <3> QED
      BY <1>3, GreatestNumber
  <2>2. PICK m : m = Max(Totals)
    OBVIOUS
  <2>3. PICK i \in 1..8 : m = total[i]
    BY <2>1, <2>2
  <2> HIDE DEF total
  <2>4. \A j \in 1..8 : total[j] <= total[i]
    BY <2>1, <2>2, <2>3
  <2> QED
    BY <2>4
<1>5. PICK first : first = Min(firsts) /\ first \in firsts
  <2>1. firsts \in SUBSET Nat
    OBVIOUS
  <2>2. \E x \in firsts : \A y \in firsts : x <= y
    <3> HIDE DEF firsts
    <3> QED
      BY <1>4, <2>1, LeastNumber
  <2> HIDE DEF firsts
  <2> QED
    BY <2>2 DEF Min
<1>6. PICK f : f = Formations[first] /\ f \in ToSet(Formations)
  BY <1>1, <1>5 DEF ToSet
<1>7. BestStarters(d, S, score) = LineOf(d, S, score, f)
  <2> DEFINE best == [r \in 1..4 |-> Ranked(d, S, score, r)]
             lineup(g) == SubSeq(best[1], 1, 1) \o SubSeq(best[2], 1, g[1])
                            \o SubSeq(best[3], 1, g[2]) \o SubSeq(best[4], 1, g[3])
  <2>1. ASSUME NEW g PROVE lineup(g) = LineOf(d, S, score, g)
    <3>1. best[1] = Ranked(d, S, score, 1) /\ best[2] = Ranked(d, S, score, 2)
          /\ best[3] = Ranked(d, S, score, 3) /\ best[4] = Ranked(d, S, score, 4)
      OBVIOUS
    <3> HIDE DEF best
    <3> QED
      BY <3>1 DEF LineOf
  <2>2. BestStarters(d, S, score) =
          lineup(Formations[Min({i \in DOMAIN Formations : \A j \in DOMAIN Formations :
            [k \in DOMAIN Formations |-> TotalScore(score, lineup(Formations[k]))][j]
              <= [k \in DOMAIN Formations |-> TotalScore(score, lineup(Formations[k]))][i]})])
    BY DEF BestStarters
  <2> HIDE DEF lineup
  <2>3. [k \in DOMAIN Formations |-> TotalScore(score, lineup(Formations[k]))] = total
    BY <1>1, <2>1
  <2> HIDE DEF total
  <2>4. BestStarters(d, S, score) = lineup(Formations[Min(firsts)])
    BY <1>1, <2>2, <2>3
  <2> QED
    BY <1>5, <1>6, <2>1, <2>4
<1>8. ASSUME NEW g \in ToSet(Formations)
      PROVE  TotalScore(score, LineOf(d, S, score, g)) <= TotalScore(score, LineOf(d, S, score, f))
  <2>1. PICK j \in 1..8 : g = Formations[j]
    BY <1>1 DEF ToSet
  <2>2. total[j] <= total[first]
    BY <1>5
  <2>3. total[j] = TotalScore(score, LineOf(d, S, score, g)) /\ total[first] = TotalScore(score, LineOf(d, S, score, f))
    BY <1>5, <1>6, <2>1
  <2> QED
    BY ONLY <2>2, <2>3
<1> QED
  BY <1>6, <1>7, <1>8

\* No other choice of n players of a position scores more than the first n.
LEMMA MostFacts ==
  ASSUME NEW d, NEW S, NEW score, NEW r, NEW n,
         IsFiniteSet(S), Scored(S, score), n \in 0..Cardinality(In(d, S, r))
  PROVE  /\ Max({SumFunctionOnSet(score, A) : A \in kSubset(n, In(d, S, r))})
              <= SumFunctionOnSet(score, Top(d, S, score, r, n))
         /\ Max({SumFunctionOnSet(score, A) : A \in kSubset(n, In(d, S, r))}) \in Int
         /\ SumFunctionOnSet(score, Top(d, S, score, r, n)) \in Int
<1>1. PICK t, E : t = SubSeq(Ranked(d, S, score, r), 1, n) /\ E = Top(d, S, score, r, n)
  OBVIOUS
<1>2. Tops(t, E, d, S, score, r, n)
  BY <1>1 DEF Tops
<1>3. E \subseteq In(d, S, r) /\ Cardinality(E) = n /\ SumFunctionOnSet(score, E) \in Int
      /\ ScoresMost(E, score, In(d, S, r))
  BY <1>2, TopFacts
<1>4. PICK sums : sums = {SumFunctionOnSet(score, A) : A \in kSubset(n, In(d, S, r))}
  OBVIOUS
<1>5. SumFunctionOnSet(score, E) \in sums
  BY <1>3, <1>4 DEF kSubset
<1>6. \A x \in sums : x <= SumFunctionOnSet(score, E)
  BY <1>3, <1>4 DEF kSubset, ScoresMost
<1>7. PICK most : most = SumFunctionOnSet(score, E)
  OBVIOUS
<1>8. Max(sums) \in sums
  <2>1. most \in sums /\ \A x \in sums : x <= most /\ most >= x
    BY <1>3, <1>5, <1>6, <1>7
  <2> QED
    BY ONLY <2>1 DEF Max
<1>9. \A x \in sums : x \in Int
  <2>1. ASSUME NEW A \in kSubset(n, In(d, S, r)) PROVE SumFunctionOnSet(score, A) \in Int
    <3>1. A \subseteq S /\ \A p \in A : score[p] \in Int
      BY DEF kSubset, In, Scored
    <3>2. IsFiniteSet(A)
      BY <3>1, FS_Subset
    <3> QED
      BY <3>1, <3>2, SumType
  <2> QED
    BY <1>4, <2>1
<1> QED
  BY <1>1, <1>3, <1>4, <1>6, <1>8, <1>9

\* What is recommended for a squad that obeys its rules.
Recommendation(d, s, score) ==
  LET starting == BestStarters(d, DOMAIN s.prices, score)
      captains == Captains(d, starting, score)
  IN [s EXCEPT !.starting = starting, !.formation = Shape(d, ToSet(starting)),
        !.bench = BenchOrder(d, DOMAIN s.prices \ ToSet(starting), score),
        !.captain = captains.captain, !.vice = captains.vice]

LEMMA AdviceFacts ==
  ASSUME NEW d, NEW s, NEW score, NEW l, IsSquad(s), ValidateSquad(d, s) = {},
         Scored(DOMAIN s.prices, score), l = Recommendation(d, s, score)
  PROVE  /\ ValidatePlan(d, l) = {} /\ d[Last(l.bench)].position = Goalkeeper
         /\ \A g \in ToSet(Formations) :
              TotalScore(score, LineOf(d, DOMAIN s.prices, score, g)) <= TotalScore(score, l.starting)
         /\ TotalScore(score, l.starting) \in Int
         /\ \A p \in ToSet(l.starting) : score[p] <= score[l.captain]
         /\ \A p \in ToSet(l.starting) \ {l.captain} : score[p] <= score[l.vice]
<1>1. PICK S : S = DOMAIN s.prices
  OBVIOUS
<1>2. Full(d, S) /\ Scored(S, score)
  BY <1>1, LegalSquadIsFull DEF IsSquad
<1>3. PICK f \in ToSet(Formations) :
        /\ BestStarters(d, S, score) = LineOf(d, S, score, f)
        /\ \A g \in ToSet(Formations) :
             TotalScore(score, LineOf(d, S, score, g)) <= TotalScore(score, LineOf(d, S, score, f))
  BY <1>2, BestFormation
<1>4. PICK b, E1, E2, E3, E4 : /\ b = LineOf(d, S, score, f)
                               /\ E1 = Top(d, S, score, 1, 1) /\ E2 = Top(d, S, score, 2, f[1])
                               /\ E3 = Top(d, S, score, 3, f[2]) /\ E4 = Top(d, S, score, 4, f[3])
  OBVIOUS
<1>5. PICK E : E = E1 \cup E2 \cup E3 \cup E4
  OBVIOUS
<1>6. /\ Enumerates(b, E) /\ Len(b) = 11 /\ (\A m \in 2..Len(b) : b[m] \in E2 \cup E3 \cup E4)
      /\ TotalScore(score, b) \in Int
  <2>1. f \in ToSet(Formations)
    OBVIOUS
  <2>2. /\ Enumerates(b, E1 \cup E2 \cup E3 \cup E4) /\ Len(b) = 11
        /\ (\A m \in 2..Len(b) : b[m] \in E2 \cup E3 \cup E4) /\ TotalScore(score, b) \in Int
    <3>1. Enumerates(b, E1 \cup E2 \cup E3 \cup E4) /\ Len(b) = 11
      BY ONLY <1>2, <1>4, <2>1, LineFacts
    <3>2. (\A m \in 2..Len(b) : b[m] \in E2 \cup E3 \cup E4) /\ TotalScore(score, b) \in Int
      BY ONLY <1>2, <1>4, <2>1, LineFacts
    <3> QED
      BY ONLY <3>1, <3>2
  <2> QED
    BY ONLY <1>5, <2>2
<1>7. f[1] \in 1..5 /\ f[2] \in 0..5 /\ f[3] \in 0..3 /\ f = [r \in 1..3 |-> f[r]] /\ f # <<>>
  BY FormationFacts
<1>8. /\ E1 \subseteq In(d, S, 1) /\ E2 \subseteq In(d, S, 2) /\ E3 \subseteq In(d, S, 3) /\ E4 \subseteq In(d, S, 4)
      /\ Cardinality(E1) = 1 /\ Cardinality(E2) = f[1] /\ Cardinality(E3) = f[2] /\ Cardinality(E4) = f[3]
  <2>1. IsFiniteSet(S) /\ Scored(S, score)
    BY <1>2 DEF Full
  <2>2. PICK t1, t2, t3, t4, one, two, three, four :
          /\ one = 1 /\ two = 2 /\ three = 3 /\ four = 4
          /\ t1 = SubSeq(Ranked(d, S, score, 1), 1, 1) /\ t2 = SubSeq(Ranked(d, S, score, 2), 1, f[1])
          /\ t3 = SubSeq(Ranked(d, S, score, 3), 1, f[2]) /\ t4 = SubSeq(Ranked(d, S, score, 4), 1, f[3])
    OBVIOUS
  <2>3. /\ 1 \in 0..Cardinality(In(d, S, 1)) /\ f[1] \in 0..Cardinality(In(d, S, 2))
        /\ f[2] \in 0..Cardinality(In(d, S, 3)) /\ f[3] \in 0..Cardinality(In(d, S, 4))
    BY <1>2, <1>7 DEF Full
  <2>4. /\ Tops(t1, E1, d, S, score, one, one) /\ Tops(t2, E2, d, S, score, two, f[1])
        /\ Tops(t3, E3, d, S, score, three, f[2]) /\ Tops(t4, E4, d, S, score, four, f[3])
    BY <1>4, <2>2, <2>3 DEF Tops
  <2>5. /\ E1 \subseteq In(d, S, one) /\ Cardinality(E1) = one /\ E2 \subseteq In(d, S, two) /\ Cardinality(E2) = f[1]
    BY ONLY <2>1, <2>4, TopFacts
  <2>6. /\ E3 \subseteq In(d, S, three) /\ Cardinality(E3) = f[2] /\ E4 \subseteq In(d, S, four) /\ Cardinality(E4) = f[3]
    BY ONLY <2>1, <2>4, TopFacts
  <2> QED
    BY ONLY <2>2, <2>5, <2>6
<1>9. E \subseteq S /\ S \subseteq DOMAIN d /\ IsFiniteSet(S) /\ Cardinality(S) = 15
  BY <1>2, <1>5, <1>8 DEF In, Full
<1>10. /\ CountOf(d, E, 1) = 1 /\ Shape(d, E) = f
  <2>1. /\ {p \in E \cap DOMAIN d : d[p].position = 1} = E1 /\ {p \in E \cap DOMAIN d : d[p].position = 2} = E2
        /\ {p \in E \cap DOMAIN d : d[p].position = 3} = E3 /\ {p \in E \cap DOMAIN d : d[p].position = 4} = E4
    BY <1>5, <1>8, <1>9 DEF In
  <2>2. CountOf(d, E, 1) = 1 /\ CountOf(d, E, 2) = f[1] /\ CountOf(d, E, 3) = f[2] /\ CountOf(d, E, 4) = f[3]
    BY <1>8, <2>1 DEF CountOf
  <2>3. \A r \in 1..3 : CountOf(d, E, r + 1) = f[r]
    <3>1. \A r \in 1..3 : (r = 1 /\ r + 1 = 2) \/ (r = 2 /\ r + 1 = 3) \/ (r = 3 /\ r + 1 = 4)
      OBVIOUS
    <3> QED
      BY <2>2, <3>1
  <2> QED
    BY <1>7, <2>2, <2>3 DEF Shape
<1>11. \A m \in 2..Len(b) : d[b[m]].position # Goalkeeper
  BY <1>6, <1>8 DEF In, Goalkeeper
<1>12. PICK c : c = Captains(d, b, score)
  OBVIOUS
<1>13. /\ c.captain \in E /\ c.vice \in E /\ c.captain # c.vice
       /\ \A p \in E : score[p] <= score[c.captain]
       /\ \A p \in E \ {c.captain} : score[p] <= score[c.vice]
  <2>1. \A p \in E : score[p] \in Int
    BY <1>2, <1>9 DEF Scored
  <2>2. Len(b) >= 2
    BY <1>6
  <2> QED
    BY ONLY <1>6, <1>11, <1>12, <2>1, <2>2, CaptainsFacts
<1>14. PICK T, x : T = S \ E /\ x = BenchOrder(d, T, score)
  OBVIOUS
<1>15. Enumerates(x, T) /\ ((\E p \in T : d[p].position = Goalkeeper) => d[Last(x)].position = Goalkeeper)
  <2>1. IsFiniteSet(T)
    <3>1. T \subseteq S
      BY <1>14
    <3> QED
      BY <1>9, <3>1, FS_Subset
  <2>2. \A p \in T : p \in Int /\ score[p] \in Int
    BY <1>2, <1>14 DEF Scored
  <2> QED
    BY <1>14, <2>1, <2>2, BenchFacts
<1>16. Len(x) = 4
  <2>1. Cardinality(E) = 11 /\ Cardinality(T) = Len(x)
    BY <1>6, <1>15, EnumerationFacts
  <2>2. IsFiniteSet(E) /\ IsFiniteSet(T) /\ T \subseteq S /\ E \cap T = {} /\ S = E \cup T
    BY <1>9, <1>14, FS_Subset
  <2>3. Cardinality(E \cup T) = Cardinality(E) + Cardinality(T) - Cardinality(E \cap T)
    BY ONLY <2>2, FS_Union
  <2>4. Cardinality(E \cap T) = 0
    BY <2>2, FS_EmptySet
  <2>5. Cardinality(E \cup T) = 15
    BY <1>9, <2>2
  <2>6. Cardinality(T) \in Nat
    BY <2>2, FS_CardinalityType
  <2> QED
    BY ONLY <2>1, <2>3, <2>4, <2>5, <2>6
<1>17. d[Last(x)].position = Goalkeeper
  <2>1. Cardinality(In(d, S, 1)) = 2
    BY <1>2 DEF Full
  <2>2. PICK p : p \in In(d, S, 1) /\ p \notin E1
    <3>1. ASSUME E1 = In(d, S, 1) PROVE FALSE
      BY <1>8, <2>1, <3>1
    <3> QED
      BY <1>8, <3>1
  <2>3. p \in T /\ d[p].position = Goalkeeper
    BY <1>5, <1>8, <1>14, <2>2 DEF In, Goalkeeper
  <2> QED
    BY <1>15, <2>3
<1>18. /\ l.starting = b /\ l.formation = f /\ l.bench = x /\ l.captain = c.captain /\ l.vice = c.vice
       /\ l.prices = s.prices /\ l.budget = s.budget
  <2>1. ToSet(b) = E
    BY <1>6 DEF Enumerates
  <2>2. l = [s EXCEPT !.starting = b, !.formation = Shape(d, ToSet(b)),
        !.bench = BenchOrder(d, S \ ToSet(b), score), !.captain = c.captain, !.vice = c.vice]
    BY <1>1, <1>3, <1>4, <1>12 DEF Recommendation
  <2>3. DOMAIN s = {"prices", "starting", "bench", "captain", "vice", "formation", "budget"}
    BY DEF IsSquad, NoSquad
  <2>4. l = [s EXCEPT !.starting = b, !.formation = f, !.bench = x, !.captain = c.captain, !.vice = c.vice]
    BY <1>10, <1>14, <2>1, <2>2
  <2> QED
    BY ONLY <2>3, <2>4
<1>19. ValidateSquad(d, l) = {}
  <2>1. ValidateSquad(d, l) = ValidateSquad(d, s)
    BY <1>18 DEF ValidateSquad, Owned, Cost
  <2> QED
    BY <2>1
<1>20. ValidateLineup(d, l) = {}
  <2>1. ToSet(b) = E /\ IsInjective(b) /\ ToSet(x) = T /\ IsInjective(x)
    BY <1>6, <1>15 DEF Enumerates
  <2>2. E \subseteq S /\ E \subseteq DOMAIN d /\ T \subseteq S /\ E \cap T = {}
    BY <1>9, <1>14
  <2> QED
    BY <1>1, <1>6, <1>10, <1>13, <1>16, <1>18, <2>1, <2>2 DEF ValidateLineup, Rule, Goalkeeper
<1>21. ToSet(l.starting) = E
  BY <1>6, <1>18 DEF Enumerates
<1> QED
  BY <1>1, <1>3, <1>4, <1>6, <1>13, <1>17, <1>18, <1>19, <1>20, <1>21 DEF ValidatePlan

\* Whatever the scores, the recommended line-up obeys the rules, no legal one
\* scores more, and the two best starters lead it (optimizer.go:42-145): taking
\* the best of each position for a fixed list of formations loses nothing, and
\* one pass that starts from the goalkeeper finds both captains.
THEOREM NoLineupIsBetter == AdviceSpec => []AdviceIsBest
<1>1. ASSUME AdviceInv PROVE AdviceIsBest
  <2> SUFFICES ASSUME advice.kind = "recommend" PROVE AdviceIsBest
    BY DEF AdviceIsBest, LineupIsLegal, LineupIsBest, CaptainsLead, Accepted
  <2>1. PICK score \in Scores : advice.score = score /\ advice.result = Recommend(Domain, Squad, score)
    BY <1>1 DEF AdviceInv, Recommended
  <2>2. PICK S, l : S = DOMAIN Squad.prices /\ l = Recommendation(Domain, Squad, score)
    OBVIOUS
  <2>3. IsSquad(Squad) /\ ValidateSquad(Domain, Squad) = {} /\ ValidateLineup(Domain, Squad) = {}
    BY AdviceAssumption DEF ValidatePlan
  <2>4. Full(Domain, S)
    BY <2>2, <2>3, LegalSquadIsFull DEF IsSquad
  <2>5. Scored(S, score)
    BY <2>4, AdviceAssumption DEF Full, Scored
  <2>6. advice.result.errors = {} /\ Lineup = l
    BY <2>1, <2>2, <2>3 DEF Recommend, Recommendation, Lineup
  <2>7. /\ ValidatePlan(Domain, l) = {} /\ Domain[Last(l.bench)].position = Goalkeeper
        /\ \A g \in ToSet(Formations) :
             TotalScore(score, LineOf(Domain, S, score, g)) <= TotalScore(score, l.starting)
        /\ TotalScore(score, l.starting) \in Int
        /\ \A p \in ToSet(l.starting) : score[p] <= score[l.captain]
        /\ \A p \in ToSet(l.starting) \ {l.captain} : score[p] <= score[l.vice]
    BY <2>2, <2>3, <2>5, AdviceFacts
  <2>8. LineupIsLegal
    BY <2>6, <2>7 DEF LineupIsLegal, Accepted
  <2>9. CaptainsLead
    BY <2>1, <2>6, <2>7 DEF CaptainsLead
  <2>10. ASSUME NEW f \in ToSet(Formations)
         PROVE  MostOf(1, 1) + MostOf(f[1], 2) + MostOf(f[2], 3) + MostOf(f[3], 4)
                  <= TotalScore(advice.score, Lineup.starting)
    <3>1. IsFiniteSet(S) /\ 1 \in 0..Cardinality(In(Domain, S, 1)) /\ f[1] \in 0..Cardinality(In(Domain, S, 2))
          /\ f[2] \in 0..Cardinality(In(Domain, S, 3)) /\ f[3] \in 0..Cardinality(In(Domain, S, 4))
      BY <2>4, FormationFacts DEF Full
    <3>2. ASSUME NEW r, NEW n, n \in 0..Cardinality(In(Domain, S, r))
          PROVE  /\ MostOf(n, r) <= SumFunctionOnSet(score, Top(Domain, S, score, r, n))
                 /\ MostOf(n, r) \in Int /\ SumFunctionOnSet(score, Top(Domain, S, score, r, n)) \in Int
      <4>1. MostOf(n, r) = Max({SumFunctionOnSet(score, A) : A \in kSubset(n, In(Domain, S, r))})
        BY <2>1, <2>2 DEF MostOf, InPosition, In
      <4>2. /\ Max({SumFunctionOnSet(score, A) : A \in kSubset(n, In(Domain, S, r))})
                 <= SumFunctionOnSet(score, Top(Domain, S, score, r, n))
            /\ Max({SumFunctionOnSet(score, A) : A \in kSubset(n, In(Domain, S, r))}) \in Int
            /\ SumFunctionOnSet(score, Top(Domain, S, score, r, n)) \in Int
        BY ONLY <2>5, <3>1, <3>2, MostFacts
      <4> QED
        BY ONLY <4>1, <4>2
    <3>3. PICK E1, E2, E3, E4 :
            /\ E1 = Top(Domain, S, score, 1, 1) /\ E2 = Top(Domain, S, score, 2, f[1])
            /\ E3 = Top(Domain, S, score, 3, f[2]) /\ E4 = Top(Domain, S, score, 4, f[3])
      OBVIOUS
    <3>4. PICK line : line = LineOf(Domain, S, score, f)
      OBVIOUS
    <3>5. f \in ToSet(Formations)
      OBVIOUS
    <3>6. PICK x1, x2, x3, x4 \in Int :
            /\ x1 = SumFunctionOnSet(score, E1) /\ x2 = SumFunctionOnSet(score, E2)
            /\ x3 = SumFunctionOnSet(score, E3) /\ x4 = SumFunctionOnSet(score, E4)
            /\ TotalScore(score, line) = x1 + x2 + x3 + x4
      <4>1. ScoresTogether(line, score, E1, E2, E3, E4)
        BY ONLY <2>4, <2>5, <3>3, <3>4, <3>5, LineFacts
      <4> QED
        BY <4>1 DEF ScoresTogether
    <3>7. TotalScore(score, line) <= TotalScore(score, l.starting)
      BY <2>7, <3>4
    <3>8. PICK m1, m2, m3, m4 :
            m1 = MostOf(1, 1) /\ m2 = MostOf(f[1], 2) /\ m3 = MostOf(f[2], 3) /\ m4 = MostOf(f[3], 4)
      OBVIOUS
    <3>9. /\ m1 <= x1 /\ m2 <= x2 /\ m3 <= x3 /\ m4 <= x4
          /\ m1 \in Int /\ m2 \in Int /\ m3 \in Int /\ m4 \in Int
      BY <3>1, <3>2, <3>3, <3>6, <3>8
    <3>10. m1 + m2 + m3 + m4 <= TotalScore(score, l.starting)
      BY <2>7, <3>6, <3>7, <3>9
    <3> QED
      BY <2>1, <2>6, <3>8, <3>10
  <2>11. LineupIsBest
    BY <2>10 DEF LineupIsBest
  <2> QED
    BY <2>8, <2>9, <2>11 DEF AdviceIsBest
<1> QED
  BY <1>1, AdviceIsGiven, PTL
=============================================================================
