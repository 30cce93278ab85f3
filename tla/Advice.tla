------------------------------- MODULE Advice -------------------------------
(***************************************************************************)
(* The two pure services of the planning workspace, asked one request      *)
(* after the other: a recommended line-up and a simulation of transfers    *)
(* for one legal squad.  Each advice is compared with a reference: every   *)
(* legal line-up of the squad, and the account of the transfers.           *)
(***************************************************************************)
EXTENDS SquadRules

CONSTANTS
  Domain,     \* the players of the season
  Squad,      \* a squad that passes the rules
  Scores,     \* score functions that weights may lead to
  Named,      \* transfers a client may name
  MaxMoves,   \* bound: how many of them in one simulation
  Lineups     \* the line-up a simulation may bring: [starting, bench, captain, vice]

\* Players have identifiers, 0 is nobody; a score is of a player of the season.
ASSUME AdviceAssumption ==
  /\ DOMAIN Domain \subseteq Nat \ {0} /\ \A p \in DOMAIN Domain : Domain[p].price \in Nat
  /\ IsSquad(Squad) /\ ValidatePlan(Domain, Squad) = {}
  /\ \A p \in DOMAIN Squad.prices : Squad.prices[p] \in Nat
  /\ \A score \in Scores : score \in [DOMAIN Domain -> Int]
  /\ \A l \in Lineups : IsList(l.starting) /\ IsList(l.bench)
  /\ MaxMoves \in Nat

VARIABLE advice

NoAdvice == [kind |-> "none"]

AskRecommendation ==
  \E score \in Scores :
    advice' = [kind |-> "recommend", score |-> score, result |-> Recommend(Domain, Squad, score)]

AskSimulation ==
  \E n \in 1..MaxMoves : \E moves \in [1..n -> Named], l \in Lineups, free \in 0..1 :
    advice' = [kind |-> "simulate", moves |-> moves, given |-> l.starting # <<>>,
               result |-> SimulateTransfers(Domain, Squad,
                 [moves |-> moves, starting |-> l.starting, bench |-> l.bench, captain |-> l.captain,
                  vice |-> l.vice, formation |-> NoFormation, free |-> free])]

AdviceInit == advice = NoAdvice
AdviceNext == \/ advice = NoAdvice /\ (AskRecommendation \/ AskSimulation)
              \/ advice # NoAdvice /\ advice' = NoAdvice
AdviceSpec == AdviceInit /\ [][AdviceNext]_advice

(* -- properties -------------------------------------------------------------- *)

Accepted(kind) == advice.kind = kind /\ advice.result.errors = {}
Lineup == advice.result.lineup
InPosition(r) == {p \in DOMAIN Squad.prices : Domain[p].position = r}
MostOf(n, r) == Max({SumFunctionOnSet(advice.score, S) : S \in kSubset(n, InPosition(r))})

(* A legal squad gets a line-up, which obeys every rule a saved one must, and
   whose bench ends with the other goalkeeper (spec lineup-optimization,
   optimizer.go:119). *)
LineupIsLegal ==
  advice.kind = "recommend" =>
    /\ Accepted("recommend") /\ ValidatePlan(Domain, Lineup) = {}
    /\ Domain[Last(Lineup.bench)].position = Goalkeeper

(* No legal line-up of the squad scores more: taking the best of each position
   for a fixed list of formations loses nothing (optimizer.go:88-105).  The
   reference tries every set of players of every legal formation. *)
LineupIsBest ==
  Accepted("recommend") => \A f \in ToSet(Formations) :
    MostOf(1, 1) + MostOf(f[1], 2) + MostOf(f[2], 3) + MostOf(f[3], 4)
      <= TotalScore(advice.score, Lineup.starting)

(* The captain is the best of the starters and the vice-captain the best of
   the others, ties and goalkeepers included: one pass that starts from the
   goalkeeper finds both (optimizer.go:133-142). *)
CaptainsLead ==
  Accepted("recommend") => LET starts == ToSet(Lineup.starting) IN
    /\ \A p \in starts : advice.score[p] <= advice.score[Lineup.captain]
    /\ \A p \in starts \ {Lineup.captain} : advice.score[p] <= advice.score[Lineup.vice]

(* The recommendation is legal, the best there is, and well led. *)
AdviceIsBest == LineupIsLegal /\ LineupIsBest /\ CaptainsLead

(* Transfers of an accepted simulation may chain, one bringing in whom another
   sends away: a player is in the squad afterwards as often as before, plus
   the times brought in, less the times sent away; the line-up and the cost of
   the squad say the same (transfer_research.go:324-371). *)
Times(p, side) == Cardinality({i \in DOMAIN advice.moves : advice.moves[i][side] = p})
OneIf(b) == IF b THEN 1 ELSE 0
\* What a transfer adds to the cost of the squad.
Change(m, prices) ==
  Domain[m.in].price - (IF m.out \in DOMAIN prices THEN Value(Domain, prices, m.out) ELSE Domain[m.out].price)
TransfersAddUp ==
  Accepted("simulate") =>
    LET r == advice.result  before == DOMAIN r.before.prices  after == DOMAIN r.after.prices
        changes == [i \in DOMAIN advice.moves |-> Change(advice.moves[i], r.before.prices)]
    IN /\ \A p \in DOMAIN Domain :
            OneIf(p \in after) = OneIf(p \in before) + Times(p, "in") - Times(p, "out")
       /\ ToSet(r.after.starting) \cup ToSet(r.after.bench) = after
       /\ Cost(Domain, r.after) = Cost(Domain, r.before) + SumFunction(changes)
       /\ r.used + r.paid = Len(advice.moves) /\ r.hit = 4 * r.paid
=============================================================================
