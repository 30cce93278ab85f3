----------------------------- MODULE SquadRules -----------------------------
(***************************************************************************)
(* The rules a planning squad obeys (domain.go), the line-up recommended   *)
(* for one (optimizer.go) and the simulation of transfers                  *)
(* (transfer_research.go), as operators.                                   *)
(*                                                                         *)
(* A domain maps the players of a season to position, club, price and      *)
(* availability; a squad maps its players to purchase prices (0: none      *)
(* known) and lists its line-up.  Prices are tenths of a million.  A list  *)
(* of validation errors is the set of its codes; names and texts are left  *)
(* out.  The score of a player, a weighted sum of five signals rounded to  *)
(* hundredths, is a parameter.                                             *)
(***************************************************************************)
EXTENDS Integers, FiniteSets, Sequences, FiniteSetsExt, SequencesExt, Functions, TLC, Lists

Goalkeeper == 1
Formations == <<<<3, 4, 3>>, <<3, 5, 2>>, <<4, 5, 1>>, <<4, 4, 2>>,
                <<4, 3, 3>>, <<5, 4, 1>>, <<5, 3, 2>>, <<5, 2, 3>>>>
NoFormation == <<>>
NoSquad == [prices |-> <<>>, starting |-> <<>>, bench |-> <<>>, captain |-> 0, vice |-> 0,
            formation |-> NoFormation, budget |-> 0]

\* A list of players is a sequence, and a squad has finitely many of them.
IsList(s) == s \in Seq(ToSet(s))
IsSquad(s) == /\ DOMAIN s = DOMAIN NoSquad /\ IsFiniteSet(DOMAIN s.prices)
              /\ IsList(s.starting) /\ IsList(s.bench)

Rule(code, broken) == IF broken THEN {code} ELSE {}

(* -- domain.go --------------------------------------------------------------- *)

Owned(d, s) == DOMAIN s.prices \cap DOMAIN d
Value(d, prices, p) == IF prices[p] = 0 THEN d[p].price ELSE prices[p]
Cost(d, s)  == SumFunction([p \in Owned(d, s) |-> Value(d, s.prices, p)])
CountOf(d, S, position) == Cardinality({p \in S \cap DOMAIN d : d[p].position = position})

ValidateSquad(d, s) ==
  LET clubs == {d[p].club : p \in Owned(d, s)} IN
  Rule("squad_size", Cardinality(DOMAIN s.prices) # 15)
  \cup Rule("unknown_player", DOMAIN s.prices \ DOMAIN d # {})
  \cup Rule("position_count", \E r \in 1..4 : CountOf(d, DOMAIN s.prices, r) # <<2, 5, 5, 3>>[r])
  \cup Rule("club_limit", \E c \in clubs : Cardinality({p \in Owned(d, s) : d[p].club = c}) > 3)
  \cup Rule("budget", Cost(d, s) > s.budget)

Shape(d, S) == [r \in 1..3 |-> CountOf(d, S, r + 1)]

(* faulty: whatever is listed, only its length and its captains are looked at *)
ValidateSizes(d, s) ==
  LET starts == ToSet(s.starting) IN
  Rule("starting_size", Len(s.starting) # 11) \cup Rule("bench_size", Len(s.bench) # 4)
  \cup Rule("formation", Shape(d, starts) \notin ToSet(Formations))
  \cup Rule("captain", {s.captain, s.vice} \cap starts # {s.captain, s.vice})

ValidateLineup(d, s) ==
  LET starts == ToSet(s.starting)  bench == ToSet(s.bench)
      wanted == IF s.formation = NoFormation THEN Shape(d, starts) ELSE s.formation
  IN Rule("starting_size", Len(s.starting) # 11)
     \cup Rule("bench_size", Len(s.bench) # 4)
     \cup Rule("starter_not_in_squad", ~(starts \subseteq DOMAIN s.prices))
     \cup Rule("duplicate_starter", ~IsInjective(s.starting))
     \cup Rule("unknown_starter", ~(starts \subseteq DOMAIN d))
     \cup Rule("goalkeeper_count", CountOf(d, starts, Goalkeeper) # 1)
     \cup Rule("formation", wanted \notin ToSet(Formations) \/ Shape(d, starts) # wanted)
     \cup Rule("bench_not_in_squad", ~(bench \subseteq DOMAIN s.prices))
     \cup Rule("duplicate_bench", ~IsInjective(s.bench))
     \cup Rule("starter_on_bench", starts \cap bench # {})
     \cup Rule("captain", s.captain \notin starts)
     \cup Rule("vice_captain", s.vice \notin starts)
     \cup Rule("captain_distinct", s.captain # 0 /\ s.captain = s.vice)

ValidatePlan(d, s) == ValidateSquad(d, s) \cup ValidateLineup(d, s)

(* -- optimizer.go --------------------------------------------------------------- *)

(* Players of one position, the best score first, then the lower identifier. *)
Ranked(d, S, score, position) ==
  Ordered({p \in S : d[p].position = position},
               LAMBDA p, q : score[p] > score[q] \/ (score[p] = score[q] /\ p <= q))

TotalScore(score, lineup) == SumFunction([i \in DOMAIN lineup |-> score[lineup[i]]])

(* The first formation of the highest total; every candidate takes the best
   of each position. *)
BestStarters(d, S, score) ==
  LET best == [r \in 1..4 |-> Ranked(d, S, score, r)]
      lineup(f) == SubSeq(best[1], 1, 1) \o SubSeq(best[2], 1, f[1])
                   \o SubSeq(best[3], 1, f[2]) \o SubSeq(best[4], 1, f[3])
      total == [i \in DOMAIN Formations |-> TotalScore(score, lineup(Formations[i]))]
      first == Min({i \in DOMAIN Formations : \A j \in DOMAIN Formations : total[j] <= total[i]})
  IN lineup(Formations[first])

(* Outfield players in the order of their scores, the other goalkeeper last. *)
BenchOrder(d, S, score) ==
  Ordered(S, LAMBDA p, q :
    LET keepers == <<d[p].position = Goalkeeper, d[q].position = Goalkeeper>> IN
    \/ keepers = <<FALSE, TRUE>>
    \/ keepers[1] = keepers[2] /\ (score[p] > score[q] \/ (score[p] = score[q] /\ p <= q)))

(* faulty: the captain who is overtaken is not even vice *)
LeadForgetful(d, score, c, p) ==
  IF d[p].position # Goalkeeper /\ score[p] > score[c.captain] THEN [c EXCEPT !.captain = p]
  ELSE IF p # c.captain /\ score[p] > score[c.vice] THEN [c EXCEPT !.vice = p] ELSE c

(* A starter who scores more overtakes the captain, unless he keeps goal, or
   else the vice-captain. *)
Lead(d, score, c, p) ==
  IF d[p].position # Goalkeeper /\ score[p] > score[c.captain] THEN [captain |-> p, vice |-> c.captain]
  ELSE IF p # c.captain /\ score[p] > score[c.vice] THEN [c EXCEPT !.vice = p] ELSE c

(* One pass over the starters, the goalkeeper and the best defender first. *)
Captains(d, starting, score) ==
  LET state[k \in 0..Len(starting)] ==
        IF k = 0 THEN [captain |-> starting[1], vice |-> starting[2]]
        ELSE Lead(d, score, state[k - 1], starting[k])
  IN state[Len(starting)]

(* The line-up of a squad that passes its rules, else the broken ones; a squad
   saved without a line-up gets one. *)
Recommend(d, s, score) ==
  LET errors == IF ValidateSquad(d, s) # {} THEN ValidateSquad(d, s)
                ELSE IF s.starting # <<>> THEN ValidateLineup(d, s) ELSE {}
      starting == BestStarters(d, DOMAIN s.prices, score)
      captains == Captains(d, starting, score)
  IN IF errors # {} THEN [errors |-> errors, lineup |-> NoSquad]
     ELSE [errors |-> {},
           lineup |-> [s EXCEPT !.starting = starting, !.formation = Shape(d, ToSet(starting)),
                         !.bench = BenchOrder(d, DOMAIN s.prices \ ToSet(starting), score),
                         !.captain = captains.captain, !.vice = captains.vice]]

(* -- simulateTransfers ------------------------------------------------------------- *)

Move(out, in) == [out |-> out, in |-> in]

Exchanged(prices, move, price) ==
  [p \in (DOMAIN prices \ {move.out}) \cup {move.in} |-> IF p = move.in THEN price ELSE prices[p]]

(* faulty: an incoming player costs what the outgoing one did *)
ApplyAtOldPrice(d, state, move) ==
  [state EXCEPT !.outs = @ \cup {move.out}, !.ins = @ \cup {move.in},
     !.prices = Exchanged(@, move, state.prices[move.out])]

ApplyMove(d, state, move) ==
  [state EXCEPT !.outs = @ \cup {move.out}, !.ins = @ \cup {move.in},
     !.prices = Exchanged(@, move, d[move.in].price)]

(* One transfer after the other: each finds the prices the earlier ones left. *)
Transfer(d, state, move) ==
  LET refused(code) == [state EXCEPT !.errors = @ \cup {code}, !.outs = @ \cup {move.out},
                                     !.ins = @ \cup {move.in}] IN
  IF move.out \in state.outs \/ move.in \in state.ins \/ move.out = move.in
  THEN [state EXCEPT !.errors = @ \cup {"duplicate_transfer"}]
  ELSE IF move.out \notin DOMAIN state.prices THEN refused("player_not_owned")
  ELSE IF move.in \in DOMAIN state.prices THEN refused("player_already_owned")
  ELSE IF move.in \notin DOMAIN d THEN refused("unknown_player")
  ELSE IF ~d[move.in].available THEN refused("player_unavailable")
  ELSE ApplyMove(d, state, move)

Transferred(d, before, moves) ==
  LET state[k \in 0..Len(moves)] ==
        IF k = 0 THEN [prices |-> before.prices, outs |-> {}, ins |-> {}, errors |-> {}]
        ELSE Transfer(d, state[k - 1], moves[k])
  IN state[Len(moves)]

(* A place in the line-up goes to the successor named by the first transfer. *)
Successor(moves, p) ==
  LET named == SelectSeq(moves, LAMBDA m : m.out = p) IN IF named = <<>> THEN p ELSE named[1].in

SimulateTransfers(d, before, input) ==
  LET end == Transferred(d, before, input.moves)
      of(ids) == [i \in DOMAIN ids |-> Successor(input.moves, ids[i])]
      or(given, old) == IF given = <<>> THEN old ELSE given
      after == [before EXCEPT !.prices = end.prices, !.starting = or(input.starting, of(@)),
                  !.bench = or(input.bench, of(@)),
                  !.captain = IF input.captain > 0 THEN input.captain ELSE Successor(input.moves, @),
                  !.vice = IF input.vice > 0 THEN input.vice ELSE Successor(input.moves, @),
                  !.formation = or(input.formation, @)]
      count == Len(input.moves)
  IN [before |-> before, after |-> after,
      errors |-> end.errors \cup ValidatePlan(d, after) \cup Rule("transfer_count", count \notin 1..5)
                 \cup Rule("free_transfers", input.free \notin 0..5),
      used |-> Min({count, input.free}), paid |-> Max({0, count - input.free}),
      hit |-> 4 * Max({0, count - input.free})]
=============================================================================
