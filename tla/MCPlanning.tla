----------------------------- MODULE MCPlanning -----------------------------
(* The second season knows player 19 and moves player 15 to a club that has
   three players of the first squad.  The first active team differs from the
   first squad in its captain; the second has player 19 on the bench.  The
   third squad lists a player twice.                                        *)
EXTENDS Planning

PositionOf(p) == IF p \in {1, 2} THEN 1 ELSE IF p \in 3..7 THEN 2 ELSE IF p \in {13, 14, 15} THEN 4 ELSE 3
Player(p, club, price) == [position |-> PositionOf(p), club |-> club, price |-> price, available |-> TRUE]
Seasons == <<[p \in 1..18 |-> Player(p, p % 7, 60)],
             [p \in 1..19 |-> Player(p, IF p \in {14, 15} THEN 2 ELSE p % 7, 65)]>>
Fifteen(S, starting, bench, captain, vice) ==
  [prices |-> [p \in S |-> 60], starting |-> starting, bench |-> bench, captain |-> captain,
   vice |-> vice, formation |-> NoFormation, budget |-> 1000]
First == Fifteen(1..15, <<1, 3, 4, 5, 8, 9, 10, 11, 13, 14, 15>>, <<6, 7, 12, 2>>, 13, 8)
Second(last) == Fifteen((1..15 \ {9, 12}) \cup {17, last}, <<1, 3, 4, 5, 8, 17, 10, 11, 13, 14, 15>>,
                        <<6, 7, last, 2>>, 8, 13)
Sent == <<First, Second(12), [First EXCEPT !.bench = <<6, 7, 12, 3>>]>>
Pick(p, s) == [player |-> p, multiplier |-> IF p \in ToSet(s.starting) THEN 1 ELSE 0,
               captain |-> p = s.captain, vice |-> p = s.vice]
TeamOf(s) == LET ids == s.starting \o s.bench IN
             [picks |-> [i \in DOMAIN ids |-> Pick(ids[i], s)], prices |-> s.prices, worth |-> 1010]
Active == <<TeamOf([First EXCEPT !.captain = 9]), TeamOf(Second(19))>>
Simulate(moves) == [moves |-> moves, starting |-> <<>>, bench |-> <<>>, captain |-> 0, vice |-> 0,
                    formation |-> NoFormation, free |-> 1]
Transfers == {Simulate(<<Move(8, 18)>>)}
Points == [p \in 1..19 |-> p % 5]
Alike == Permutations(Tabs)
=============================================================================
