-------------------------- MODULE MCLeagueAnalysis --------------------------
(* Three entries on two pages that disagree about the second, three players,
   and teams that share players, boost the bench or change the captain.     *)
EXTENDS LeagueAnalysis

Squad == 1..3
RoleOf == <<2, 3, 4>>
Estimate == <<1, 1, 0>>
Three == 1..3
Pick(m, bench, captain) == [multiplier |-> m, bench |-> bench, captain |-> captain]
Kinds == {(1 :> Pick(2, FALSE, TRUE)) @@ (2 :> Pick(1, TRUE, FALSE)),
          (1 :> Pick(1, FALSE, FALSE)) @@ (3 :> Pick(2, FALSE, TRUE))}
Standings == <<{(1 :> 1) @@ (2 :> 2), (2 :> 1) @@ (1 :> 2)}, {(2 :> 3) @@ (3 :> 4), (3 :> 3)}>>
Scores == {0, 2}
Hits == {0, 4}
Query(kind, explicit, from, limit, entries) ==
  [kind |-> kind, explicit |-> explicit, from |-> from, to |-> 0, limit |-> limit, entries |-> entries]
Queries == {Query("compare", {}, 0, 2, <<>>), Query("compare", {1, 3, 9}, 0, 0, <<>>),
            Query("compare", {}, 2, 3, <<>>), Query("summary", {}, 0, 2, <<>>),
            Query("autopsy", {}, 0, 2, <<1>>), Query("autopsy", {}, 0, 2, <<1, 2>>)}
=============================================================================
