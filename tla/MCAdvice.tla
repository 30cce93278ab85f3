------------------------------ MODULE MCAdvice ------------------------------
(* Fifteen players of a squad and four others, one of them not available, one
   too dear; scores falling or rising with the player's number per position. *)
EXTENDS Advice

Squad15 == 1..15
PositionOf(p) == IF p \in {1, 2} THEN 1 ELSE IF p \in 3..7 \cup {16, 17} THEN 2
                 ELSE IF p \in 8..12 \cup {18} THEN 3 ELSE 4
Season == [p \in 1..19 |-> [position |-> PositionOf(p), club |-> p % 7,
             price |-> IF p = 18 THEN 140 ELSE 60 + (p % 2), available |-> p # 17]]
Team == [prices |-> [p \in Squad15 |-> IF p = 3 THEN 0 ELSE 62], starting |-> <<1, 3, 4, 5, 8, 9, 10, 11, 13, 14, 15>>,
         bench |-> <<6, 7, 12, 2>>, captain |-> 13, vice |-> 8, formation |-> <<3, 4, 3>>, budget |-> 1000]
Falling(n, values) == {f \in [1..n -> values] : \A i \in 1..(n - 1) : f[i] >= f[i + 1]}
ScoreSet == {[p \in 1..19 |-> IF p <= 2 THEN g[p] ELSE IF p \in 3..7 THEN d[p - 2]
                              ELSE IF p \in 8..12 THEN m[13 - p] ELSE IF p \in 13..15 THEN a[p - 12] ELSE 0] :
               g \in {<<0, 1>>, <<1, 1>>, <<3, 0>>}, 
               d \in Falling(5, {0, 1, 3}), m \in Falling(5, {0, 2}), a \in Falling(3, {0, 1, 3})}
MoveSet == {Move(o, i) : o \in {3, 4, 13, 16}, i \in {3, 16, 17, 18, 19}}
Given == {[starting |-> <<>>, bench |-> <<>>, captain |-> 0, vice |-> 0],
          [starting |-> <<1, 16, 4, 5, 8, 9, 10, 11, 13, 14, 15>>, bench |-> <<6, 7, 12, 2>>,
           captain |-> 14, vice |-> 13]}
=============================================================================
