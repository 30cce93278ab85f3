-------------------------------- MODULE Lists --------------------------------
(***************************************************************************)
(* Slices that a loop or a query builds: those elements of another one     *)
(* that pass a test, and the elements of a set in an order.  (The provers  *)
(* know no facts about SelectSeq and SetToSortSeq, which TLC evaluates by  *)
(* code of its own.)                                                       *)
(***************************************************************************)
EXTENDS Integers, FiniteSets, Sequences

\* The elements of s at the indexes in I, in the order they have in s.
Subsequence(s, I) ==
  LET pick[i \in 0..Len(s)] ==
        IF i = 0 THEN <<>> ELSE IF i \in I THEN Append(pick[i - 1], s[i]) ELSE pick[i - 1]
  IN pick[Len(s)]

\* The elements of S in the order that `before` (total, reflexive) gives them.
Ordered(S, before(_, _)) ==
  [i \in 1..Cardinality(S) |-> CHOOSE p \in S : Cardinality({q \in S : before(q, p)}) = i]
=============================================================================
