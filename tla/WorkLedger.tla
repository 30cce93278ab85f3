------------------------------ MODULE WorkLedger ------------------------------
(***************************************************************************)
(* What the durable work queue promises, without runs, clocks, leases or   *)
(* attempts.  A slot is a place in the ledger; it is free, open, taken by  *)
(* one worker, lost (its worker went away) or done.                        *)
(***************************************************************************)
CONSTANTS Keys, Workers, NoClaim

VARIABLES
  open,   \* slots whose work may be taken
  done,   \* slots whose work is finished
  lost,   \* slots whose worker disappeared
  hold    \* hold[w] is the slot worker w has taken

ledgerVars == <<open, done, lost, hold>>

Taken == {hold[w] : w \in Workers} \ {NoClaim}
Free == Keys \ (open \cup done \cup lost \cup Taken)

Init ==
  /\ open = {}
  /\ done = {}
  /\ lost = {}
  /\ hold = [w \in Workers |-> NoClaim]

\* New work is written into free slots.
Add ==
  /\ \E S \in SUBSET Free : open' = open \cup S
  /\ UNCHANGED <<done, lost, hold>>

\* One worker takes an open slot; from then on it is nobody else's.
Take(w, k) ==
  /\ hold[w] = NoClaim
  /\ k \in open
  /\ open' = open \ {k}
  /\ hold' = [hold EXCEPT ![w] = k]
  /\ UNCHANGED <<done, lost>>

\* Only the worker that took a slot can finish it ...
Finish(w) ==
  /\ hold[w] # NoClaim
  /\ done' = done \cup {hold[w]}
  /\ hold' = [hold EXCEPT ![w] = NoClaim]
  /\ UNCHANGED <<open, lost>>

\* ... or give it back ...
GiveBack(w) ==
  /\ hold[w] # NoClaim
  /\ open' = open \cup {hold[w]}
  /\ hold' = [hold EXCEPT ![w] = NoClaim]
  /\ UNCHANGED <<done, lost>>

\* ... or vanish with it, perhaps together with others.
Vanish(W) ==
  /\ \A w \in W : hold[w] # NoClaim
  /\ lost' = lost \cup {hold[w] : w \in W}
  /\ hold' = [w \in Workers |-> IF w \in W THEN NoClaim ELSE hold[w]]
  /\ UNCHANGED <<open, done>>

\* Lost slots are reopened, and open work may move to slots that were free;
\* slots that are taken or done are out of reach.
Reorganise ==
  \E R \in SUBSET lost :
    \E From \in SUBSET (open \cup R), To \in SUBSET Free :
      /\ lost' = lost \ R
      /\ open' = ((open \cup R) \ From) \cup To
      /\ UNCHANGED <<done, hold>>

Next ==
  \/ Add
  \/ Reorganise
  \/ \E w \in Workers : Finish(w) \/ GiveBack(w) \/ \E k \in Keys : Take(w, k)
  \/ \E W \in (SUBSET Workers) \ {{}} : Vanish(W)

Spec == Init /\ [][Next]_ledgerVars
=============================================================================
