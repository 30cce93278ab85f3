------------------------------ MODULE Scheduler ------------------------------
(***************************************************************************)
(* The sync scheduler (backend/internal/app/scheduler.go): at every tick   *)
(* runDue walks the policies in their order and attempts the first one that *)
(* is enabled, eligible and due.  The attempt is recorded before it is     *)
(* known whether the API accepts it; a synchronisation that is running     *)
(* makes the API refuse, and so does a run that cannot be recorded.        *)
(*                                                                         *)
(* Time is counted in ticks; an interval is rounded up to whole ticks.     *)
(* What a synchronisation does is left open: it ends or fails some ticks   *)
(* later and may change what the store says about the current gameweek.    *)
(***************************************************************************)
EXTENDS Integers, FiniteSets

CONSTANTS
  Interval,     \* Interval[p] in ticks, 0 for a policy that is switched off
  MaxDuration,  \* ticks that a synchronisation may outlast
  MaxManual,    \* bound: synchronisations that people start
  MaxFaults     \* bound: calls that fail

\* In the order of policies().
Policies == {"finalization", "live", "fixtures", "catalog", "historical-reconciliation"}
Rank(p) ==
  CASE p = "finalization" -> 1
    [] p = "live"         -> 2
    [] p = "fixtures"     -> 3
    [] p = "catalog"      -> 4
    [] p = "historical-reconciliation" -> 5
Always == {"fixtures", "catalog", "historical-reconciliation"}

ASSUME SchedulerAssumption ==
  /\ Interval \in [Policies -> Nat]
  /\ MaxDuration \in Nat
  /\ MaxManual \in Nat
  /\ MaxFaults \in Nat

VARIABLES
  idle,      \* idle[p]: ticks since p was last attempted
  gameweek,  \* what Store.CurrentGameweek says: none, open or finished
  running,   \* 0 if no synchronisation runs, else 1 + the ticks it has seen
  started,   \* the policy whose synchronisation the last tick started, until it ends, or "none"
  manual,    \* synchronisations that people have started
  faults     \* calls that have failed

schedulerVars == <<idle, gameweek, running, started, manual, faults>>

\* Nothing looks further back than that.
Horizon(p) == IF p \in Always THEN Interval[p] + 4 ELSE Interval[p]

SchedulerTypeOK ==
  /\ idle \in [Policies -> Nat]
  /\ \A p \in Policies : idle[p] <= Horizon(p)
  /\ gameweek \in {"none", "open", "finished"}
  /\ running \in 0 .. MaxDuration + 1
  /\ started \in Policies \cup {"none"}
  /\ manual \in 0 .. MaxManual
  /\ faults \in 0 .. MaxFaults

\* A policy that was never attempted is due at the first tick.
SchedulerInit ==
  /\ idle = [p \in Policies |-> IF Interval[p] = 0 THEN 0 ELSE Interval[p] - 1]
  /\ gameweek = "none"
  /\ running = 0
  /\ started = "none"
  /\ manual = 0
  /\ faults = 0

\* Faulty variant: nothing is asked about a gameweek that is finished.
EligibleWhileOpen(p) == p \in Always \/ gameweek = "open"

Eligible(p) ==
  CASE p = "finalization" -> gameweek = "finished"
    [] p = "live"         -> gameweek = "open"
    [] OTHER              -> TRUE

\* The time since each attempt when the next tick comes.
Waited(p) == IF idle[p] < Horizon(p) THEN idle[p] + 1 ELSE idle[p]

\* Faulty variant: the last attempt is not looked at.
DueAtOnce(p) == Interval[p] > 0 /\ Eligible(p)

Due(p) == Interval[p] > 0 /\ Eligible(p) /\ Waited(p) >= Interval[p]
FirstDue(p) == Due(p) /\ \A q \in Policies : Due(q) => Rank(p) <= Rank(q)

Accepted == running = 0

\* StartScopedSync for a policy.  It is accepted, refused because a
\* synchronisation runs, or refused because StartSyncRun fails.
StartScopedSync(p) ==
  \/ /\ Accepted
     /\ running' = 1
     /\ started' = p
     /\ UNCHANGED faults
  \/ /\ ~Accepted
     /\ running' = running + 1
     /\ started' = "none"
     /\ UNCHANGED faults
  \/ /\ Accepted
     /\ faults < MaxFaults
     /\ faults' = faults + 1
     /\ started' = "none"
     /\ UNCHANGED running

\* Faulty variant: only refused attempts are recorded.
AttemptIfRefused(p) ==
  /\ running <= MaxDuration
  /\ FirstDue(p)
  /\ StartScopedSync(p)
  /\ idle' = [q \in Policies |-> IF q = p /\ started' = "none" THEN 0 ELSE Waited(q)]
  /\ UNCHANGED <<gameweek, manual>>

\* runDue with a policy to attempt.
Attempt(p) ==
  /\ running <= MaxDuration
  /\ FirstDue(p)
  /\ StartScopedSync(p)
  /\ idle' = [q \in Policies |-> IF q = p THEN 0 ELSE Waited(q)]
  /\ UNCHANGED <<gameweek, manual>>

\* runDue without one.
NothingDue ==
  /\ running <= MaxDuration
  /\ \A p \in Policies : ~Due(p)
  /\ idle' = [q \in Policies |-> Waited(q)]
  /\ running' = IF Accepted THEN 0 ELSE running + 1
  /\ started' = "none"
  /\ UNCHANGED <<gameweek, manual, faults>>

\* The API has accepted a request of a person.
ManualStart ==
  /\ Accepted
  /\ manual < MaxManual
  /\ running' = 1
  /\ manual' = manual + 1
  /\ started' = "none"
  /\ UNCHANGED <<idle, gameweek, faults>>

\* The synchronisation has replaced the cache.
SyncEnds(g) ==
  /\ running > 0
  /\ running' = 0
  /\ gameweek' = g
  /\ started' = "none"
  /\ UNCHANGED <<idle, manual, faults>>

\* A call has failed, and with it the synchronisation.
SyncFails ==
  /\ running > 0
  /\ faults < MaxFaults
  /\ faults' = faults + 1
  /\ running' = 0
  /\ started' = "none"
  /\ UNCHANGED <<idle, gameweek, manual>>

Tick == NothingDue \/ \E p \in Policies : Attempt(p)

SchedulerNext ==
  \/ Tick
  \/ ManualStart
  \/ \E g \in {"none", "open", "finished"} : SyncEnds(g)
  \/ SyncFails

SchedulerSpec == SchedulerInit /\ [][SchedulerNext]_schedulerVars

-----------------------------------------------------------------------------
(* Properties.                                                             *)

Enabled == {p \in Policies : Interval[p] > 0}
Spaced == \A p \in Enabled : Interval[p] >= Cardinality(Enabled)

\* One policy is tried per tick and the more frequent come first; still a
\* policy that is always eligible waits at most one tick beyond its interval
\* for each of the others but one, because none of them comes round more often
\* than there are enabled policies.
AttemptedInTime ==
  Spaced => \A p \in Always \cap Enabled : idle[p] <= Interval[p] + Cardinality(Enabled) - 2

\* A refused attempt counts, so a policy could be refused for ever.  It is not
\* while synchronisations are over by the next tick: every policy that is always
\* eligible starts again and again, whatever was refused before.
EveryPolicyStarts ==
  Spaced /\ MaxDuration = 0 => \A p \in Always \cap Enabled : []<>(started = p)
=============================================================================
