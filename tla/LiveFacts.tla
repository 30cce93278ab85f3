------------------------------- MODULE LiveFacts -------------------------------
(***************************************************************************)
(* The points of the gameweeks: the synchronisations that the scheduler    *)
(* and people start (runSync in api.go, the scopes live, full and the      *)
(* others), the rule that makes a gameweek final (liveFinalized in api.go, *)
(* LiveGameweekFactsUnchanged and UpsertLiveGameweek in repository.go) and *)
(* what the analyses read of it (LoadPlayerGameweekPoints).                *)
(*                                                                         *)
(* The points of all players of a gameweek are one version; one season.    *)
(* One synchronisation runs at a time, as StartScopedSync sees to; a retry *)
(* of a sync run may break that (ScopeLocking of SyncCoordinator), and      *)
(* what is said here is said of synchronisations that do not overlap.      *)
(***************************************************************************)
EXTENDS Scheduler

CONSTANTS
  LastGameweek,  \* gameweeks are 1 .. LastGameweek
  MaxVersion,    \* bound: how often the source changes the points of gameweeks
  MaxDeclared    \* bound: gameweeks that the source declares finished

Gameweeks == 1 .. LastGameweek

ASSUME LiveAssumption ==
  /\ LastGameweek \in Nat \ {0}
  /\ MaxVersion \in Nat
  /\ MaxDeclared \in Nat

VARIABLES
  source,  \* the current event, progress and points of each gameweek, gameweeks declared finished
  known,   \* the current gameweek of the Store, 0 for none
  latest,  \* latest[w]: player_gameweek_facts of the latest snapshot of w that has some
  facts,   \* facts[w]: whether those of all snapshots are final, of some or not of others
  sync     \* the local variables of runSync

liveVars == <<source, known, latest, facts, sync>>
vars == <<idle, gameweek, running, started, manual, faults, source, known, latest, facts, sync>>

\* The matches are on, over, the event is finished, its data are checked.
Progress == 0 .. 3
Over == 1
Finished == 2
Checked == 3

Points == [version : 0 .. MaxVersion, final : BOOLEAN]
NoPoints == [version |-> 0, final |-> FALSE]
NoSync == [pc |-> "idle", live |-> FALSE, week |-> 0, current |-> 0, progress |-> 0, over |-> FALSE,
           declared |-> FALSE, version |-> 0, unchanged |-> FALSE]

TypeOK ==
  /\ SchedulerTypeOK
  /\ source \in [current : Gameweeks, progress : [Gameweeks -> Progress],
                 declared : SUBSET Gameweeks, version : [Gameweeks -> 1 .. MaxVersion + 1],
                 changes : 0 .. MaxVersion]
  /\ known \in {0} \cup Gameweeks
  /\ latest \in [Gameweeks -> [version : 0 .. MaxVersion + 1, final : BOOLEAN]]
  /\ facts \in [Gameweeks -> SUBSET BOOLEAN]
  /\ sync \in [pc : {"idle", "catalog", "fixtures", "live", "check", "write", "apply"}, live : BOOLEAN,
               week : {0} \cup Gameweeks, current : {0} \cup Gameweeks, progress : Progress,
               over : BOOLEAN, declared : BOOLEAN, version : 0 .. MaxVersion + 1, unchanged : BOOLEAN]

Init ==
  /\ SchedulerInit
  /\ source = [current |-> 1, progress |-> [w \in Gameweeks |-> 0], declared |-> {},
              version |-> [w \in Gameweeks |-> 1], changes |-> 0]
  /\ known = 0
  /\ latest = [w \in Gameweeks |-> NoPoints]
  /\ facts = [w \in Gameweeks |-> {}]
  /\ sync = NoSync

-----------------------------------------------------------------------------
(* The source.  Points change while matches are on and, by a correction,   *)
(* afterwards.                                                             *)

OnlySource == UNCHANGED <<schedulerVars, known, latest, facts, sync>>

Score(w) ==
  /\ w <= source.current
  /\ source.changes < MaxVersion
  /\ source' = [source EXCEPT !.version[w] = @ + 1, !.changes = @ + 1]
  /\ OnlySource

MoveOn(w) ==
  /\ w <= source.current
  /\ source.progress[w] < Checked
  /\ source' = [source EXCEPT !.progress[w] = @ + 1]
  /\ OnlySource

\* The points of a gameweek come with a flag of their own, beside the event
\* and the fixtures: the payload says that they are finished.
Declare(w) ==
  /\ w <= source.current
  /\ w \notin source.declared
  /\ Cardinality(source.declared) < MaxDeclared
  /\ source' = [source EXCEPT !.declared = @ \cup {w}]
  /\ OnlySource

NextEvent ==
  /\ source.current < LastGameweek
  /\ source.progress[source.current] >= Finished
  /\ source' = [source EXCEPT !.current = @ + 1]
  /\ OnlySource

-----------------------------------------------------------------------------
(* Starting.                                                               *)

NewSync(live, w) == [NoSync EXCEPT !.pc = "catalog", !.live = live, !.week = w]

\* runDue: both live policies ask for the gameweek that the store names.
ScheduledStart(p) ==
  /\ Attempt(p)
  /\ sync' = IF started' = p THEN NewSync(p \in {"finalization", "live"}, known) ELSE sync
  /\ UNCHANGED <<source, known, latest, facts>>

IdleTick ==
  /\ NothingDue
  /\ UNCHANGED liveVars

\* A person asks for the points of some gameweek, for a full synchronisation
\* (live, no gameweek) or for another dataset.
PersonStarts(live, w) ==
  /\ ManualStart
  /\ live \/ w = 0
  /\ sync' = NewSync(live, w)
  /\ UNCHANGED <<source, known, latest, facts>>

-----------------------------------------------------------------------------
(* runSync.                                                                *)

Same == UNCHANGED <<schedulerVars, source, known, latest, facts>>

\* The gameweek that was asked for, or the event that is current.
Asked == IF sync.week = 0 THEN source.current ELSE sync.week

FetchCatalog ==
  /\ sync.pc = "catalog"
  /\ sync' = [sync EXCEPT !.pc = IF sync.live THEN "fixtures" ELSE "apply", !.current = source.current,
                          !.week = Asked, !.progress = source.progress[Asked]]
  /\ Same

FetchFixtures ==
  /\ sync.pc = "fixtures"
  /\ sync' = [sync EXCEPT !.pc = "live", !.over = source.progress[sync.week] >= Over]
  /\ Same

FetchEventLive ==
  /\ sync.pc = "live"
  /\ sync' = [sync EXCEPT !.pc = "check", !.version = source.version[sync.week],
                          !.declared = sync.week \in source.declared]
  /\ Same

\* Faulty variant: an error of the check is a change.
UnchangedIfChecked ==
  /\ sync.pc = "check"
  /\ \E same \in {FALSE, latest[sync.week].version = sync.version} :
       sync' = [sync EXCEPT !.pc = "write", !.unchanged = same]
  /\ Same

LiveGameweekFactsUnchanged ==
  /\ sync.pc = "check"
  /\ sync' = [sync EXCEPT !.pc = "write", !.unchanged = latest[sync.week].version = sync.version]
  /\ Same

\* Either the event is finished and its data are checked, or the points say
\* of themselves that they are finished.
sourceFinished == sync.progress = Checked \/ sync.declared

\* Faulty variant: final as soon as the source says so.
liveFinalizedAtOnce == sourceFinished /\ sync.over

\* The source calls the gameweek finished, so are all its fixtures, and two
\* observations in a row agree.
liveFinalized == sourceFinished /\ sync.over /\ sync.unchanged

\* A new snapshot and its facts.  They are rows of their own: those of earlier
\* snapshots stay.
UpsertLiveGameweek ==
  /\ sync.pc = "write"
  /\ latest' = [latest EXCEPT ![sync.week] = [version |-> sync.version, final |-> liveFinalized]]
  /\ facts' = [facts EXCEPT ![sync.week] = @ \cup {liveFinalized}]
  /\ sync' = [NoSync EXCEPT !.pc = "apply", !.live = TRUE, !.week = sync.week, !.current = sync.current,
                            !.progress = sync.progress]
  /\ UNCHANGED <<schedulerVars, source, known>>

\* CurrentGameweek of the data that have arrived.  The catalogue gave both
\* the current event and the progress of the gameweek asked for.
Seen == IF source.progress[sync.current] >= Finished THEN {"open", "finished"} ELSE {"open"}

ApplySnapshot ==
  /\ sync.pc = "apply"
  /\ \E g \in IF sync.week = sync.current
              THEN {IF sync.progress >= Finished THEN "finished" ELSE "open"} ELSE Seen : SyncEnds(g)
  /\ known' = sync.current
  /\ sync' = NoSync
  /\ UNCHANGED <<source, latest, facts>>

\* failStage, wherever a call of the source or of the repository fails.
FailSync ==
  /\ sync.pc \notin {"idle", "apply"}
  /\ SyncFails
  /\ sync' = NoSync
  /\ UNCHANGED <<source, known, latest, facts>>

-----------------------------------------------------------------------------

SyncStep ==
  \/ FetchCatalog
  \/ FetchFixtures
  \/ FetchEventLive
  \/ LiveGameweekFactsUnchanged
  \/ UpsertLiveGameweek
  \/ ApplySnapshot
  \/ FailSync

TimeStep == IdleTick \/ \E p \in Policies : ScheduledStart(p)

Next ==
  \/ \E w \in Gameweeks : Score(w) \/ MoveOn(w) \/ Declare(w)
  \/ NextEvent
  \/ TimeStep
  \/ \E live \in BOOLEAN, w \in {0} \cup Gameweeks : PersonStarts(live, w)
  \/ SyncStep

Spec == Init /\ [][Next]_vars

\* The ticker ticks, and a synchronisation goes on: its calls have deadlines.
FairSpec == Spec /\ WF_vars(TimeStep) /\ WF_vars(SyncStep)

-----------------------------------------------------------------------------
(* What the analyses read.                                                 *)

\* LoadPlayerGameweekPoints reads the facts of the gameweek in every snapshot
\* and calls them actual if all are final.
OutcomeState(w) ==
  IF facts[w] = {} THEN "estimated"
  ELSE IF FALSE \in facts[w] THEN "provisional" ELSE "actual"

-----------------------------------------------------------------------------
(* Properties.                                                             *)

\* What the rule for final gameweeks waits for: all fixtures are finished, and
\* the source has checked the gameweek or declares its points finished.
Settled(w) == source.progress[w] >= Over /\ (source.progress[w] = Checked \/ w \in source.declared)

\* A gameweek becomes final only by a second observation that agrees with the
\* one before it, when its fixtures are finished and the source has called it
\* finished, by the event or by the flag of the points: points that were still
\* moving between two synchronisations, one of which may have failed half way,
\* are never called final, nor are those of a gameweek with a match to play,
\* whatever the flag says.
FinalIsConfirmed ==
  [][\A w \in Gameweeks : latest'[w].final =>
       latest'[w].version = latest[w].version /\ Settled(w)]_vars

\* Once final, a gameweek stays so until the source corrects its points: no
\* failed call and no synchronisation of any other scope or gameweek reopens it.
FinalUntilCorrected ==
  [][\A w \in Gameweeks : latest[w].final /\ ~latest'[w].final =>
       latest'[w].version # latest[w].version]_vars

\* A gameweek that is over, that the source has called finished one way or the
\* other and that stays the current one is final in the end: the scheduler
\* comes back for the second observation, and for another one after a failure
\* or a correction.
SettledBecomesFinal ==
  Interval["finalization"] > 0 /\ Interval["live"] > 0 /\ MaxDuration = 0 =>
    \A w \in Gameweeks : <>[](source.current = w /\ Settled(w)) => <>[]latest[w].final

\* The scheduler sees nothing but what its own module describes.
UsesScheduler == SchedulerSpec

\* The analyses call a final gameweek actual.  Refuted: the observation that
\* made it final is a second one, and the first is read with it.
FinalizedIsActual ==
  \A w \in Gameweeks : latest[w].final => OutcomeState(w) = "actual"
=============================================================================
