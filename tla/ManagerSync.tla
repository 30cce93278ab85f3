------------------------------ MODULE ManagerSync ------------------------------
(***************************************************************************)
(* The synchronisation of one user's private data for a gameweek           *)
(* (backend/internal/app/manager_service.go on top of                      *)
(* manager_repository.go): the handlers that run Sync side by side, each   *)
(* for the user's own entry and a league with one goroutine per member,    *)
(* and the handlers that connect, disconnect and delete meanwhile.         *)
(*                                                                         *)
(* A page of the standings has one member.  A row is in a table or not:    *)
(* its fields are left out, except the states that decide something.  The  *)
(* work items of a run are the keys of those that wait for a retry.        *)
(***************************************************************************)
EXTENDS Integers, FiniteSets, Sequences

CONSTANTS
  Tasks,        \* requests to synchronise
  Handlers,     \* requests to connect, disconnect or delete
  Own,          \* the entry of the user
  Standings,    \* the members of the league in the order of the table
  Scopes,       \* the scopes that a user may have, among "entry" and "league"
  MemberLimit,
  MaxPages,     \* MaxLeaguePages
  FanOut,       \* members that are fetched at once: 4 in the code
  MaxRuns, MaxFaults, MaxDialogs  \* bounds: runs, failing calls, other requests and restarts

Members == {Standings[i] : i \in 1 .. Len(Standings)}
Entries == {Own} \cup Members
Runs == 1 .. MaxRuns

ASSUME ManagerAssumption ==
  /\ Standings \in Seq(Entries) /\ Standings # <<>> /\ Len(Standings) = Cardinality(Members)
  /\ Scopes \subseteq {"entry", "league"}
  /\ {MemberLimit, MaxPages, FanOut} \subseteq Nat \ {0}
  /\ {MaxRuns, MaxFaults, MaxDialogs} \subseteq Nat

VARIABLES
  scopes,      \* manager_sync_scopes
  wanted,      \* history: wanted[r], the enabled scopes that run r was given
  run,         \* manager_sync_runs
  retryable,   \* retryable[r]: keys of manager_sync_work_items of r in that state
  entries,     \* manager_entries
  picks,       \* entries that have a snapshot in manager_pick_snapshots
  activeTeam,  \* active_team_snapshots of Own: none, partial or complete
  link,        \* league_member_pick_links
  connection,  \* manager_connections of Own
  credential,  \* the MemorySessionProvider: none, good, or one of another entry
  status,      \* ManagerService.status: the run it names (0 for none) and its status
  task,        \* the local variables of Sync
  member,      \* member[t][m]: the goroutine of t that fetches the picks of m
  dialog,      \* the other handlers
  dialogs, faults, deletions

tables == <<scopes, wanted, run, retryable, entries, picks, activeTeam, link>>
remote == <<connection, credential>>
others == <<dialog, dialogs, deletions>>
vars == <<tables, remote, status, task, member, others, faults>>

Stages == <<"entry", "history", "transfers", "picks">>
StageNames == {Stages[i] : i \in 1 .. 4}
TaskSteps == {"idle", "scopes", "next", "enqueue", "session", "team", "connected",
              "page", "members", "finish"} \cup StageNames
MemberSteps == {"none", "waiting", "enqueue", "fetch", "link", "failed", "mark", "done"}
Keys == (StageNames \cup {"page", "member"}) \X Entries
ScopeStates == {"absent", "disabled", "enabled"}
ConnectionStates == {"none", "connected", "reauth_required", "permission_denied", "revoked"}

NoTask == [pc |-> "idle", run |-> 0, todo |-> {}, completed |-> 0, failed |-> 0, page |-> 0,
           public |-> TRUE, session |-> "none", failures |-> 0, error |-> FALSE]
NoDialog == [kind |-> "none", step |-> "done", cookie |-> "none"]

TypeOK ==
  /\ scopes \in [Scopes -> ScopeStates] /\ wanted \in [Runs -> SUBSET Scopes]
  /\ run \in [Runs -> {"none", "running", "success", "partial", "deleted"}]
  /\ retryable \in [Runs -> SUBSET Keys]
  /\ entries \subseteq Entries /\ picks \subseteq entries
  /\ activeTeam \in {"none", "partial", "complete"}
  /\ link \in [Members -> {"none", "pending", "completed", "failed"}]
  /\ connection \in ConnectionStates
  /\ credential \in {"none", "good", "foreign"}
  /\ status \in [run : 0 .. MaxRuns, state : {"idle", "running", "success", "partial"}]
  /\ task \in [Tasks -> [pc : TaskSteps, run : 0 .. MaxRuns, todo : SUBSET Scopes,
                         completed : Nat, failed : Nat, page : 0 .. MaxPages,
                         public : BOOLEAN, session : {"none", "good", "foreign"},
                         failures : Nat, error : BOOLEAN]]
  /\ member \in [Tasks -> [Members -> MemberSteps]]
  /\ dialog \in [Handlers -> [kind : {"none", "connect", "disconnect", "delete"},
                              step : {"done", "me", "upsert", "revoke", "state", "delete"},
                              cookie : {"none", "good", "foreign"}]]
  /\ dialogs \in 0 .. MaxDialogs /\ faults \in 0 .. MaxFaults /\ deletions \in Nat

\* The user has named the scopes before: a request that comes earlier finds
\* what it finds after a deletion.
Init ==
  /\ scopes \in [Scopes -> {"disabled", "enabled"}]
  /\ wanted = [r \in Runs |-> {}]
  /\ run = [r \in Runs |-> "none"]
  /\ retryable = [r \in Runs |-> {}]
  /\ entries = {} /\ picks = {}
  /\ activeTeam = "none"
  /\ link = [m \in Members |-> "none"]
  /\ connection = "none" /\ credential = "none"
  /\ status = [run |-> 0, state |-> "idle"]
  /\ task = [t \in Tasks |-> NoTask]
  /\ member = [t \in Tasks |-> [m \in Members |-> "none"]]
  /\ dialog = [h \in Handlers |-> NoDialog]
  /\ dialogs = 0 /\ faults = 0 /\ deletions = 0

-----------------------------------------------------------------------------
(* Steps of Sync.                                                          *)

At(t, pc) == task[t].pc = pc
Goto(t, pc) == task' = [task EXCEPT ![t].pc = pc]

\* A call answers, or it fails.
Answers == UNCHANGED faults
Fails == faults < MaxFaults /\ faults' = faults + 1

\* syncEntry or syncLeague returns to the loop of Sync.
Return(t, failed) ==
  task' = [task EXCEPT ![t].pc = "next",
                       ![t].failed = IF failed THEN @ + 1 ELSE @,
                       ![t].completed = IF failed THEN @ ELSE @ + 1]

\* UpdateManagerWork: of a row that is still there.
Mark(r, key) ==
  retryable' = IF run[r] = "deleted" THEN retryable ELSE [retryable EXCEPT ![r] = @ \cup {key}]

\* Sync: StartManagerRun and the status.  If it fails nothing has happened.
Start(t, r) ==
  /\ At(t, "idle")
  /\ run[r] = "none"
  /\ \A q \in Runs : q < r => run[q] # "none"
  /\ run' = [run EXCEPT ![r] = "running"]
  /\ status' = [run |-> r, state |-> "running"]
  /\ task' = [task EXCEPT ![t] = [NoTask EXCEPT !.pc = "scopes", !.run = r]]
  /\ UNCHANGED <<scopes, wanted, retryable, entries, picks, activeTeam, link, remote, member, others, faults>>

Listed == {s \in Scopes : scopes[s] # "absent"}
Enabled == {s \in Scopes : scopes[s] = "enabled"}

\* Without a scope it is an error; one that is disabled counts as a scope.
ListManagerScopes(t) ==
  /\ At(t, "scopes")
  /\ \/ /\ Answers
        /\ task' = [task EXCEPT ![t].pc = IF Listed = {} THEN "finish" ELSE "next",
                                ![t].todo = Enabled, ![t].error = Listed = {}]
        /\ wanted' = [wanted EXCEPT ![task[t].run] = Enabled]
     \/ Fails /\ task' = [task EXCEPT ![t].pc = "finish", ![t].error = TRUE] /\ UNCHANGED wanted
  /\ UNCHANGED <<scopes, run, retryable, entries, picks, activeTeam, link, remote, status, member, others>>

\* The loop: entries come before leagues (ORDER BY scope_type).
NextScope(t) ==
  /\ At(t, "next")
  /\ LET todo == task[t].todo IN
       task' = [task EXCEPT
         ![t].todo = IF "entry" \in todo THEN todo \ {"entry"} ELSE {},
         ![t].pc = IF "entry" \in todo THEN "enqueue" ELSE IF "league" \in todo THEN "page" ELSE "finish",
         ![t].page = 1, ![t].failures = 0]
  /\ UNCHANGED <<tables, remote, status, member, others, faults>>

Outcome(t) == IF task[t].error \/ task[t].failed > 0 THEN "partial" ELSE "success"

\* Faulty variant: the status is set only if the run could be written.
finishOrGiveUp(t) ==
  /\ At(t, "finish")
  /\ \/ /\ Answers
        /\ run' = [run EXCEPT ![task[t].run] = IF @ = "deleted" THEN @ ELSE Outcome(t)]
        /\ status' = [run |-> task[t].run, state |-> Outcome(t)]
     \/ Fails /\ UNCHANGED <<run, status>>
  /\ task' = [task EXCEPT ![t] = NoTask]
  /\ UNCHANGED <<scopes, wanted, retryable, entries, picks, activeTeam, link, remote, member, others>>

\* finish: the error of FinishManagerRun is dropped.
finish(t) ==
  /\ At(t, "finish")
  /\ \/ Answers /\ run' = [run EXCEPT ![task[t].run] = IF @ = "deleted" THEN @ ELSE Outcome(t)]
     \/ Fails /\ UNCHANGED run
  /\ status' = [run |-> task[t].run, state |-> Outcome(t)]
  /\ task' = [task EXCEPT ![t] = NoTask]
  /\ UNCHANGED <<scopes, wanted, retryable, entries, picks, activeTeam, link, remote, member, others>>

-----------------------------------------------------------------------------
(* syncEntry.                                                              *)

\* EnqueueManagerWork: a row of a run that was deleted cannot be inserted.
Enqueued(r) == run[r] # "deleted"

EnqueueEntry(t) ==
  /\ At(t, "enqueue")
  /\ \/ Answers /\ Enqueued(task[t].run) /\ Goto(t, "entry")
     \/ Answers /\ ~Enqueued(task[t].run) /\ Return(t, TRUE)
     \/ Fails /\ Return(t, TRUE)
  /\ UNCHANGED <<tables, remote, status, member, others>>

\* The three stages that must succeed: the call to the source, the transaction
\* (resolveManagerEntry fails if the entry is not there) and the mark.
PublicStage(t) ==
  \E i \in 1 .. 3 :
    /\ At(t, Stages[i])
    /\ \/ /\ Answers
          /\ i = 1 \/ Own \in entries
          /\ entries' = entries \cup {Own}
          /\ Goto(t, Stages[i + 1])
          /\ UNCHANGED retryable
       \/ /\ IF i = 1 \/ Own \in entries THEN Fails ELSE Answers
          /\ Mark(task[t].run, <<Stages[i], Own>>)
          /\ Return(t, TRUE)
          /\ UNCHANGED entries
    /\ UNCHANGED <<scopes, wanted, run, picks, activeTeam, link, remote, status, member, others>>

\* Picks that the source does not give are not the end: the private team may
\* stand in for them.
PicksStage(t) ==
  /\ At(t, "picks")
  /\ \/ Answers /\ Own \in entries /\ picks' = picks \cup {Own} /\ Goto(t, "session") /\ UNCHANGED retryable
     \/ /\ IF Own \in entries THEN Fails ELSE Answers
        /\ Mark(task[t].run, <<"picks", Own>>)
        /\ Return(t, TRUE)
        /\ UNCHANGED picks
     \/ /\ Fails
        /\ Mark(task[t].run, <<"picks", Own>>)
        /\ task' = [task EXCEPT ![t].pc = "session", ![t].public = FALSE]
        /\ UNCHANGED picks
  /\ UNCHANGED <<scopes, wanted, run, entries, activeTeam, link, remote, status, member, others>>

\* Sessions.Get; the error of the picks is what remains without a session.
GetSession(t) ==
  /\ At(t, "session")
  /\ IF credential = "none" THEN Return(t, ~task[t].public)
     ELSE task' = [task EXCEPT ![t].pc = "team", ![t].session = credential]
  /\ UNCHANGED <<tables, remote, status, member, others, faults>>

\* SetManagerConnectionState: of a row that is there.
SetConnection(state) == connection' = IF connection = "none" THEN connection ELSE state

\* MyTeam and PersistActiveTeam, or the state that a refusal leads to.  The
\* source refuses a session of another entry.
PrivateTeam(t) ==
  /\ At(t, "team")
  /\ \/ /\ task[t].session = "good" /\ Own \in entries
        /\ Answers
        /\ activeTeam' = IF task[t].public THEN "complete" ELSE "partial"
        /\ Goto(t, "connected")
        /\ UNCHANGED connection
     \/ /\ IF task[t].session = "foreign" THEN Answers ELSE Fails
        /\ \E state \in {"reauth_required", "permission_denied"} : SetConnection(state)
        /\ Return(t, TRUE)
        /\ UNCHANGED activeTeam
     \/ /\ IF Own \in entries THEN Fails ELSE task[t].session = "good" /\ Answers
        /\ Return(t, TRUE)
        /\ UNCHANGED <<activeTeam, connection>>
  /\ UNCHANGED <<scopes, wanted, run, retryable, entries, picks, link, credential, status, member, others>>

TellConnected(t) ==
  /\ At(t, "connected")
  /\ \/ Answers /\ SetConnection("connected") /\ Return(t, ~task[t].public)
     \/ Fails /\ Return(t, TRUE) /\ UNCHANGED connection
  /\ UNCHANGED <<tables, credential, status, member, others>>

-----------------------------------------------------------------------------
(* syncLeague.                                                             *)

\* One page: the work item, the call, PersistLeaguePage.  What was stored
\* stays when a later page fails, or when there are too many.
LeaguePage(t) ==
  /\ At(t, "page")
  /\ LET page == task[t].page
         r == task[t].run
         m == Standings[page] IN
       \/ /\ Enqueued(r)
          /\ Answers
          /\ entries' = entries \cup {m}
          /\ link' = [link EXCEPT ![m] = IF @ = "none" THEN "pending" ELSE @]
          /\ IF page = Len(Standings) THEN Goto(t, "members")
             ELSE IF page = MaxPages THEN Return(t, TRUE)
             ELSE task' = [task EXCEPT ![t].page = @ + 1]
          /\ UNCHANGED retryable
       \/ /\ IF Enqueued(r) THEN Fails ELSE Answers
          /\ \/ Enqueued(r) /\ Mark(r, <<"page", m>>)
             \/ UNCHANGED retryable
          /\ Return(t, TRUE)
          /\ UNCHANGED <<entries, link>>
  /\ UNCHANGED <<scopes, wanted, run, picks, activeTeam, remote, status, member, others>>

\* SelectLeagueMembers without a choice: the first of the table.
Selected == {Standings[i] : i \in 1 .. IF Len(Standings) < MemberLimit THEN Len(Standings) ELSE MemberLimit}

StartMembers(t) ==
  /\ At(t, "members")
  /\ \A m \in Members : member[t][m] = "none"
  /\ member' = [member EXCEPT ![t] = [m \in Members |-> IF m \in Selected THEN "waiting" ELSE "none"]]
  /\ UNCHANGED <<tables, remote, status, task, others, faults>>

\* Faulty variant: the semaphore is not given back.
HoldingForEver == {"enqueue", "fetch", "link", "failed", "mark", "done"}

Holding == {"enqueue", "fetch", "link", "failed", "mark"}
Step(t, m, pc) == member' = [member EXCEPT ![t][m] = pc]
Record(t) == task' = [task EXCEPT ![t].failures = @ + 1]

\* The semaphore, or the context of the request is over.
Acquire(t, m) ==
  /\ member[t][m] = "waiting"
  /\ \/ /\ Cardinality({n \in Members : member[t][n] \in Holding}) < FanOut
        /\ Answers /\ Step(t, m, "enqueue") /\ UNCHANGED task
     \/ Fails /\ Step(t, m, "done") /\ Record(t)
  /\ UNCHANGED <<tables, remote, status, others>>

EnqueueMember(t, m) ==
  /\ member[t][m] = "enqueue"
  /\ \/ Enqueued(task[t].run) /\ Answers /\ Step(t, m, "fetch") /\ UNCHANGED task
     \/ /\ IF Enqueued(task[t].run) THEN Fails ELSE Answers
        /\ Step(t, m, "done") /\ Record(t)
  /\ UNCHANGED <<tables, remote, status, others>>

\* The call, and PersistPicks if the entry is there.
FetchPicks(t, m) ==
  /\ member[t][m] = "fetch"
  /\ \/ m \in entries /\ Answers /\ picks' = picks \cup {m} /\ Step(t, m, "link")
     \/ /\ IF m \in entries THEN Fails ELSE Answers
        /\ Step(t, m, "failed") /\ UNCHANGED picks
  /\ UNCHANGED <<scopes, wanted, run, retryable, entries, activeTeam, link, remote, status, task, others>>

\* LinkLeagueMemberPick, of a row that is there.
LinkAs(m, state) == link' = [link EXCEPT ![m] = IF @ = "none" THEN @ ELSE state]

LinkPicks(t, m) ==
  /\ member[t][m] = "link"
  /\ \/ Answers /\ LinkAs(m, "completed") /\ Step(t, m, "mark")
     \/ Fails /\ Step(t, m, "failed") /\ UNCHANGED link
  /\ UNCHANGED <<scopes, wanted, run, retryable, entries, picks, activeTeam, remote, status, task, others>>

\* Faulty variant: the failure is in the tables and nowhere else.
LinkFailureOnly(t, m) ==
  /\ member[t][m] = "failed"
  /\ \/ Answers /\ LinkAs(m, "failed")
     \/ Fails /\ UNCHANGED link
  /\ Mark(task[t].run, <<"member", m>>)
  /\ Step(t, m, "done")
  /\ UNCHANGED <<scopes, wanted, run, entries, picks, activeTeam, remote, status, task, others>>

\* The link, the work item and the list of failures.
LinkFailure(t, m) ==
  /\ member[t][m] = "failed"
  /\ \/ Answers /\ LinkAs(m, "failed")
     \/ Fails /\ UNCHANGED link
  /\ Mark(task[t].run, <<"member", m>>)
  /\ Step(t, m, "done")
  /\ Record(t)
  /\ UNCHANGED <<scopes, wanted, run, entries, picks, activeTeam, remote, status, others>>

MarkMember(t, m) ==
  /\ member[t][m] = "mark"
  /\ \/ Answers /\ UNCHANGED task
     \/ Fails /\ Record(t)
  /\ Step(t, m, "done")
  /\ UNCHANGED <<tables, remote, status, others>>

Waited(t) == \A m \in Selected : member[t][m] = "done"

LeagueDone(t) ==
  /\ At(t, "members")
  /\ Waited(t)
  /\ Return(t, task[t].failures > 0)
  /\ member' = [member EXCEPT ![t] = [m \in Members |-> "none"]]
  /\ UNCHANGED <<tables, remote, status, others, faults>>
-----------------------------------------------------------------------------
(* The other handlers and the process.                                     *)

Asks == dialogs < MaxDialogs /\ dialogs' = dialogs + 1
DialogAt(h, kind, step) == dialog[h].kind = kind /\ dialog[h].step = step
To(h, step) == dialog' = [dialog EXCEPT ![h].step = step]
OnlyTask == UNCHANGED <<status, task, member>>

\* Connect: the provider has the session before it is validated.
PutSession(h, cookie) ==
  /\ dialog[h].step = "done" /\ Asks
  /\ credential' = cookie
  /\ dialog' = [dialog EXCEPT ![h] = [kind |-> "connect", step |-> "me", cookie |-> cookie]]
  /\ OnlyTask /\ UNCHANGED <<tables, connection, deletions, faults>>

\* Faulty variant: any answer of Me will do.
MeAnswers(h) ==
  /\ DialogAt(h, "connect", "me")
  /\ \/ Answers /\ To(h, "upsert")
     \/ Fails /\ To(h, "revoke")
  /\ OnlyTask /\ UNCHANGED <<tables, remote, dialogs, deletions>>

Me(h) ==
  /\ DialogAt(h, "connect", "me")
  /\ \/ Answers /\ To(h, IF dialog[h].cookie = "good" THEN "upsert" ELSE "revoke")
     \/ Fails /\ To(h, "revoke")
  /\ OnlyTask /\ UNCHANGED <<tables, remote, dialogs, deletions>>

\* If the row cannot be written the handler says no, and the session stays.
UpsertConnection(h) ==
  /\ DialogAt(h, "connect", "upsert")
  /\ \/ Answers /\ connection' = "connected"
     \/ Fails /\ UNCHANGED connection
  /\ To(h, "done")
  /\ OnlyTask /\ UNCHANGED <<tables, credential, dialogs, deletions>>

Disconnect(h) ==
  /\ dialog[h].step = "done" /\ Asks
  /\ dialog' = [dialog EXCEPT ![h] = [kind |-> "disconnect", step |-> "revoke", cookie |-> "none"]]
  /\ OnlyTask /\ UNCHANGED <<tables, remote, deletions, faults>>

Revoke(h) ==
  /\ dialog[h].step = "revoke"
  /\ credential' = "none"
  /\ To(h, IF dialog[h].kind = "connect" THEN "done" ELSE "state")
  /\ OnlyTask /\ UNCHANGED <<tables, connection, dialogs, deletions, faults>>

Disconnected(h) ==
  /\ DialogAt(h, "disconnect", "state")
  /\ \/ Answers /\ SetConnection("revoked")
     \/ Fails /\ UNCHANGED connection
  /\ To(h, "done")
  /\ OnlyTask /\ UNCHANGED <<tables, credential, dialogs, deletions>>

\* managerData: the sessions of the entries among the scopes, then the rows.
ManagerData(h) ==
  /\ dialog[h].step = "done" /\ Asks
  /\ credential' = IF "entry" \in Listed THEN "none" ELSE credential
  /\ dialog' = [dialog EXCEPT ![h] = [kind |-> "delete", step |-> "delete", cookie |-> "none"]]
  /\ OnlyTask /\ UNCHANGED <<tables, connection, deletions, faults>>

DeleteManagerData(h) ==
  /\ DialogAt(h, "delete", "delete")
  /\ Answers
  /\ scopes' = [s \in Scopes |-> "absent"]
  /\ run' = [r \in Runs |-> IF run[r] = "none" THEN "none" ELSE "deleted"]
  /\ retryable' = [r \in Runs |-> {}]
  /\ entries' = {} /\ picks' = {} /\ activeTeam' = "none"
  /\ link' = [m \in Members |-> "none"]
  /\ connection' = "none"
  /\ deletions' = deletions + 1
  /\ To(h, "done")
  /\ OnlyTask /\ UNCHANGED <<wanted, credential, dialogs>>

DeleteFails(h) ==
  /\ DialogAt(h, "delete", "delete")
  /\ Fails /\ To(h, "done")
  /\ OnlyTask /\ UNCHANGED <<tables, remote, dialogs, deletions>>

UpsertManagerScope(s, state) ==
  /\ Asks
  /\ scopes' = [scopes EXCEPT ![s] = state]
  /\ OnlyTask
  /\ UNCHANGED <<wanted, run, retryable, entries, picks, activeTeam, link, remote, dialog, deletions, faults>>

\* What is in memory is lost; rows of runs stay as they are.
Restart ==
  /\ Asks
  /\ task' = [t \in Tasks |-> NoTask]
  /\ member' = [t \in Tasks |-> [m \in Members |-> "none"]]
  /\ dialog' = [h \in Handlers |-> NoDialog]
  /\ credential' = "none"
  /\ status' = [run |-> 0, state |-> "idle"]
  /\ UNCHANGED <<tables, connection, deletions, faults>>

-----------------------------------------------------------------------------

TaskStep(t) ==
  \/ ListManagerScopes(t) \/ NextScope(t) \/ finish(t)
  \/ EnqueueEntry(t) \/ PublicStage(t) \/ PicksStage(t)
  \/ GetSession(t) \/ PrivateTeam(t) \/ TellConnected(t)
  \/ LeaguePage(t) \/ StartMembers(t) \/ LeagueDone(t)
  \/ \E m \in Members : \/ Acquire(t, m) \/ EnqueueMember(t, m) \/ FetchPicks(t, m)
                        \/ LinkPicks(t, m) \/ LinkFailure(t, m) \/ MarkMember(t, m)

Dialog(h) ==
  \/ \E cookie \in {"good", "foreign"} : PutSession(h, cookie)
  \/ Me(h) \/ UpsertConnection(h)
  \/ Disconnect(h) \/ Revoke(h) \/ Disconnected(h)
  \/ ManagerData(h) \/ DeleteManagerData(h) \/ DeleteFails(h)

Next ==
  \/ \E t \in Tasks : TaskStep(t) \/ \E r \in Runs : Start(t, r)
  \/ \E h \in Handlers : Dialog(h)
  \/ \E s \in Scopes, state \in {"disabled", "enabled"} : UpsertManagerScope(s, state)
  \/ Restart

Spec == Init /\ [][Next]_vars

\* A goroutine that can step does, and a call answers or fails.
FairSpec == Spec /\ \A t \in Tasks : WF_vars(TaskStep(t))

-----------------------------------------------------------------------------
(* Properties.                                                             *)

\* The status that people see says running only while the run it names is
\* being worked on, whatever fails and whichever of several requests ends first.
StatusIsLive ==
  status.state = "running" => \E t \in Tasks : task[t].run = status.run /\ ~At(t, "idle")

\* A success has stored the picks of every scope it was asked for, of the last
\* member too.
SuccessIsStored ==
  deletions = 0 => \A r \in Runs : run[r] = "success" =>
    ("entry" \in wanted[r] => Own \in picks) /\ ("league" \in wanted[r] => Selected \subseteq picks)

\* Nothing of a run that ended as a success waits for a retry.
SuccessHasNothingToRetry == \A r \in Runs : run[r] = "success" => retryable[r] = {}

\* The league analyses call a member failed only after a run that did not
\* succeed: no failure of a goroutine is swallowed.
FailedLinkIsReported ==
  deletions = 0 => \A m \in Members : link[m] = "failed" =>
    \E r \in Runs : run[r] \in {"running", "partial"}

\* An active team that misses no input was stored with public picks beside it.
ActiveTeamIsComplete == deletions = 0 /\ activeTeam = "complete" => Own \in picks

\* Neither a success nor a complete team hides something that failed.
SuccessHidesNothing ==
  TypeOK /\ SuccessIsStored /\ SuccessHasNothingToRetry /\ FailedLinkIsReported /\ ActiveTeamIsComplete

\* A session of another entry is in memory only while a request validates it.
AcceptedSession ==
  credential = "foreign" => \E h \in Handlers : dialog[h].kind = "connect" /\ dialog[h].step \in {"me", "revoke"}

\* Every synchronisation comes to an end: the wait for the members and the
\* semaphore let it.
SyncsEnd == \A t \in Tasks : []<>At(t, "idle")

\* What a user has deleted stays deleted until the next synchronisation.
\* Refuted: one that is under way writes the entry again.
DeletedStaysDeleted == (\A r \in Runs : run[r] \in {"none", "deleted"}) => entries = {}
=============================================================================
