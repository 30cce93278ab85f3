--------------------------- MODULE ManagerSyncProofs ---------------------------
(***************************************************************************)
(* What holds of ManagerSync for any number of requests, handlers, members *)
(* of the league, runs, failing calls and restarts.                        *)
(*                                                                         *)
(* A synchronisation under way is either doomed, which its outcome will    *)
(* say, or has stored what it has been through.  That is the invariant:    *)
(* every failure dooms the task in the step in which it happens.           *)
(***************************************************************************)
EXTENDS ManagerSync, TLAPS

TaskRow == [pc : TaskSteps, run : 0 .. MaxRuns, todo : SUBSET Scopes,
            completed : Nat, failed : Nat, page : 0 .. MaxPages,
            public : BOOLEAN, session : {"none", "good", "foreign"},
            failures : Nat, error : BOOLEAN]
DialogRow == [kind : {"none", "connect", "disconnect", "delete"},
              step : {"done", "me", "upsert", "revoke", "state", "delete"},
              cookie : {"none", "good", "foreign"}]

Busy(x) == x.pc # "idle"
Private == {"session", "team", "connected"}
OwnSteps == {"enqueue", "entry", "history", "transfers", "picks"} \cup Private

\* A task that has met a failure it will report.
Doomed(x) ==
  \/ x.error
  \/ x.failed > 0
  \/ x.pc = "members" /\ x.failures > 0
  \/ x.pc \in Private /\ ~x.public

\* The local variables of a task and what waits for a retry.
Follows(x, waiting) ==
  /\ x.run \in Runs
  /\ x.pc = "page" => x.page \in 1 .. Len(Standings)
  /\ x.pc = "finish" => x.todo = {} \/ x.error
  /\ x.error => x.pc = "finish"
  /\ waiting # {} => Doomed(x)

\* What a task that is not doomed has stored.
Stored(x, y, P, W) ==
  /\ x.pc \in Private /\ x.public => Own \in P
  /\ x.pc \in {"next", "page", "members", "finish"} /\ ~Doomed(x) /\ "entry" \in W \ x.todo => Own \in P
  /\ x.pc \in OwnSteps \cup {"next", "finish"} /\ ~Doomed(x) /\ "league" \in W \ x.todo => Selected \subseteq P
  /\ \A m \in Members : y[m] \in {"link", "mark"} => m \in P
  /\ x.pc = "members" /\ x.failures = 0 => \A m \in Members : y[m] = "done" => m \in P

\* A run whose outcome tells, or will tell, of a failure, unless it stays open.
Reported(r) ==
  \/ run[r] = "partial"
  \/ run[r] = "running" /\ \A t \in Tasks : Busy(task[t]) /\ task[t].run = r => Doomed(task[t])

TasksInv ==
  /\ \A t \in Tasks : Busy(task[t]) =>
       Follows(task[t], retryable[task[t].run]) /\ run[task[t].run] \in {"running", "deleted"}
  /\ \A t \in Tasks : task[t].pc # "members" => \A m \in Members : member[t][m] = "none"
  /\ \A t, u \in Tasks : t # u /\ Busy(task[t]) /\ Busy(task[u]) => task[t].run # task[u].run
  /\ \A r \in Runs : run[r] \in {"none", "success"} => retryable[r] = {}

StoredInv ==
  deletions = 0 =>
    /\ \A r \in Runs : run[r] # "deleted"
    /\ \A t \in Tasks : Busy(task[t]) => Stored(task[t], member[t], picks, wanted[task[t].run])
    /\ SuccessIsStored
    /\ \A m \in Members : link[m] = "failed" => \E r \in Runs : Reported(r)
    /\ ActiveTeamIsComplete

\* The session of another entry belongs to a request that will refuse it.
SessionInv ==
  credential = "foreign" =>
    \E h \in Handlers : /\ dialog[h].kind = "connect" /\ dialog[h].step \in {"me", "revoke"}
                        /\ dialog[h].cookie = "foreign"

Inv == TypeOK /\ TasksInv /\ StoredInv /\ SessionInv /\ StatusIsLive

-----------------------------------------------------------------------------

LEMMA InitInv == Init => Inv
<1> SUFFICES ASSUME Init PROVE Inv
  OBVIOUS
<1>1. TypeOK
  BY ManagerAssumption DEF Init, TypeOK, NoTask, NoDialog, TaskSteps, MemberSteps, ConnectionStates, ScopeStates
<1>2. TasksInv
  BY DEF Init, TasksInv, Busy, NoTask
<1>3. StoredInv
  BY DEF Init, StoredInv, Busy, NoTask, SuccessIsStored, ActiveTeamIsComplete
<1> QED
  BY <1>1, <1>2, <1>3 DEF Init, Inv, SessionInv, StatusIsLive

\* One task moves on, together with its goroutines, and does not forget what
\* dooms it.
LEMMA TaskMoves ==
  ASSUME Inv, NEW t \in Tasks, Busy(task[t]), NEW x \in TaskRow, NEW y \in [Members -> MemberSteps],
         task' = [task EXCEPT ![t] = x], member' = [member EXCEPT ![t] = y],
         Busy(x), x.run = task[t].run, Doomed(task[t]) => Doomed(x),
         x.pc = "page" => x.page \in 1 .. Len(Standings),
         x.pc = "finish" => x.todo = {} \/ x.error,
         x.error => x.pc = "finish",
         x.pc # "members" => \A m \in Members : y[m] = "none",
         UNCHANGED <<scopes, run, status, credential, dialog, dialogs, deletions>>,
         \/ UNCHANGED wanted
         \/ wanted' \in [Runs -> SUBSET Scopes] /\ \A r \in Runs : r # x.run => wanted'[r] = wanted[r],
         retryable' \in [Runs -> SUBSET Keys],
         \A r \in Runs : r # x.run => retryable'[r] = retryable[r],
         retryable' = retryable \/ Doomed(x),
         entries' \subseteq Entries, picks \subseteq picks', picks' \subseteq entries',
         faults' \in 0 .. MaxFaults, connection' \in ConnectionStates,
         link' \in [Members -> {"none", "pending", "completed", "failed"}],
         activeTeam' \in {"none", "partial", "complete"},
         deletions = 0 =>
           /\ Stored(x, y, picks', wanted'[x.run])
           /\ \A m \in Members : link'[m] = "failed" => link[m] = "failed" \/ Doomed(x)
           /\ activeTeam' = "complete" => activeTeam = "complete" \/ Own \in picks'
  PROVE  Inv'
<1>1. task \in [Tasks -> TaskRow] /\ member \in [Tasks -> [Members -> MemberSteps]]
  BY DEF Inv, TypeOK, TaskRow
<1>2. /\ task'[t] = x /\ member'[t] = y
      /\ \A u \in Tasks : u # t => task'[u] = task[u] /\ member'[u] = member[u]
      /\ task' \in [Tasks -> TaskRow] /\ member' \in [Tasks -> [Members -> MemberSteps]]
  BY <1>1
<1>a. wanted' \in [Runs -> SUBSET Scopes] /\ \A r \in Runs : r # x.run => wanted'[r] = wanted[r]
  BY DEF Inv, TypeOK
<1>3. TypeOK'
  BY <1>2, <1>a DEF Inv, TypeOK, TaskRow
<1>4. x.run \in Runs
  BY DEF Inv, TasksInv, Follows
<1>5. TasksInv'
  <2>1. \A u \in Tasks : Busy(task'[u]) <=> Busy(task[u])
    BY <1>2
  <2>2. \A u \in Tasks : task'[u].run = task[u].run
    BY <1>2
  <2>3. ASSUME NEW u \in Tasks, Busy(task'[u])
        PROVE  /\ Follows(task'[u], retryable'[task'[u].run])
               /\ run'[task'[u].run] \in {"running", "deleted"}
    <3>1. /\ Follows(task[u], retryable[task[u].run])
          /\ run[task[u].run] \in {"running", "deleted"}
      BY <2>1, <2>3 DEF Inv, TasksInv
    <3>2. CASE u = t
      BY <1>2, <1>4, <3>1, <3>2 DEF Follows
    <3>3. CASE u # t
      <4>1. task[u].run # task[t].run
        BY <2>1, <2>3, <3>3 DEF Inv, TasksInv
      <4>2. retryable'[task[u].run] = retryable[task[u].run]
        BY <3>1, <4>1 DEF Follows
      <4> QED
        BY <1>2, <3>1, <3>3, <4>2
    <3> QED
      BY <3>2, <3>3
  <2>4. \A u \in Tasks : task'[u].pc # "members" => \A m \in Members : member'[u][m] = "none"
    BY <1>2 DEF Inv, TasksInv
  <2>5. \A u, v \in Tasks : u # v /\ Busy(task'[u]) /\ Busy(task'[v]) => task'[u].run # task'[v].run
    BY <2>1, <2>2 DEF Inv, TasksInv
  <2>6. \A r \in Runs : run'[r] \in {"none", "success"} => retryable'[r] = {}
    BY DEF Inv, TasksInv
  <2> QED
    BY <2>3, <2>4, <2>5, <2>6 DEF TasksInv
<1>6. StoredInv'
  <2> SUFFICES ASSUME deletions = 0
               PROVE  /\ \A u \in Tasks : Busy(task'[u]) => Stored(task'[u], member'[u], picks', wanted'[task'[u].run])
                      /\ SuccessIsStored'
                      /\ \A m \in Members : link'[m] = "failed" => \E r \in Runs : Reported(r)'
                      /\ ActiveTeamIsComplete'
    BY DEF Inv, StoredInv
  <2>1. ASSUME NEW u \in Tasks, Busy(task'[u]) PROVE Stored(task'[u], member'[u], picks', wanted'[task'[u].run])
    <3>1. CASE u = t
      BY <1>2, <3>1
    <3>2. CASE u # t
      <4>1. Stored(task[u], member[u], picks, wanted[task[u].run])
        BY <1>2, <2>1, <3>2 DEF Inv, StoredInv
      <4> HIDE DEF Doomed
      <4>2. Stored(task[u], member[u], picks', wanted[task[u].run])
        BY <4>1 DEF Stored
      <4>3. task[u].run \in Runs /\ task[u].run # x.run
        BY <1>2, <2>1, <3>2 DEF Inv, TasksInv, Follows
      <4> QED
        BY <1>2, <1>a, <3>2, <4>2, <4>3
    <3> QED
      BY <3>1, <3>2
  <2>2. SuccessIsStored'
    <3>1. run[x.run] = "running"
      BY <1>4 DEF Inv, TasksInv, StoredInv
    <3> QED
      BY <1>a, <3>1 DEF Inv, StoredInv, SuccessIsStored
  <2>3. ASSUME NEW r \in Runs, Reported(r) PROVE Reported(r)'
    BY <1>2, <2>3 DEF Reported
  <2>4. Doomed(x) => Reported(x.run)'
    <3> SUFFICES ASSUME Doomed(x) PROVE Reported(x.run)'
      OBVIOUS
    <3>1. run[x.run] = "running"
      BY <1>4 DEF Inv, TasksInv, StoredInv
    <3>2. \A u \in Tasks : Busy(task'[u]) /\ task'[u].run = x.run => u = t
      BY <1>2 DEF Inv, TasksInv
    <3> QED
      BY <1>2, <3>1, <3>2 DEF Reported
  <2>5. \A m \in Members : link'[m] = "failed" => \E r \in Runs : Reported(r)'
    BY <1>4, <2>3, <2>4 DEF Inv, StoredInv
  <2>6. ActiveTeamIsComplete'
    BY DEF Inv, StoredInv, ActiveTeamIsComplete
  <2> QED
    BY <2>1, <2>2, <2>5, <2>6
<1>7. SessionInv'
  BY DEF Inv, SessionInv
<1>8. StatusIsLive'
  BY <1>2 DEF Inv, StatusIsLive, At, Busy
<1> QED
  BY <1>3, <1>5, <1>6, <1>7, <1>8 DEF Inv

-----------------------------------------------------------------------------
(* The tasks.                                                              *)

LEMMA Rows ==
  ASSUME Inv, NEW t \in Tasks
  PROVE  /\ task[t] \in TaskRow /\ member[t] \in [Members -> MemberSteps]
         /\ task = [task EXCEPT ![t] = task[t]] /\ member = [member EXCEPT ![t] = member[t]]
         /\ Busy(task[t]) => task[t].run \in Runs /\ (task[t].pc # "finish" => ~task[t].error)
         /\ task[t].pc # "members" => \A m \in Members : member[t][m] = "none"
         /\ deletions = 0 /\ Busy(task[t]) => Stored(task[t], member[t], picks, wanted[task[t].run])
<1>1. task \in [Tasks -> TaskRow] /\ member \in [Tasks -> [Members -> MemberSteps]]
  BY DEF Inv, TypeOK, TaskRow
<1> QED
  BY <1>1 DEF Inv, TasksInv, Follows, StoredInv

LEMMA MarkIsOneRun ==
  ASSUME Inv, NEW r \in Runs, NEW key \in Keys, Mark(r, key)
  PROVE  /\ retryable' \in [Runs -> SUBSET Keys]
         /\ \A q \in Runs : q # r => retryable'[q] = retryable[q]
  BY DEF Inv, TypeOK, Mark

\* The call returns to the loop, with what the stages have stored.
LEMMA Returns ==
  ASSUME Inv, NEW t \in Tasks, Busy(task[t]), task[t].pc # "finish",
         NEW failed \in BOOLEAN, Return(t, failed),
         member' = [member EXCEPT ![t] = [m \in Members |-> "none"]],
         Doomed(task[t]) => failed \/ task[t].failed > 0,
         UNCHANGED <<scopes, wanted, run, status, credential, dialog, dialogs, deletions>>,
         retryable' \in [Runs -> SUBSET Keys],
         \A r \in Runs : r # task[t].run => retryable'[r] = retryable[r],
         retryable' = retryable \/ failed,
         entries' \subseteq Entries, UNCHANGED picks, picks \subseteq entries',
         faults' \in 0 .. MaxFaults, connection' \in ConnectionStates,
         link' \in [Members -> {"none", "pending", "completed", "failed"}],
         activeTeam' \in {"none", "partial", "complete"},
         deletions = 0 =>
           /\ failed \/ task[t].failed > 0
              \/ /\ "entry" \in wanted[task[t].run] \ task[t].todo => Own \in picks
                 /\ "league" \in wanted[task[t].run] \ task[t].todo => Selected \subseteq picks
           /\ \A m \in Members : link'[m] = "failed" => link[m] = "failed" \/ failed
           /\ activeTeam' = "complete" => activeTeam = "complete" \/ Own \in picks
  PROVE  Inv'
<1> DEFINE x == [task[t] EXCEPT !.pc = "next",
                                !.failed = IF failed THEN @ + 1 ELSE @,
                                !.completed = IF failed THEN @ ELSE @ + 1]
           y == [m \in Members |-> "none"]
<1>1. /\ task[t] \in TaskRow /\ task[t].run \in Runs
      /\ y \in [Members -> MemberSteps] /\ \A m \in Members : y[m] = "none"
  BY Rows DEF MemberSteps
<1>2. task' = [task EXCEPT ![t] = x]
  BY DEF Return, Inv, TypeOK
<1>3. /\ x \in TaskRow /\ x.pc = "next" /\ x.run = task[t].run /\ x.todo = task[t].todo
      /\ x.error = task[t].error /\ x.failed = (IF failed THEN task[t].failed + 1 ELSE task[t].failed)
  <2>1. /\ x \in TaskRow /\ x.pc = "next" /\ x.run = task[t].run /\ x.todo = task[t].todo
        /\ x.error = task[t].error
    <3>1. task[t].failed \in Nat /\ task[t].completed \in Nat
      BY <1>1 DEF TaskRow
    <3>2. /\ (IF failed THEN task[t].failed + 1 ELSE task[t].failed) \in Nat
          /\ (IF failed THEN task[t].completed ELSE task[t].completed + 1) \in Nat
      BY <3>1
    <3> QED
      BY <1>1, <3>2, Zenon DEF TaskRow, TaskSteps
  <2> QED
    BY <1>1, <2>1 DEF TaskRow
<1>4. task[t].failed \in Nat
  BY <1>1 DEF TaskRow
<1> HIDE DEF x, y
<1>5. ~x.error /\ (Doomed(x) <=> failed \/ task[t].failed > 0)
  BY <1>3, Rows, <1>4 DEF Doomed, Private
<1>6. deletions = 0 => Stored(x, y, picks', wanted[x.run])
  BY <1>1, <1>3, <1>5 DEF Stored, Private, OwnSteps
<1> QED
  BY <1>1, <1>2, <1>3, <1>5, <1>6, TaskMoves DEF Busy, y

LEMMA AtAnother ==
  ASSUME Inv, NEW t \in Tasks, NEW pc \in TaskSteps
  PROVE  LET x == [task[t] EXCEPT !.pc = pc] IN
         /\ x \in TaskRow /\ x.pc = pc /\ x.run = task[t].run /\ x.todo = task[t].todo
         /\ x.error = task[t].error /\ x.failed = task[t].failed /\ x.page = task[t].page
         /\ x.public = task[t].public /\ x.failures = task[t].failures
<1>1. task[t] \in TaskRow
  BY Rows
<1> QED
  BY <1>1 DEF TaskRow

\* The stages that follow another one.
Following == {"entry", "history", "transfers", "picks", "session", "connected", "members"}

\* A step to the next stage, in which nothing fails.
LEMMA Goes ==
  ASSUME Inv, NEW t \in Tasks, Busy(task[t]), task[t].pc \notin {"members", "finish"},
         NEW pc \in Following,
         Goto(t, pc), UNCHANGED <<scopes, wanted, run, status, member, credential, dialog, dialogs, deletions>>,
         UNCHANGED <<retryable, connection>>,
         Doomed(task[t]) => task[t].failed > 0 \/ (pc \in Private /\ ~task[t].public),
         entries' \subseteq Entries, picks \subseteq picks', picks' \subseteq entries',
         faults' \in 0 .. MaxFaults,
         link' \in [Members -> {"none", "pending", "completed", "failed"}],
         activeTeam' \in {"none", "partial", "complete"},
         deletions = 0 =>
           /\ \/ pc \in OwnSteps \ Private /\ task[t].pc \in OwnSteps \ Private
              \/ pc \in Private /\ task[t].pc \in OwnSteps /\ (task[t].public => Own \in picks')
              \/ pc = "members" /\ task[t].pc = "page"
           /\ \A m \in Members : link'[m] = "failed" => link[m] = "failed"
           /\ activeTeam' = "complete" => activeTeam = "complete" \/ Own \in picks'
  PROVE  Inv'
<1> DEFINE x == [task[t] EXCEPT !.pc = pc]
<1>1. /\ task[t] \in TaskRow /\ task[t].run \in Runs /\ ~task[t].error /\ member[t] \in [Members -> MemberSteps]
      /\ member' = [member EXCEPT ![t] = member[t]] /\ \A m \in Members : member[t][m] = "none"
  BY Rows
<1>2. task' = [task EXCEPT ![t] = x]
  BY DEF Goto, Inv, TypeOK
<1>3. /\ x \in TaskRow /\ x.pc = pc /\ x.run = task[t].run /\ x.todo = task[t].todo
      /\ x.error = task[t].error /\ x.failed = task[t].failed
      /\ x.public = task[t].public /\ x.failures = task[t].failures
  BY AtAnother DEF TaskSteps, StageNames, Stages, Following
<1> HIDE DEF x
<1>4. Doomed(task[t]) => Doomed(x)
  BY <1>1, <1>3 DEF Doomed
<1>5. deletions = 0 => Stored(x, member[t], picks', wanted[x.run])
  <2> SUFFICES ASSUME deletions = 0 PROVE Stored(x, member[t], picks', wanted[x.run])
    OBVIOUS
  <2>1. Stored(task[t], member[t], picks, wanted[task[t].run])
    BY Rows
  <2>2. ~Doomed(x) => ~Doomed(task[t])
    BY <1>4
  <2> HIDE DEF Doomed
  <2> QED
    BY <1>1, <1>3, <2>1, <2>2 DEF Stored, OwnSteps, Private
<1>6. connection' \in ConnectionStates /\ retryable' \in [Runs -> SUBSET Keys]
  BY DEF Inv, TypeOK
<1> QED
  BY <1>1, <1>2, <1>3, <1>4, <1>5, <1>6, TaskMoves DEF Busy, Following

LEMMA Types ==
  ASSUME Inv
  PROVE  /\ retryable \in [Runs -> SUBSET Keys] /\ entries \subseteq Entries /\ picks \subseteq entries
         /\ connection \in ConnectionStates /\ faults \in 0 .. MaxFaults
         /\ link \in [Members -> {"none", "pending", "completed", "failed"}]
         /\ activeTeam \in {"none", "partial", "complete"}
         /\ Answers \/ Fails => faults' \in 0 .. MaxFaults
  BY ManagerAssumption DEF Inv, TypeOK, Answers, Fails

LEMMA ListManagerScopesKeepsInv ==
  ASSUME Inv, NEW t \in Tasks, ListManagerScopes(t) PROVE Inv'
<1>1. /\ task[t] \in TaskRow /\ task[t].run \in Runs /\ ~task[t].error /\ member[t] \in [Members -> MemberSteps]
      /\ member' = [member EXCEPT ![t] = member[t]] /\ \A m \in Members : member[t][m] = "none"
      /\ Busy(task[t])
  BY Rows DEF ListManagerScopes, At, Busy
<1>2. PICK pc \in {"finish", "next"}, todo \in SUBSET Scopes, error \in BOOLEAN :
        /\ task' = [task EXCEPT ![t].pc = pc, ![t].todo = todo, ![t].error = error]
        /\ pc = "finish" <=> error
        /\ error \/ wanted' = [wanted EXCEPT ![task[t].run] = todo]
        /\ Answers \/ Fails
  <2> DEFINE pc == IF Listed = {} THEN "finish" ELSE "next"
  <2>1. CASE /\ Answers
             /\ task' = [task EXCEPT ![t].pc = pc, ![t].todo = Enabled, ![t].error = Listed = {}]
             /\ wanted' = [wanted EXCEPT ![task[t].run] = Enabled]
    <3>1. /\ Enabled \in SUBSET Scopes /\ pc \in {"finish", "next"} /\ (Listed = {}) \in BOOLEAN
          /\ pc = "finish" <=> Listed = {}
      BY DEF Enabled
    <3> HIDE DEF pc
    <3> QED
      BY <2>1, <3>1, Zenon
  <2>2. CASE Fails /\ task' = [task EXCEPT ![t].pc = "finish", ![t].error = TRUE]
    <3>1. task \in [Tasks -> TaskRow]
      BY DEF Inv, TypeOK, TaskRow
    <3>2. task[t].todo \in SUBSET Scopes
      BY <1>1 DEF TaskRow
    <3>3. task' = [task EXCEPT ![t].pc = "finish", ![t].todo = task[t].todo, ![t].error = TRUE]
      BY <2>2, <3>1 DEF TaskRow
    <3> QED
      BY <2>2, <3>2, <3>3, Zenon
  <2> QED
    BY <2>1, <2>2, Zenon DEF ListManagerScopes
<1> DEFINE x == [task[t] EXCEPT !.pc = pc, !.todo = todo, !.error = error]
<1>3. task' = [task EXCEPT ![t] = x]
  BY <1>2 DEF Inv, TypeOK
<1>4. /\ x \in TaskRow /\ x.pc = pc /\ x.run = task[t].run /\ x.todo = todo
      /\ x.error = error /\ x.failed = task[t].failed
  BY <1>1, <1>2 DEF TaskRow, TaskSteps
<1> HIDE DEF x
<1>5. Doomed(task[t]) => Doomed(x)
  BY <1>1, <1>4 DEF Doomed, ListManagerScopes, At, Private
<1>6. Stored(x, member[t], picks, wanted'[x.run])
  <2>1. error \/ wanted'[x.run] = todo
    BY <1>1, <1>2, <1>4 DEF Inv, TypeOK
  <2> QED
    BY <1>1, <1>2, <1>4, <2>1 DEF Stored, Doomed, OwnSteps, Private
<1>7. /\ UNCHANGED <<scopes, run, retryable, entries, picks, activeTeam, link, remote, status, dialog, dialogs, deletions>>
      /\ \/ UNCHANGED wanted
         \/ wanted' \in [Runs -> SUBSET Scopes] /\ \A r \in Runs : r # x.run => wanted'[r] = wanted[r]
  <2>1. wanted \in [Runs -> SUBSET Scopes] /\ Enabled \in SUBSET Scopes
    BY DEF Inv, TypeOK, Enabled
  <2>2. UNCHANGED wanted \/ wanted' = [wanted EXCEPT ![task[t].run] = Enabled]
    BY DEF ListManagerScopes
  <2>3. \/ UNCHANGED wanted
        \/ wanted' \in [Runs -> SUBSET Scopes] /\ \A r \in Runs : r # x.run => wanted'[r] = wanted[r]
    BY <1>1, <1>4, <2>1, <2>2
  <2> QED
    BY <2>3 DEF ListManagerScopes, others
<1> QED
  BY <1>1, <1>2, <1>3, <1>4, <1>5, <1>6, <1>7, Types, TaskMoves DEF Busy, remote

LEMMA NextScopeKeepsInv ==
  ASSUME Inv, NEW t \in Tasks, NextScope(t) PROVE Inv'
<1> DEFINE todo == task[t].todo
           pc == IF "entry" \in todo THEN "enqueue" ELSE IF "league" \in todo THEN "page" ELSE "finish"
           left == IF "entry" \in todo THEN todo \ {"entry"} ELSE {}
           x == [task[t] EXCEPT !.todo = left, !.pc = pc, !.page = 1, !.failures = 0]
<1>1. /\ task[t] \in TaskRow /\ task[t].run \in Runs /\ ~task[t].error /\ member[t] \in [Members -> MemberSteps]
      /\ member' = [member EXCEPT ![t] = member[t]] /\ \A m \in Members : member[t][m] = "none"
      /\ Busy(task[t]) /\ task[t].pc = "next"
  BY Rows DEF NextScope, At, Busy
<1>2. task' = [task EXCEPT ![t] = x]
  BY DEF NextScope, Inv, TypeOK
<1>3. todo \in SUBSET Scopes /\ todo \subseteq {"entry", "league"} /\ left \in SUBSET Scopes /\ pc \in TaskSteps
  BY <1>1, ManagerAssumption DEF TaskRow, TaskSteps
<1>4. 1 \in 0 .. MaxPages /\ 1 \in 1 .. Len(Standings)
  BY ManagerAssumption
<1> HIDE DEF todo, pc, left
<1>5. /\ x \in TaskRow /\ x.pc = pc /\ x.run = task[t].run /\ x.todo = left /\ x.page = 1
      /\ x.error = task[t].error /\ x.failed = task[t].failed
  BY <1>1, <1>3, <1>4 DEF TaskRow
<1> HIDE DEF x
<1>6. Doomed(task[t]) => x.failed > 0
  BY <1>1, <1>5 DEF Doomed, Private
<1>7. deletions = 0 => Stored(x, member[t], picks, wanted[x.run])
  <2> SUFFICES ASSUME deletions = 0 PROVE Stored(x, member[t], picks, wanted[x.run])
    OBVIOUS
  <2>1. Doomed(x) \/ /\ "entry" \in wanted[task[t].run] \ todo => Own \in picks
                     /\ "league" \in wanted[task[t].run] \ todo => Selected \subseteq picks
    BY <1>1, <1>5, <1>6, Rows DEF Stored, Doomed, OwnSteps, todo
  <2> QED
    BY <1>1, <1>3, <1>5, <2>1 DEF Stored, OwnSteps, Private, pc, left
<1>8. UNCHANGED <<tables, remote, status, dialog, dialogs, deletions, faults>>
  BY DEF NextScope, others
<1>9. pc \in {"enqueue", "page", "finish"} /\ (pc = "finish" => left = {})
  BY DEF pc, left
<1> QED
  BY <1>1, <1>2, <1>4, <1>5, <1>6, <1>7, <1>8, <1>9, Types, TaskMoves DEF Busy, tables, remote, Doomed

\* Outside of the members no goroutine of the task is under way.
LEMMA Alone ==
  ASSUME Inv, NEW t \in Tasks, task[t].pc # "members", UNCHANGED member
  PROVE  member' = [member EXCEPT ![t] = [m \in Members |-> "none"]]
<1>1. member \in [Tasks -> [Members -> MemberSteps]] /\ \A m \in Members : member[t][m] = "none"
  BY Rows DEF Inv, TypeOK
<1>2. member[t] = [m \in Members |-> "none"]
  BY <1>1
<1> QED
  BY <1>1, <1>2

\* A call of syncEntry or syncLeague that fails.
LEMMA ReturnsFailed ==
  ASSUME Inv, NEW t \in Tasks, Busy(task[t]), task[t].pc \notin {"members", "finish"}, Return(t, TRUE),
         UNCHANGED <<scopes, wanted, run, status, member, credential, dialog, dialogs, deletions>>,
         retryable' \in [Runs -> SUBSET Keys],
         \A r \in Runs : r # task[t].run => retryable'[r] = retryable[r],
         UNCHANGED picks, entries' \subseteq Entries, entries \subseteq entries',
         Answers \/ Fails, connection' \in ConnectionStates,
         link' \in [Members -> {"none", "pending", "completed", "failed"}],
         \A m \in Members : link'[m] = "failed" => link[m] = "failed",
         UNCHANGED activeTeam
  PROVE  Inv'
<1>1. picks \subseteq entries' /\ faults' \in 0 .. MaxFaults /\ activeTeam' \in {"none", "partial", "complete"}
  BY Types
<1>2. member' = [member EXCEPT ![t] = [m \in Members |-> "none"]]
  BY Alone
<1> QED
  BY <1>1, <1>2, Returns

LEMMA EnqueueEntryKeepsInv ==
  ASSUME Inv, NEW t \in Tasks, EnqueueEntry(t) PROVE Inv'
<1>1. /\ Busy(task[t]) /\ task[t].pc = "enqueue" /\ task[t].run \in Runs /\ ~task[t].error
      /\ UNCHANGED <<tables, remote, status, member, dialog, dialogs, deletions>>
  BY Rows DEF EnqueueEntry, At, Busy, others
<1>2. CASE Answers /\ Goto(t, "entry")
  <2>1. /\ "entry" \in Following /\ "entry" \in OwnSteps \ Private /\ task[t].pc \in OwnSteps \ Private
        /\ Doomed(task[t]) => task[t].failed > 0
    BY <1>1 DEF Doomed, OwnSteps, Private, Following
  <2>2. UNCHANGED <<scopes, wanted, run, status, member, credential, dialog, dialogs, deletions, retryable, connection,
                    entries, picks, link, activeTeam>>
    BY <1>1 DEF tables, remote
  <2> QED
    BY <1>1, <1>2, <2>1, <2>2, Types, Goes
<1>3. CASE (Answers \/ Fails) /\ Return(t, TRUE)
  BY <1>1, <1>3, Types, ReturnsFailed DEF tables, remote
<1> QED
  BY <1>2, <1>3 DEF EnqueueEntry

LEMMA PublicStageKeepsInv ==
  ASSUME Inv, NEW t \in Tasks, PublicStage(t) PROVE Inv'
<1>1. PICK i \in 1 .. 3 :
        /\ At(t, Stages[i])
        /\ \/ /\ Answers
              /\ entries' = entries \cup {Own}
              /\ Goto(t, Stages[i + 1])
              /\ UNCHANGED retryable
           \/ /\ Answers \/ Fails
              /\ Mark(task[t].run, <<Stages[i], Own>>)
              /\ Return(t, TRUE)
              /\ UNCHANGED entries
        /\ UNCHANGED <<scopes, wanted, run, picks, activeTeam, link, remote, status, member, others>>
  BY DEF PublicStage
<1>2. /\ Stages[i] \in {"entry", "history", "transfers"} /\ Stages[i + 1] \in {"history", "transfers", "picks"}
      /\ Stages[i] \in StageNames
  BY DEF Stages, StageNames
<1>3. /\ Busy(task[t]) /\ task[t].pc \in {"entry", "history", "transfers"}
      /\ task[t].run \in Runs /\ ~task[t].error
      /\ UNCHANGED <<scopes, wanted, run, picks, activeTeam, link, connection, credential, status, member, dialog, dialogs, deletions>>
  BY <1>1, <1>2, Rows DEF At, Busy, others, remote
<1>4. CASE Answers /\ entries' = entries \cup {Own} /\ Goto(t, Stages[i + 1]) /\ UNCHANGED retryable
  <2>1. entries' \subseteq Entries /\ picks \subseteq picks' /\ picks' \subseteq entries'
    BY <1>3, <1>4, Types DEF Entries
  <2>2. Doomed(task[t]) => task[t].failed > 0
    BY <1>3 DEF Doomed, Private
  <2>3. Stages[i + 1] \in OwnSteps \ Private /\ task[t].pc \in OwnSteps \ Private
    BY <1>2, <1>3 DEF OwnSteps, Private
  <2> DEFINE pc == Stages[i + 1]
  <2>4. pc \in {"history", "transfers", "picks"} /\ Goto(t, pc) /\ pc \in OwnSteps \ Private
    BY <1>2, <1>4, <2>3
  <2> HIDE DEF pc
  <2>5. pc \in Following /\ task[t].pc \notin {"members", "finish"}
    BY <1>3, <2>4 DEF Following
  <2> QED
    BY <1>3, <1>4, <2>1, <2>2, <2>3, <2>4, <2>5, Types, Goes
<1>5. CASE (Answers \/ Fails) /\ Mark(task[t].run, <<Stages[i], Own>>) /\ Return(t, TRUE) /\ UNCHANGED entries
  <2>1. <<Stages[i], Own>> \in Keys
    BY <1>2 DEF Keys, Entries
  <2> QED
    BY <1>3, <1>5, <2>1, Types, MarkIsOneRun, ReturnsFailed
<1> QED
  BY <1>1, <1>4, <1>5

LEMMA PicksStageKeepsInv ==
  ASSUME Inv, NEW t \in Tasks, PicksStage(t) PROVE Inv'
<1>1. /\ Busy(task[t]) /\ task[t].pc = "picks" /\ task[t].run \in Runs /\ ~task[t].error
      /\ UNCHANGED <<scopes, wanted, run, entries, activeTeam, link, connection, credential, status, member, dialog, dialogs, deletions>>
      /\ <<"picks", Own>> \in Keys /\ task[t] \in TaskRow
      /\ member' = [member EXCEPT ![t] = member[t]] /\ \A m \in Members : member[t][m] = "none"
      /\ member[t] \in [Members -> MemberSteps]
  BY Rows DEF PicksStage, At, Busy, others, remote, Keys, StageNames, Stages, Entries
<1>2. CASE Answers /\ Own \in entries /\ picks' = picks \cup {Own} /\ Goto(t, "session") /\ UNCHANGED retryable
  <2>1. /\ Doomed(task[t]) => task[t].failed > 0
        /\ "session" \in Following /\ "session" \in Private /\ task[t].pc \in OwnSteps
    BY <1>1 DEF Doomed, Private, OwnSteps, Following
  <2> QED
    BY <1>1, <1>2, <2>1, Types, Goes
<1>3. CASE (Answers \/ Fails) /\ Mark(task[t].run, <<"picks", Own>>) /\ Return(t, TRUE) /\ UNCHANGED picks
  BY <1>1, <1>3, Types, MarkIsOneRun, ReturnsFailed
<1>4. CASE /\ Fails /\ Mark(task[t].run, <<"picks", Own>>) /\ UNCHANGED picks
           /\ task' = [task EXCEPT ![t].pc = "session", ![t].public = FALSE]
  <2> DEFINE x == [task[t] EXCEPT !.pc = "session", !.public = FALSE]
  <2>1. task' = [task EXCEPT ![t] = x]
    BY <1>4 DEF Inv, TypeOK
  <2>2. /\ x \in TaskRow /\ x.pc = "session" /\ x.run = task[t].run /\ ~x.public /\ x.error = task[t].error
    BY <1>1 DEF TaskRow, TaskSteps
  <2> HIDE DEF x
  <2>3. Doomed(x)
    BY <2>2 DEF Doomed, Private
  <2>4. Stored(x, member[t], picks', wanted[x.run])
    BY <1>1, <2>2, <2>3 DEF Stored, OwnSteps, Private
  <2>5. /\ retryable' \in [Runs -> SUBSET Keys]
        /\ \A q \in Runs : q # x.run => retryable'[q] = retryable[q]
    BY <1>1, <1>4, <2>2, MarkIsOneRun
  <2> QED
    BY <1>1, <1>4, <2>1, <2>2, <2>3, <2>4, <2>5, Types, TaskMoves DEF Busy
<1> QED
  BY <1>2, <1>3, <1>4 DEF PicksStage

\* The end of syncEntry: the error of the picks is what is left.
LEMMA EntryReturns ==
  ASSUME Inv, NEW t \in Tasks, task[t].pc \in Private, Return(t, ~task[t].public),
         UNCHANGED <<scopes, wanted, run, retryable, entries, picks, activeTeam, link, status, member, credential,
                     dialog, dialogs, deletions>>,
         connection' \in ConnectionStates, faults' \in 0 .. MaxFaults
  PROVE  Inv'
<1>1. /\ Busy(task[t]) /\ task[t].pc \notin {"members", "finish"} /\ ~task[t].error
      /\ task[t].public \in BOOLEAN
      /\ deletions = 0 => Stored(task[t], member[t], picks, wanted[task[t].run])
  BY Rows DEF Busy, Private, TaskRow
<1>2. member' = [member EXCEPT ![t] = [m \in Members |-> "none"]]
  BY <1>1, Alone
<1>3. Doomed(task[t]) => ~task[t].public \/ task[t].failed > 0
  BY <1>1 DEF Doomed, Private
<1>4. deletions = 0 =>
        \/ ~task[t].public \/ task[t].failed > 0
        \/ /\ "entry" \in wanted[task[t].run] \ task[t].todo => Own \in picks
           /\ "league" \in wanted[task[t].run] \ task[t].todo => Selected \subseteq picks
  <2>1. task[t].public /\ task[t].failed = 0 /\ task[t].failed \in Nat => ~Doomed(task[t])
    BY <1>1 DEF Doomed, Private
  <2>2. task[t].failed \in Nat
    BY Rows DEF TaskRow
  <2> QED
    BY <1>1, <2>1, <2>2 DEF Stored, OwnSteps
<1>5. (~task[t].public) \in BOOLEAN
  BY Zenon
<1> QED
  BY <1>1, <1>2, <1>3, <1>4, <1>5, Types, Returns

LEMMA GetSessionKeepsInv ==
  ASSUME Inv, NEW t \in Tasks, GetSession(t) PROVE Inv'
<1>1. /\ Busy(task[t]) /\ task[t].pc = "session" /\ task[t].run \in Runs /\ ~task[t].error
      /\ UNCHANGED <<tables, remote, status, member, dialog, dialogs, deletions, faults>>
      /\ task[t] \in TaskRow
      /\ member' = [member EXCEPT ![t] = member[t]] /\ \A m \in Members : member[t][m] = "none"
      /\ member[t] \in [Members -> MemberSteps]
      /\ deletions = 0 => Stored(task[t], member[t], picks, wanted[task[t].run])
  BY Rows DEF GetSession, At, Busy, others
<1>2. CASE Return(t, ~task[t].public)
  BY <1>1, <1>2, Types, EntryReturns DEF tables, remote, Private
<1>3. CASE task' = [task EXCEPT ![t].pc = "team", ![t].session = credential]
  <2> DEFINE x == [task[t] EXCEPT !.pc = "team", !.session = credential]
  <2>1. task' = [task EXCEPT ![t] = x]
    BY <1>3 DEF Inv, TypeOK
  <2>2. credential \in {"none", "good", "foreign"}
    BY DEF Inv, TypeOK
  <2>3. /\ x \in TaskRow /\ x.pc = "team" /\ x.run = task[t].run /\ x.public = task[t].public /\ x.error = task[t].error
        /\ x.todo = task[t].todo /\ x.failed = task[t].failed
    BY <1>1, <2>2 DEF TaskRow, TaskSteps
  <2> HIDE DEF x
  <2>4. Doomed(task[t]) <=> Doomed(x)
    BY <1>1, <2>3 DEF Doomed, Private
  <2>5. deletions = 0 => Stored(x, member[t], picks, wanted[x.run])
    <3> HIDE DEF Doomed
    <3> QED
      BY <1>1, <2>3, <2>4 DEF Stored, OwnSteps, Private
  <2> QED
    BY <1>1, <2>1, <2>3, <2>4, <2>5, Types, TaskMoves DEF Busy, tables, remote
<1> QED
  BY <1>2, <1>3 DEF GetSession

LEMMA PrivateTeamKeepsInv ==
  ASSUME Inv, NEW t \in Tasks, PrivateTeam(t) PROVE Inv'
<1>1. /\ Busy(task[t]) /\ task[t].pc = "team" /\ task[t].run \in Runs /\ ~task[t].error
      /\ UNCHANGED <<scopes, wanted, run, retryable, entries, picks, link, credential, status, member, dialog, dialogs, deletions>>
      /\ deletions = 0 => Stored(task[t], member[t], picks, wanted[task[t].run])
  BY Rows DEF PrivateTeam, At, Busy, others
<1>2. connection' = connection \/ (\E state \in {"reauth_required", "permission_denied"} : SetConnection(state))
      => connection' \in ConnectionStates
  BY Types DEF SetConnection, ConnectionStates
<1>3. CASE /\ Answers /\ activeTeam' = (IF task[t].public THEN "complete" ELSE "partial")
           /\ Goto(t, "connected") /\ UNCHANGED connection
  <2>1. /\ Doomed(task[t]) => task[t].failed > 0 \/ ~task[t].public
        /\ "connected" \in Following /\ "connected" \in Private /\ task[t].pc \in OwnSteps /\ task[t].pc \in Private
    BY <1>1 DEF Doomed, Private, OwnSteps, Following
  <2>2. deletions = 0 /\ task[t].public => Own \in picks
    BY <1>1, <2>1 DEF Stored
  <2>3. activeTeam' \in {"none", "partial", "complete"} /\ (activeTeam' = "complete" => task[t].public)
    BY <1>3
  <2>4. picks \subseteq picks' /\ picks' \subseteq entries' /\ entries' \subseteq Entries /\ faults' \in 0 .. MaxFaults
        /\ link' \in [Members -> {"none", "pending", "completed", "failed"}]
        /\ task[t].pc \notin {"members", "finish"}
    BY <1>1, <1>3, Types
  <2> QED
    BY <1>1, <1>3, <2>1, <2>2, <2>3, <2>4, Goes
<1>4. CASE /\ Answers \/ Fails
           /\ connection' = connection \/ (\E state \in {"reauth_required", "permission_denied"} : SetConnection(state))
           /\ Return(t, TRUE) /\ UNCHANGED activeTeam
  BY <1>1, <1>2, <1>4, Types, ReturnsFailed
<1> QED
  BY <1>3, <1>4 DEF PrivateTeam

LEMMA TellConnectedKeepsInv ==
  ASSUME Inv, NEW t \in Tasks, TellConnected(t) PROVE Inv'
<1>1. /\ Busy(task[t]) /\ task[t].pc = "connected"
      /\ UNCHANGED <<scopes, wanted, run, retryable, entries, picks, activeTeam, link, credential, status, member,
                     dialog, dialogs, deletions>>
      /\ Answers \/ Fails
  BY DEF TellConnected, At, Busy, others, tables
<1>2. connection' \in ConnectionStates
  BY Types DEF TellConnected, SetConnection, ConnectionStates
<1>3. CASE Return(t, ~task[t].public)
  BY <1>1, <1>2, <1>3, Types, EntryReturns DEF Private
<1>4. CASE Return(t, TRUE)
  BY <1>1, <1>2, <1>4, Types, ReturnsFailed
<1> QED
  BY <1>3, <1>4 DEF TellConnected

LEMMA LeaguePageKeepsInv ==
  ASSUME Inv, NEW t \in Tasks, LeaguePage(t) PROVE Inv'
<1> DEFINE page == task[t].page
           m == Standings[page]
<1>1. /\ Busy(task[t]) /\ task[t].pc = "page" /\ task[t].run \in Runs /\ ~task[t].error /\ task[t] \in TaskRow
      /\ UNCHANGED <<scopes, wanted, run, picks, activeTeam, connection, credential, status, member, dialog, dialogs, deletions>>
      /\ deletions = 0 => Stored(task[t], member[t], picks, wanted[task[t].run])
      /\ member' = [member EXCEPT ![t] = member[t]] /\ \A n \in Members : member[t][n] = "none"
      /\ member[t] \in [Members -> MemberSteps]
  BY Rows DEF LeaguePage, At, Busy, others, remote
<1>2. page \in 1 .. Len(Standings) /\ page \in 0 .. MaxPages /\ Len(Standings) \in Nat /\ MaxPages \in Nat
  BY <1>1, ManagerAssumption DEF Inv, TasksInv, Follows, TaskRow
<1>3. m \in Members /\ m \in Entries
  BY <1>2 DEF Members, Entries
<1>4. /\ entries \cup {m} \subseteq Entries
      /\ link \in [Members -> {"none", "pending", "completed", "failed"}]
      /\ \A l : l = [link EXCEPT ![m] = IF @ = "none" THEN "pending" ELSE @] =>
            /\ l \in [Members -> {"none", "pending", "completed", "failed"}]
            /\ \A n \in Members : l[n] = "failed" => link[n] = "failed"
  BY <1>3, Types
<1>5. Doomed(task[t]) => task[t].failed > 0
  BY <1>1 DEF Doomed, Private
<1>6. CASE Enqueued(task[t].run) /\ Answers
           /\ entries' = entries \cup {m}
           /\ link' = [link EXCEPT ![m] = IF @ = "none" THEN "pending" ELSE @]
           /\ (IF page = Len(Standings) THEN Goto(t, "members")
               ELSE IF page = MaxPages THEN Return(t, TRUE)
               ELSE task' = [task EXCEPT ![t].page = @ + 1])
           /\ UNCHANGED retryable
  <2>1. /\ link' \in [Members -> {"none", "pending", "completed", "failed"}]
        /\ \A n \in Members : link'[n] = "failed" => link[n] = "failed"
    BY <1>4, <1>6
  <2>2. /\ entries' \subseteq Entries /\ entries \subseteq entries' /\ picks' \subseteq entries' /\ picks \subseteq picks'
        /\ faults' \in 0 .. MaxFaults
        /\ connection' \in ConnectionStates /\ retryable' \in [Runs -> SUBSET Keys]
        /\ activeTeam' \in {"none", "partial", "complete"}
    BY <1>1, <1>4, <1>6, Types
  <2> HIDE DEF m
  <2>3. CASE Goto(t, "members")
    <3>1. "members" \in Following /\ task[t].pc \notin {"members", "finish"}
      BY <1>1 DEF Following
    <3>2. UNCHANGED <<retryable, connection, picks, activeTeam>>
      BY <1>1, <1>6
    <3> QED
      BY <1>1, <1>5, <2>1, <2>2, <2>3, <3>1, <3>2, Goes
  <2>4. CASE Return(t, TRUE)
    BY <1>1, <1>6, <2>1, <2>2, <2>4, ReturnsFailed
  <2>5. CASE page # Len(Standings) /\ page # MaxPages /\ task' = [task EXCEPT ![t].page = @ + 1]
    <3> DEFINE x == [task[t] EXCEPT !.page = page + 1]
    <3>1. task' = [task EXCEPT ![t] = x]
      BY <2>5 DEF Inv, TypeOK
    <3>2. page + 1 \in 0 .. MaxPages /\ page + 1 \in 1 .. Len(Standings)
      BY <1>2, <2>5
    <3> HIDE DEF page
    <3>3. /\ x \in TaskRow /\ x.pc = "page" /\ x.run = task[t].run /\ x.page = page + 1 /\ x.error = task[t].error
          /\ x.todo = task[t].todo /\ x.failed = task[t].failed
      BY <1>1, <3>2 DEF TaskRow
    <3> HIDE DEF x
    <3>4. Doomed(task[t]) <=> Doomed(x)
      BY <1>1, <3>3 DEF Doomed, Private
    <3>5. deletions = 0 => Stored(x, member[t], picks, wanted[x.run])
      <4> HIDE DEF Doomed
      <4> QED
        BY <1>1, <3>3, <3>4 DEF Stored, OwnSteps, Private
    <3> QED
      BY <1>1, <1>6, <2>1, <2>2, <3>1, <3>2, <3>3, <3>4, <3>5, TaskMoves DEF Busy
  <2> QED
    BY <1>6, <2>3, <2>4, <2>5
<1>7. CASE /\ Answers \/ Fails
           /\ Mark(task[t].run, <<"page", m>>) \/ UNCHANGED retryable
           /\ Return(t, TRUE)
           /\ UNCHANGED <<entries, link>>
  <2>1. <<"page", m>> \in Keys
    BY <1>3 DEF Keys
  <2>2. /\ retryable' \in [Runs -> SUBSET Keys]
        /\ \A q \in Runs : q # task[t].run => retryable'[q] = retryable[q]
    BY <1>1, <1>7, <2>1, MarkIsOneRun, Types
  <2> HIDE DEF m
  <2> QED
    BY <1>1, <1>7, <2>2, Types, ReturnsFailed
<1> QED
  BY <1>6, <1>7 DEF LeaguePage

-----------------------------------------------------------------------------
(* The goroutines of a task.                                               *)

LEMMA StartMembersKeepsInv ==
  ASSUME Inv, NEW t \in Tasks, StartMembers(t) PROVE Inv'
<1> DEFINE y == [m \in Members |-> IF m \in Selected THEN "waiting" ELSE "none"]
<1>1. /\ Busy(task[t]) /\ task[t].pc = "members" /\ task[t] \in TaskRow
      /\ task' = [task EXCEPT ![t] = task[t]] /\ member' = [member EXCEPT ![t] = y]
      /\ UNCHANGED <<tables, remote, status, dialog, dialogs, deletions, faults>>
      /\ deletions = 0 => Stored(task[t], member[t], picks, wanted[task[t].run])
      /\ ~task[t].error
  BY Rows DEF StartMembers, At, Busy, others
<1>2. y \in [Members -> MemberSteps] /\ \A m \in Members : y[m] \in {"waiting", "none"}
  BY DEF MemberSteps
<1> HIDE DEF y
<1>3. deletions = 0 => Stored(task[t], y, picks, wanted[task[t].run])
  <2> HIDE DEF Doomed
  <2> QED
    BY <1>1, <1>2 DEF Stored, OwnSteps, Private
<1> QED
  BY <1>1, <1>2, <1>3, Types, TaskMoves DEF tables, remote

\* A goroutine takes a step: it stores the picks, or its failure is recorded.
LEMMA MemberMoves ==
  ASSUME Inv, NEW t \in Tasks, NEW m \in Members, NEW s \in MemberSteps, s # "none",
         member[t][m] # "none", Step(t, m, s), UNCHANGED task \/ Record(t),
         UNCHANGED <<scopes, wanted, run, entries, activeTeam, connection, credential, status, dialog, dialogs, deletions>>,
         picks \subseteq picks', picks' \subseteq entries, faults' \in 0 .. MaxFaults,
         retryable' \in [Runs -> SUBSET Keys],
         \A q \in Runs : q # task[t].run => retryable'[q] = retryable[q],
         retryable' = retryable \/ Record(t),
         link' \in [Members -> {"none", "pending", "completed", "failed"}],
         \A n \in Members : link'[n] = "failed" => link[n] = "failed" \/ Record(t),
         deletions = 0 /\ s \in {"link", "mark"} => m \in picks',
         deletions = 0 /\ s = "done" => m \in picks' \/ Record(t)
  PROVE  Inv'
<1> DEFINE y == [member[t] EXCEPT ![m] = s]
<1>1. /\ task[t] \in TaskRow /\ member[t] \in [Members -> MemberSteps]
      /\ task[t].pc = "members" /\ Busy(task[t]) /\ task[t].run \in Runs /\ ~task[t].error
      /\ deletions = 0 => Stored(task[t], member[t], picks, wanted[task[t].run])
      /\ task = [task EXCEPT ![t] = task[t]]
  BY Rows DEF Busy
<1>2. member' = [member EXCEPT ![t] = y]
  BY DEF Step, Inv, TypeOK
<1>3. y \in [Members -> MemberSteps] /\ y[m] = s /\ \A n \in Members : n # m => y[n] = member[t][n]
  BY <1>1
<1> HIDE DEF y
<1>4. entries' \subseteq Entries /\ picks' \subseteq entries' /\ activeTeam' \in {"none", "partial", "complete"}
      /\ connection' \in ConnectionStates
  BY Types
<1>5. CASE UNCHANGED task /\ ~Record(t)
  <2>1. deletions = 0 => Stored(task[t], y, picks', wanted[task[t].run])
    <3> HIDE DEF Doomed
    <3> QED
      BY <1>1, <1>3, <1>5 DEF Stored, OwnSteps, Private
  <2>2. task' = [task EXCEPT ![t] = task[t]]
    BY <1>1, <1>5
  <2> QED
    BY <1>1, <1>2, <1>3, <1>4, <1>5, <2>1, <2>2, TaskMoves
<1>6. CASE Record(t)
  <2> DEFINE x == [task[t] EXCEPT !.failures = @ + 1]
  <2>1. task' = [task EXCEPT ![t] = x]
    BY <1>6 DEF Record, Inv, TypeOK
  <2>2. task[t].failures \in Nat /\ task[t].failures + 1 \in Nat /\ task[t].failures + 1 > 0
    BY <1>1 DEF TaskRow
  <2>3. /\ x \in TaskRow /\ x.pc = "members" /\ x.run = task[t].run /\ x.failures > 0 /\ x.error = task[t].error
    BY <1>1, <2>2 DEF TaskRow
  <2> HIDE DEF x
  <2>4. Doomed(x)
    BY <2>3 DEF Doomed
  <2>5. deletions = 0 => Stored(x, y, picks', wanted[x.run])
    <3> HIDE DEF Doomed
    <3> QED
      BY <1>1, <1>3, <2>3, <2>4 DEF Stored, OwnSteps, Private
  <2> QED
    BY <1>1, <1>2, <1>3, <1>4, <2>1, <2>3, <2>4, <2>5, TaskMoves DEF Busy
<1> QED
  BY <1>5, <1>6

\* What has been fetched is in the table.
LEMMA Fetched ==
  ASSUME Inv, NEW t \in Tasks, NEW m \in Members, member[t][m] # "none"
  PROVE  /\ task[t].run \in Runs
         /\ deletions = 0 /\ member[t][m] \in {"link", "mark"} => m \in picks
  BY Rows DEF Busy, Stored

\* A step of a goroutine in which no table changes.
LEMMA MemberWaits ==
  ASSUME Inv, NEW t \in Tasks, NEW m \in Members, NEW s \in MemberSteps, s # "none",
         member[t][m] # "none", Step(t, m, s), UNCHANGED task \/ Record(t),
         UNCHANGED <<tables, remote, status, others>>, Answers \/ Fails,
         s \in {"link", "mark"} => FALSE,
         s = "done" => member[t][m] = "mark" \/ Record(t)
  PROVE  Inv'
<1>1. UNCHANGED <<scopes, wanted, run, retryable, entries, picks, link, activeTeam, connection, credential, status,
                  dialog, dialogs, deletions>>
  BY DEF tables, remote, others
<1>2. deletions = 0 /\ s = "done" => m \in picks \/ Record(t)
  BY Fetched
<1> QED
  BY <1>1, <1>2, Types, MemberMoves

LEMMA AcquireKeepsInv ==
  ASSUME Inv, NEW t \in Tasks, NEW m \in Members, Acquire(t, m) PROVE Inv'
<1>1. CASE Answers /\ Step(t, m, "enqueue") /\ UNCHANGED task
  BY <1>1, MemberWaits DEF Acquire, MemberSteps
<1>2. CASE Fails /\ Step(t, m, "done") /\ Record(t)
  BY <1>2, MemberWaits DEF Acquire, MemberSteps
<1> QED
  BY <1>1, <1>2 DEF Acquire

LEMMA EnqueueMemberKeepsInv ==
  ASSUME Inv, NEW t \in Tasks, NEW m \in Members, EnqueueMember(t, m) PROVE Inv'
<1>1. CASE Answers /\ Step(t, m, "fetch") /\ UNCHANGED task
  BY <1>1, MemberWaits DEF EnqueueMember, MemberSteps
<1>2. CASE (Answers \/ Fails) /\ Step(t, m, "done") /\ Record(t)
  BY <1>2, MemberWaits DEF EnqueueMember, MemberSteps
<1> QED
  BY <1>1, <1>2 DEF EnqueueMember

LEMMA MarkMemberKeepsInv ==
  ASSUME Inv, NEW t \in Tasks, NEW m \in Members, MarkMember(t, m) PROVE Inv'
  BY MemberWaits DEF MarkMember, MemberSteps

LEMMA FetchPicksKeepsInv ==
  ASSUME Inv, NEW t \in Tasks, NEW m \in Members, FetchPicks(t, m) PROVE Inv'
<1>1. /\ member[t][m] # "none" /\ UNCHANGED task
      /\ UNCHANGED <<scopes, wanted, run, retryable, link, entries, activeTeam, connection, credential, status,
                     dialog, dialogs, deletions>>
      /\ {"link", "failed"} \subseteq MemberSteps
      /\ Answers \/ Fails
  BY DEF FetchPicks, others, remote, MemberSteps
<1>2. CASE m \in entries /\ picks' = picks \cup {m} /\ Step(t, m, "link")
  BY <1>1, <1>2, Types, MemberMoves
<1>3. CASE Step(t, m, "failed") /\ UNCHANGED picks
  BY <1>1, <1>3, Types, MemberMoves
<1> QED
  BY <1>2, <1>3 DEF FetchPicks

LEMMA LinkPicksKeepsInv ==
  ASSUME Inv, NEW t \in Tasks, NEW m \in Members, LinkPicks(t, m) PROVE Inv'
<1>1. /\ member[t][m] = "link" /\ UNCHANGED task
      /\ UNCHANGED <<scopes, wanted, run, retryable, picks, entries, activeTeam, connection, credential, status,
                     dialog, dialogs, deletions>>
      /\ {"mark", "failed"} \subseteq MemberSteps
      /\ Answers \/ Fails
  BY DEF LinkPicks, others, remote, MemberSteps
<1>2. LinkAs(m, "completed") \/ UNCHANGED link =>
        /\ link' \in [Members -> {"none", "pending", "completed", "failed"}]
        /\ \A n \in Members : link'[n] = "failed" => link[n] = "failed"
  BY Types DEF LinkAs
<1>3. CASE LinkAs(m, "completed") /\ Step(t, m, "mark")
  BY <1>1, <1>2, <1>3, Types, Fetched, MemberMoves
<1>4. CASE Step(t, m, "failed") /\ UNCHANGED link
  BY <1>1, <1>2, <1>4, Types, MemberMoves
<1> QED
  BY <1>3, <1>4 DEF LinkPicks

LEMMA LinkFailureKeepsInv ==
  ASSUME Inv, NEW t \in Tasks, NEW m \in Members, LinkFailure(t, m) PROVE Inv'
<1>1. /\ member[t][m] = "failed" /\ Record(t) /\ Step(t, m, "done") /\ "done" \in MemberSteps
      /\ UNCHANGED <<scopes, wanted, run, picks, entries, activeTeam, connection, credential, status,
                     dialog, dialogs, deletions>>
      /\ Answers \/ Fails
      /\ Mark(task[t].run, <<"member", m>>)
  BY DEF LinkFailure, others, remote, MemberSteps
<1>2. link' \in [Members -> {"none", "pending", "completed", "failed"}]
  BY Types DEF LinkFailure, LinkAs
<1>3. <<"member", m>> \in Keys /\ task[t].run \in Runs
  BY <1>1, Fetched DEF Keys, Entries
<1>4. /\ retryable' \in [Runs -> SUBSET Keys]
      /\ \A q \in Runs : q # task[t].run => retryable'[q] = retryable[q]
  BY <1>1, <1>3, MarkIsOneRun
<1> QED
  BY <1>1, <1>2, <1>4, Types, MemberMoves

LEMMA LeagueDoneKeepsInv ==
  ASSUME Inv, NEW t \in Tasks, LeagueDone(t) PROVE Inv'
<1>1. /\ task[t].pc = "members" /\ Busy(task[t]) /\ task[t] \in TaskRow /\ ~task[t].error
      /\ UNCHANGED <<tables, remote, status, dialog, dialogs, deletions, faults>>
      /\ member' = [member EXCEPT ![t] = [m \in Members |-> "none"]]
      /\ deletions = 0 => Stored(task[t], member[t], picks, wanted[task[t].run])
      /\ \A m \in Selected : m \in Members => member[t][m] = "done"
  BY Rows DEF LeagueDone, At, Busy, others, Waited
<1>2. task[t].failures \in Nat /\ task[t].failed \in Nat /\ task[t].todo \in SUBSET Scopes
  BY <1>1 DEF TaskRow
<1>3. Selected \subseteq Members
  <2>1. Len(Standings) \in Nat /\ MemberLimit \in Nat
    BY ManagerAssumption
  <2>2. (1 .. IF Len(Standings) < MemberLimit THEN Len(Standings) ELSE MemberLimit) \subseteq 1 .. Len(Standings)
    BY <2>1
  <2> QED
    BY <2>2 DEF Selected, Members
<1>4. CASE task[t].failures > 0
  <2>1. Return(t, TRUE)
    BY <1>4 DEF LeagueDone, Return
  <2> QED
    BY <1>1, <2>1, Types, Returns DEF tables, remote
<1>5. CASE task[t].failures = 0
  <2>1. Return(t, FALSE)
    BY <1>5 DEF LeagueDone, Return
  <2>2. Doomed(task[t]) <=> task[t].failed > 0
    BY <1>1, <1>5 DEF Doomed, Private
  <2>3. deletions = 0 =>
          \/ task[t].failed > 0
          \/ /\ "entry" \in wanted[task[t].run] \ task[t].todo => Own \in picks
             /\ "league" \in wanted[task[t].run] \ task[t].todo => Selected \subseteq picks
    BY <1>1, <1>3, <1>5, <2>2 DEF Stored
  <2> QED
    BY <1>1, <2>1, <2>2, <2>3, Types, Returns DEF tables, remote
<1> QED
  BY <1>2, <1>4, <1>5

-----------------------------------------------------------------------------
(* The beginning and the end of a run.                                     *)

LEMMA NoTaskIsIdle ==
  /\ NoTask \in TaskRow /\ ~Busy(NoTask) /\ NoTask.pc = "idle"
  /\ NoTask.error = FALSE /\ NoTask.failed = 0 /\ NoTask.public = TRUE /\ NoTask.todo = {}
<1>1. 0 \in 0 .. MaxRuns /\ 0 \in 0 .. MaxPages /\ 0 \in Nat
  BY ManagerAssumption
<1> QED
  BY <1>1 DEF NoTask, TaskRow, TaskSteps, Busy

LEMMA StartKeepsInv ==
  ASSUME Inv, NEW t \in Tasks, NEW r \in Runs, Start(t, r) PROVE Inv'
<1> DEFINE x == [NoTask EXCEPT !.pc = "scopes", !.run = r]
<1>1. /\ task[t] \in TaskRow /\ task[t].pc = "idle" /\ run[r] = "none"
      /\ \A m \in Members : member[t][m] = "none"
      /\ UNCHANGED <<scopes, wanted, retryable, entries, picks, activeTeam, link, connection, credential, member, dialog,
                     dialogs, deletions, faults>>
      /\ run' = [run EXCEPT ![r] = "running"]
      /\ task' = [task EXCEPT ![t] = x]
      /\ status' = [run |-> r, state |-> "running"]
  BY Rows DEF Start, At, remote, others
<1>2. /\ x \in TaskRow /\ x.pc = "scopes" /\ x.run = r /\ ~x.error /\ x.failed = 0 /\ x.public /\ x.todo = {}
  <2>1. r \in 0 .. MaxRuns /\ 0 \in 0 .. MaxPages /\ 0 \in Nat
    BY ManagerAssumption DEF Runs
  <2>2. /\ NoTask \in TaskRow /\ NoTask.error = FALSE /\ NoTask.failed = 0 /\ NoTask.public = TRUE
        /\ NoTask.todo = {}
    BY NoTaskIsIdle
  <2> QED
    BY <2>1, <2>2 DEF TaskRow, TaskSteps
<1> HIDE DEF x
<1>3. ~Doomed(x) /\ Busy(x)
  BY <1>2 DEF Doomed, Private, Busy
<1>4. /\ run' \in [Runs -> {"none", "running", "success", "partial", "deleted"}]
      /\ run'[r] = "running" /\ \A q \in Runs : q # r => run'[q] = run[q]
      /\ task' \in [Tasks -> TaskRow] /\ task'[t] = x /\ \A u \in Tasks : u # t => task'[u] = task[u]
  BY <1>1, <1>2 DEF Inv, TypeOK, TaskRow
<1>5. status' \in [run : 0 .. MaxRuns, state : {"idle", "running", "success", "partial"}]
  BY <1>1, ManagerAssumption DEF Runs
<1>6. TypeOK'
  BY <1>1, <1>4, <1>5 DEF Inv, TypeOK, TaskRow
<1>7. \A u \in Tasks : Busy(task[u]) => task[u].run \in Runs /\ task[u].run # r /\ u # t
  BY <1>1 DEF Inv, TasksInv, Follows, Busy
<1>8. TasksInv'
  <2>1. retryable[r] = {}
    BY <1>1 DEF Inv, TasksInv
  <2>2. ASSUME NEW u \in Tasks, Busy(task'[u])
        PROVE  Follows(task'[u], retryable'[task'[u].run]) /\ run'[task'[u].run] \in {"running", "deleted"}
    <3>1. CASE u = t
      BY <1>1, <1>2, <1>4, <2>1, <3>1 DEF Follows
    <3>2. CASE u # t
      <4>1. /\ Busy(task[u]) /\ task'[u] = task[u] /\ retryable' = retryable /\ run'[task[u].run] = run[task[u].run]
        BY <1>1, <1>4, <1>7, <2>2, <3>2
      <4> QED
        BY <4>1 DEF Inv, TasksInv
    <3> QED
      BY <3>1, <3>2
  <2>3. \A u \in Tasks : task'[u].pc # "members" => \A m \in Members : member'[u][m] = "none"
    BY <1>1, <1>4 DEF Inv, TasksInv
  <2>4. \A u, v \in Tasks : u # v /\ Busy(task'[u]) /\ Busy(task'[v]) => task'[u].run # task'[v].run
    BY <1>2, <1>4, <1>7 DEF Inv, TasksInv
  <2>5. \A q \in Runs : run'[q] \in {"none", "success"} => retryable'[q] = {}
    BY <1>1, <1>4 DEF Inv, TasksInv
  <2> QED
    BY <2>2, <2>3, <2>4, <2>5 DEF TasksInv
<1>9. StoredInv'
  <2> SUFFICES ASSUME deletions = 0
               PROVE  /\ \A q \in Runs : run'[q] # "deleted"
                      /\ \A u \in Tasks : Busy(task'[u]) => Stored(task'[u], member'[u], picks', wanted'[task'[u].run])
                      /\ SuccessIsStored'
                      /\ \A m \in Members : link'[m] = "failed" => \E q \in Runs : Reported(q)'
                      /\ ActiveTeamIsComplete'
    BY <1>1 DEF StoredInv
  <2>1. \A q \in Runs : run'[q] # "deleted"
    BY <1>1, <1>4 DEF Inv, StoredInv
  <2>2. ASSUME NEW u \in Tasks, Busy(task'[u]) PROVE Stored(task'[u], member'[u], picks', wanted'[task'[u].run])
    <3>1. CASE u = t
      BY <1>1, <1>2, <1>3, <1>4, <3>1 DEF Stored, OwnSteps, Private
    <3>2. CASE u # t
      BY <1>1, <1>4, <2>2, <3>2 DEF Inv, StoredInv
    <3> QED
      BY <3>1, <3>2
  <2>3. SuccessIsStored'
    BY <1>1, <1>4 DEF Inv, StoredInv, SuccessIsStored
  <2>4. ASSUME NEW q \in Runs, Reported(q) PROVE Reported(q)'
    <3>1. q # r
      BY <1>1, <2>4 DEF Reported
    <3> HIDE DEF Doomed
    <3> QED
      BY <1>2, <1>4, <2>4, <3>1 DEF Reported
  <2>5. \A m \in Members : link'[m] = "failed" => \E q \in Runs : Reported(q)'
    BY <1>1, <2>4 DEF Inv, StoredInv
  <2>6. ActiveTeamIsComplete'
    BY <1>1 DEF Inv, StoredInv, ActiveTeamIsComplete
  <2> QED
    BY <2>1, <2>2, <2>3, <2>5, <2>6
<1>10. SessionInv'
  BY <1>1 DEF Inv, SessionInv
<1>11. StatusIsLive'
  BY <1>1, <1>2, <1>4 DEF StatusIsLive, At
<1> QED
  BY <1>6, <1>8, <1>9, <1>10, <1>11 DEF Inv

LEMMA FinishKeepsInv ==
  ASSUME Inv, NEW t \in Tasks, finish(t) PROVE Inv'
<1> DEFINE r == task[t].run
           outcome == Outcome(t)
<1>1. /\ task[t] \in TaskRow /\ task[t].pc = "finish" /\ Busy(task[t]) /\ r \in Runs
      /\ \A m \in Members : member[t][m] = "none"
      /\ UNCHANGED <<scopes, wanted, retryable, entries, picks, activeTeam, link, connection, credential, member, dialog,
                     dialogs, deletions>>
      /\ Answers \/ Fails
      /\ run' = run \/ run' = [run EXCEPT ![r] = IF @ = "deleted" THEN @ ELSE outcome]
      /\ task' = [task EXCEPT ![t] = NoTask]
      /\ status' = [run |-> r, state |-> outcome]
  BY Rows DEF finish, At, Busy, remote, others
<1>2. /\ Follows(task[t], retryable[r])
      /\ run[r] \in {"running", "deleted"}
      /\ deletions = 0 => Stored(task[t], member[t], picks, wanted[task[t].run])
  BY <1>1, Rows DEF Inv, TasksInv
<1>3. outcome \in {"partial", "success"} /\ (outcome = "success" <=> ~Doomed(task[t]))
  BY <1>1 DEF Outcome, Doomed, Private, TaskRow
<1>4. /\ run \in [Runs -> {"none", "running", "success", "partial", "deleted"}]
      /\ faults' \in 0 .. MaxFaults /\ r \in 0 .. MaxRuns
  BY <1>1, Types, ManagerAssumption DEF Inv, TypeOK, Runs
<1> HIDE DEF outcome
<1>5. /\ run' \in [Runs -> {"none", "running", "success", "partial", "deleted"}]
      /\ run'[r] \in {run[r], outcome} /\ \A q \in Runs : q # r => run'[q] = run[q]
      /\ run[r] = "deleted" => run'[r] = "deleted"
      /\ task' \in [Tasks -> TaskRow] /\ task'[t] = NoTask /\ \A u \in Tasks : u # t => task'[u] = task[u]
  <2>1. task \in [Tasks -> TaskRow] /\ NoTask \in TaskRow
    BY NoTaskIsIdle DEF Inv, TypeOK, TaskRow
  <2>2. task' \in [Tasks -> TaskRow] /\ task'[t] = NoTask /\ \A u \in Tasks : u # t => task'[u] = task[u]
    BY <1>1, <2>1
  <2>3. CASE run' = run
    BY <1>1, <1>4, <2>2, <2>3
  <2>4. CASE run' = [run EXCEPT ![r] = IF @ = "deleted" THEN @ ELSE outcome]
    BY <1>1, <1>3, <1>4, <2>2, <2>4
  <2> QED
    BY <1>1, <2>3, <2>4
<1> HIDE DEF r
<1>6. status' \in [run : 0 .. MaxRuns, state : {"idle", "running", "success", "partial"}]
  BY <1>1, <1>3, <1>4
<1>7. TypeOK'
  BY <1>1, <1>4, <1>5, <1>6 DEF Inv, TypeOK, TaskRow
<1>8. \A u \in Tasks : Busy(task'[u]) => u # t /\ Busy(task[u]) /\ task'[u] = task[u] /\ task[u].run # r /\ task[u].run \in Runs
  BY <1>1, <1>5, NoTaskIsIdle DEF Inv, TasksInv, Follows, r
<1>9. TasksInv'
  <2>1. ASSUME NEW u \in Tasks, Busy(task'[u])
        PROVE  Follows(task'[u], retryable'[task'[u].run]) /\ run'[task'[u].run] \in {"running", "deleted"}
    <3>1. run'[task[u].run] = run[task[u].run] /\ retryable' = retryable /\ task'[u] = task[u] /\ Busy(task[u])
      BY <1>1, <1>5, <1>8, <2>1
    <3> QED
      BY <3>1 DEF Inv, TasksInv
  <2>2. \A u \in Tasks : task'[u].pc # "members" => \A m \in Members : member'[u][m] = "none"
    BY <1>1, <1>5 DEF Inv, TasksInv
  <2>3. \A u, v \in Tasks : u # v /\ Busy(task'[u]) /\ Busy(task'[v]) => task'[u].run # task'[v].run
    BY <1>8 DEF Inv, TasksInv
  <2>4. \A q \in Runs : run'[q] \in {"none", "success"} => retryable'[q] = {}
    BY <1>1, <1>2, <1>3, <1>5 DEF Inv, TasksInv, Follows
  <2> QED
    BY <2>1, <2>2, <2>3, <2>4 DEF TasksInv
<1>10. StoredInv'
  <2> SUFFICES ASSUME deletions = 0
               PROVE  /\ \A q \in Runs : run'[q] # "deleted"
                      /\ \A u \in Tasks : Busy(task'[u]) => Stored(task'[u], member'[u], picks', wanted'[task'[u].run])
                      /\ SuccessIsStored'
                      /\ \A m \in Members : link'[m] = "failed" => \E q \in Runs : Reported(q)'
                      /\ ActiveTeamIsComplete'
    BY <1>1 DEF StoredInv
  <2>1. \A q \in Runs : run'[q] # "deleted"
    BY <1>1, <1>3, <1>5 DEF Inv, StoredInv
  <2>2. \A u \in Tasks : Busy(task'[u]) => Stored(task'[u], member'[u], picks', wanted'[task'[u].run])
    BY <1>1, <1>8 DEF Inv, StoredInv
  <2>3. SuccessIsStored'
    <3> SUFFICES ASSUME NEW q \in Runs, run'[q] = "success"
                 PROVE  /\ "entry" \in wanted[q] => Own \in picks
                        /\ "league" \in wanted[q] => Selected \subseteq picks
      BY <1>1 DEF SuccessIsStored
    <3>1. CASE q = r
      <4>1. ~Doomed(task[t]) /\ task[t].todo = {}
        BY <1>1, <1>2, <1>3, <1>5, <3>1 DEF Follows, Doomed
      <4> HIDE DEF Doomed
      <4> QED
        BY <1>1, <1>2, <3>1, <4>1 DEF Stored, OwnSteps, r
    <3>2. CASE q # r
      BY <1>1, <1>5, <3>2 DEF Inv, StoredInv, SuccessIsStored
    <3> QED
      BY <3>1, <3>2
  <2>4. ASSUME NEW q \in Runs, Reported(q) PROVE Reported(q)'
    <3>1. CASE q # r
      <4> HIDE DEF Doomed
      <4> QED
        BY <1>5, <1>8, <2>4, <3>1 DEF Reported
    <3>2. CASE q = r
      <4>1. Doomed(task[t])
        BY <1>1, <1>2, <2>4, <3>2 DEF Reported, r
      <4>2. run'[r] \in {"running", "partial"}
        <5>1. run[r] = "running"
          BY <1>1, <1>2 DEF Inv, StoredInv
        <5> HIDE DEF Doomed
        <5> QED
          BY <1>3, <1>5, <4>1, <5>1
      <4> QED
        BY <1>5, <1>8, <3>2, <4>2 DEF Reported
    <3> QED
      BY <3>1, <3>2
  <2>5. \A m \in Members : link'[m] = "failed" => \E q \in Runs : Reported(q)'
    BY <1>1, <2>4 DEF Inv, StoredInv
  <2>6. ActiveTeamIsComplete'
    BY <1>1 DEF Inv, StoredInv, ActiveTeamIsComplete
  <2> QED
    BY <2>1, <2>2, <2>3, <2>5, <2>6
<1>11. SessionInv'
  BY <1>1 DEF Inv, SessionInv
<1>12. StatusIsLive'
  BY <1>1, <1>3 DEF StatusIsLive
<1> QED
  BY <1>7, <1>9, <1>10, <1>11, <1>12 DEF Inv

-----------------------------------------------------------------------------
(* The other handlers.                                                     *)

\* A step that touches neither a task nor a table.
LEMMA DialogMoves ==
  ASSUME Inv, UNCHANGED <<tables, status, task, member, deletions>>,
         connection' \in ConnectionStates, credential' \in {"none", "good", "foreign"},
         dialog' \in [Handlers -> DialogRow], dialogs' \in 0 .. MaxDialogs, faults' \in 0 .. MaxFaults,
         SessionInv'
  PROVE  Inv'
<1>1. UNCHANGED <<scopes, wanted, run, retryable, entries, picks, activeTeam, link, status, task, member, deletions>>
  BY DEF tables
<1>2. TypeOK'
  BY <1>1 DEF Inv, TypeOK, DialogRow
<1>3. TasksInv'
  BY <1>1 DEF Inv, TasksInv
<1>4. StoredInv'
  <2>1. \A r \in Runs : Reported(r) => Reported(r)'
    <3> HIDE DEF Doomed
    <3> QED
      BY <1>1 DEF Reported
  <2>2. ActiveTeamIsComplete' /\ SuccessIsStored' <=> ActiveTeamIsComplete /\ SuccessIsStored
    BY <1>1 DEF ActiveTeamIsComplete, SuccessIsStored
  <2> HIDE DEF Reported, Doomed, Stored
  <2> QED
    BY <1>1, <2>1, <2>2 DEF Inv, StoredInv
<1>5. StatusIsLive'
  BY <1>1 DEF Inv, StatusIsLive, At
<1> QED
  BY <1>2, <1>3, <1>4, <1>5 DEF Inv

\* The handler h goes to another step of a dialog.
LEMMA Dialogs ==
  ASSUME Inv, NEW h \in Handlers
  PROVE  /\ dialog \in [Handlers -> DialogRow] /\ dialogs \in 0 .. MaxDialogs
         /\ connection \in ConnectionStates /\ credential \in {"none", "good", "foreign"}
         /\ Asks => dialogs' \in 0 .. MaxDialogs
         /\ Answers \/ Fails \/ UNCHANGED faults => faults' \in 0 .. MaxFaults
         /\ \A d \in DialogRow : [dialog EXCEPT ![h] = d] \in [Handlers -> DialogRow]
         /\ \A step \in {"done", "me", "upsert", "revoke", "state", "delete"} :
              To(h, step) => /\ dialog' \in [Handlers -> DialogRow]
                             /\ dialog'[h].kind = dialog[h].kind /\ dialog'[h].cookie = dialog[h].cookie
                             /\ dialog'[h].step = step
                             /\ \A g \in Handlers : g # h => dialog'[g] = dialog[g]
<1>1. dialog \in [Handlers -> DialogRow] /\ dialog[h] \in DialogRow
  BY DEF Inv, TypeOK, DialogRow
<1>2. /\ dialogs \in 0 .. MaxDialogs /\ connection \in ConnectionStates
      /\ credential \in {"none", "good", "foreign"} /\ MaxDialogs \in Nat
  BY ManagerAssumption DEF Inv, TypeOK
<1>3. Asks => dialogs' \in 0 .. MaxDialogs
  BY <1>2 DEF Asks
<1>4. Answers \/ Fails \/ UNCHANGED faults => faults' \in 0 .. MaxFaults
  BY Types
<1>5. \A d \in DialogRow : [dialog EXCEPT ![h] = d] \in [Handlers -> DialogRow]
  BY <1>1
<1>6. ASSUME NEW step \in {"done", "me", "upsert", "revoke", "state", "delete"}, To(h, step)
      PROVE  /\ dialog' \in [Handlers -> DialogRow]
             /\ dialog'[h].kind = dialog[h].kind /\ dialog'[h].cookie = dialog[h].cookie
             /\ dialog'[h].step = step
             /\ \A g \in Handlers : g # h => dialog'[g] = dialog[g]
  <2> DEFINE d == [dialog[h] EXCEPT !.step = step]
  <2>1. d \in DialogRow /\ d.kind = dialog[h].kind /\ d.cookie = dialog[h].cookie /\ d.step = step
    BY <1>1 DEF DialogRow
  <2>2. dialog' = [dialog EXCEPT ![h] = d]
    BY <1>1, <1>6 DEF To
  <2> QED
    BY <1>1, <2>1, <2>2
<1> QED
  BY <1>1, <1>2, <1>3, <1>4, <1>5, <1>6

\* A new dialog of a handler that was at rest.
LEMMA NewDialog ==
  ASSUME Inv, NEW h \in Handlers, dialog[h].step = "done", Asks,
         NEW kind \in {"connect", "disconnect", "delete"}, NEW step \in {"me", "revoke", "delete"},
         NEW cookie \in {"none", "good", "foreign"},
         dialog' = [dialog EXCEPT ![h] = [kind |-> kind, step |-> step, cookie |-> cookie]],
         UNCHANGED <<tables, connection, status, task, member, deletions, faults>>,
         \/ credential' = "none"
         \/ UNCHANGED credential
         \/ credential' = cookie /\ (cookie = "foreign" => kind = "connect" /\ step = "me")
  PROVE  Inv'
<1> DEFINE d == [kind |-> kind, step |-> step, cookie |-> cookie]
<1>1. d \in DialogRow /\ d.kind = kind /\ d.step = step /\ d.cookie = cookie
  BY DEF DialogRow
<1> HIDE DEF d
<1>2. /\ dialog \in [Handlers -> DialogRow] /\ dialog' \in [Handlers -> DialogRow]
      /\ dialog'[h] = d /\ \A g \in Handlers : g # h => dialog'[g] = dialog[g]
      /\ connection' \in ConnectionStates /\ credential' \in {"none", "good", "foreign"}
      /\ dialogs' \in 0 .. MaxDialogs /\ faults' \in 0 .. MaxFaults
  BY <1>1, Dialogs DEF d
<1>3. SessionInv'
  BY <1>1, <1>2 DEF Inv, SessionInv
<1> QED
  BY <1>2, <1>3, DialogMoves

\* A step of a dialog that is under way, which does not leave a session of
\* another entry behind.
LEMMA DialogSteps ==
  ASSUME Inv, NEW h \in Handlers, NEW step \in {"done", "me", "upsert", "revoke", "state", "delete"},
         To(h, step), UNCHANGED <<tables, status, task, member, deletions, dialogs>>,
         connection' \in ConnectionStates, Answers \/ Fails \/ UNCHANGED faults,
         \/ credential' = "none"
         \/ /\ UNCHANGED credential
            /\ \/ step \in {"me", "revoke"}
               \/ dialog[h].kind # "connect" \/ dialog[h].step \notin {"me", "revoke"}
               \/ dialog[h].cookie # "foreign"
  PROVE  Inv'
<1>1. /\ dialog' \in [Handlers -> DialogRow]
      /\ dialog'[h].kind = dialog[h].kind /\ dialog'[h].cookie = dialog[h].cookie /\ dialog'[h].step = step
      /\ \A g \in Handlers : g # h => dialog'[g] = dialog[g]
      /\ credential' \in {"none", "good", "foreign"}
      /\ dialogs' \in 0 .. MaxDialogs /\ faults' \in 0 .. MaxFaults
  BY Dialogs
<1>2. SessionInv'
  BY <1>1 DEF Inv, SessionInv
<1> QED
  BY <1>1, <1>2, DialogMoves

LEMMA DialogKeepsInv ==
  ASSUME Inv, NEW h \in Handlers, Dialog(h), ~DeleteManagerData(h) PROVE Inv'
<1>1. /\ connection \in ConnectionStates /\ dialog[h] \in DialogRow
      /\ \A state \in {"revoked"} : SetConnection(state) => connection' \in ConnectionStates
  BY Dialogs DEF SetConnection, ConnectionStates
<1>2. ASSUME NEW cookie \in {"good", "foreign"}, PutSession(h, cookie) PROVE Inv'
  BY <1>2, NewDialog DEF PutSession, OnlyTask
<1>3. ASSUME Me(h) PROVE Inv'
  <2>1. /\ UNCHANGED <<tables, status, task, member, deletions, dialogs, connection, credential>>
        /\ Answers \/ Fails
        /\ connection' \in ConnectionStates
    BY <1>1, <1>3 DEF Me, OnlyTask, remote
  <2>2. CASE To(h, "revoke")
    BY <2>1, <2>2, DialogSteps
  <2>3. CASE To(h, "upsert") /\ dialog[h].cookie = "good"
    BY <2>1, <2>3, DialogSteps
  <2> QED
    BY <1>3, <2>2, <2>3 DEF Me
<1>4. ASSUME UpsertConnection(h) PROVE Inv'
  BY <1>1, <1>4, DialogSteps DEF UpsertConnection, DialogAt, OnlyTask, ConnectionStates
<1>5. ASSUME Disconnect(h) PROVE Inv'
  BY <1>5, NewDialog DEF Disconnect, OnlyTask, remote
<1>6. ASSUME Revoke(h) PROVE Inv'
  BY <1>1, <1>6, DialogSteps DEF Revoke, OnlyTask
<1>7. ASSUME Disconnected(h) PROVE Inv'
  BY <1>1, <1>7, DialogSteps DEF Disconnected, DialogAt, OnlyTask
<1>8. ASSUME ManagerData(h) PROVE Inv'
  BY <1>8, NewDialog DEF ManagerData, OnlyTask
<1>9. ASSUME DeleteFails(h) PROVE Inv'
  BY <1>1, <1>9, DialogSteps DEF DeleteFails, DialogAt, OnlyTask, remote
<1> QED
  BY <1>2, <1>3, <1>4, <1>5, <1>6, <1>7, <1>8, <1>9 DEF Dialog

LEMMA DeleteManagerDataKeepsInv ==
  ASSUME Inv, NEW h \in Handlers, DeleteManagerData(h) PROVE Inv'
<1>1. /\ dialog[h].kind = "delete" /\ To(h, "done") /\ Answers
      /\ UNCHANGED <<status, task, member, credential, dialogs>>
      /\ scopes' = [s \in Scopes |-> "absent"] /\ wanted' = wanted /\ retryable' = [r \in Runs |-> {}] /\ entries' = {} /\ picks' = {}
      /\ run' = [r \in Runs |-> IF run[r] = "none" THEN "none" ELSE "deleted"]
      /\ link' = [m \in Members |-> "none"] /\ activeTeam' = "none" /\ connection' = "none"
      /\ deletions' = deletions + 1 /\ deletions \in Nat
  BY DEF DeleteManagerData, DialogAt, OnlyTask, Inv, TypeOK
<1>2. /\ dialog' \in [Handlers -> DialogRow]
      /\ dialog'[h].kind = dialog[h].kind /\ dialog'[h].cookie = dialog[h].cookie
      /\ \A g \in Handlers : g # h => dialog'[g] = dialog[g]
      /\ faults' \in 0 .. MaxFaults
  BY <1>1, Dialogs
<1>3. TypeOK'
  BY <1>1, <1>2 DEF Inv, TypeOK, DialogRow, ConnectionStates, ScopeStates
<1>4. TasksInv'
  <2>1. ASSUME NEW t \in Tasks, Busy(task[t])
        PROVE  Follows(task[t], {}) /\ run'[task[t].run] \in {"running", "deleted"}
    <3>1. Follows(task[t], retryable[task[t].run]) /\ run[task[t].run] \in {"running", "deleted"}
      BY <2>1 DEF Inv, TasksInv
    <3> QED
      BY <1>1, <3>1 DEF Follows
  <2>2. \A t \in Tasks : Busy(task[t]) => task[t].run \in Runs
    BY <2>1 DEF Follows
  <2> QED
    BY <1>1, <2>1, <2>2 DEF Inv, TasksInv
<1>5. StoredInv'
  BY <1>1 DEF StoredInv
<1>6. SessionInv'
  BY <1>1, <1>2 DEF Inv, SessionInv
<1>7. StatusIsLive'
  BY <1>1 DEF Inv, StatusIsLive, At
<1> QED
  BY <1>3, <1>4, <1>5, <1>6, <1>7 DEF Inv

LEMMA UpsertManagerScopeKeepsInv ==
  ASSUME Inv, NEW s \in Scopes, NEW state \in {"disabled", "enabled"},
         UpsertManagerScope(s, state)
  PROVE  Inv'
<1>1. /\ scopes' = [scopes EXCEPT ![s] = state] /\ dialogs' \in 0 .. MaxDialogs
      /\ UNCHANGED <<wanted, run, retryable, entries, picks, activeTeam, link, connection, credential, status, task,
                     member, dialog, deletions, faults>>
  BY ManagerAssumption DEF UpsertManagerScope, OnlyTask, Asks, remote, Inv, TypeOK
<1>2. TypeOK'
  BY <1>1 DEF Inv, TypeOK, ScopeStates
<1>3. TasksInv'
  BY <1>1 DEF Inv, TasksInv
<1>4. StoredInv'
  BY <1>1 DEF Inv, StoredInv, SuccessIsStored, ActiveTeamIsComplete, Reported
<1>5. SessionInv' /\ StatusIsLive'
  BY <1>1 DEF Inv, SessionInv, StatusIsLive, At
<1> QED
  BY <1>2, <1>3, <1>4, <1>5 DEF Inv

LEMMA RestartKeepsInv ==
  ASSUME Inv, Restart PROVE Inv'
<1>1. /\ UNCHANGED <<scopes, wanted, run, retryable, entries, picks, activeTeam, link, connection, deletions, faults>>
      /\ task' = [t \in Tasks |-> NoTask] /\ member' = [t \in Tasks |-> [m \in Members |-> "none"]]
      /\ dialog' = [h \in Handlers |-> NoDialog] /\ credential' = "none"
      /\ status' = [run |-> 0, state |-> "idle"] /\ dialogs' \in 0 .. MaxDialogs
  BY ManagerAssumption DEF Restart, tables, Asks, Inv, TypeOK
<1>2. \A t \in Tasks : ~Busy(task'[t])
  BY <1>1, NoTaskIsIdle
<1>3. TypeOK'
  <2>1. task' \in [Tasks -> TaskRow] /\ member' \in [Tasks -> [Members -> MemberSteps]]
    BY <1>1, NoTaskIsIdle DEF MemberSteps
  <2>2. dialog' \in [Handlers -> DialogRow]
    BY <1>1 DEF NoDialog, DialogRow
  <2>3. status' \in [run : 0 .. MaxRuns, state : {"idle", "running", "success", "partial"}]
    BY <1>1, ManagerAssumption
  <2> QED
    BY <1>1, <2>1, <2>2, <2>3 DEF Inv, TypeOK, TaskRow, DialogRow
<1>4. TasksInv'
  BY <1>1, <1>2 DEF Inv, TasksInv
<1>5. StoredInv'
  <2>1. \A r \in Runs : Reported(r) => Reported(r)'
    BY <1>1, <1>2 DEF Reported
  <2>2. ActiveTeamIsComplete' /\ SuccessIsStored' <=> ActiveTeamIsComplete /\ SuccessIsStored
    BY <1>1 DEF ActiveTeamIsComplete, SuccessIsStored
  <2> HIDE DEF Reported, Doomed, Stored
  <2> QED
    BY <1>1, <1>2, <2>1, <2>2 DEF Inv, StoredInv
<1>6. SessionInv' /\ StatusIsLive'
  BY <1>1 DEF SessionInv, StatusIsLive
<1> QED
  BY <1>3, <1>4, <1>5, <1>6 DEF Inv

-----------------------------------------------------------------------------
(* The theorems.                                                           *)

LEMMA TaskKeepsInv ==
  ASSUME Inv, NEW t \in Tasks, TaskStep(t) PROVE Inv'
  BY ListManagerScopesKeepsInv, NextScopeKeepsInv, FinishKeepsInv, EnqueueEntryKeepsInv, PublicStageKeepsInv,
     PicksStageKeepsInv, GetSessionKeepsInv, PrivateTeamKeepsInv, TellConnectedKeepsInv, LeaguePageKeepsInv,
     StartMembersKeepsInv, LeagueDoneKeepsInv, AcquireKeepsInv, EnqueueMemberKeepsInv, FetchPicksKeepsInv,
     LinkPicksKeepsInv, LinkFailureKeepsInv, MarkMemberKeepsInv DEF TaskStep

LEMMA StepInv == Inv /\ [Next]_vars => Inv'
<1> SUFFICES ASSUME Inv, [Next]_vars PROVE Inv'
  OBVIOUS
<1>1. CASE Next
  BY <1>1, TaskKeepsInv, StartKeepsInv, DialogKeepsInv, DeleteManagerDataKeepsInv, UpsertManagerScopeKeepsInv,
     RestartKeepsInv DEF Next
<1>2. CASE UNCHANGED vars
  <2>1. /\ UNCHANGED <<tables, status, task, member, deletions, connection, credential, dialogs, faults>>
        /\ dialog' = dialog
    BY <1>2 DEF vars, remote, others
  <2>2. /\ connection' \in ConnectionStates /\ credential' \in {"none", "good", "foreign"}
        /\ dialog' \in [Handlers -> DialogRow] /\ dialogs' \in 0 .. MaxDialogs /\ faults' \in 0 .. MaxFaults
    BY <2>1 DEF Inv, TypeOK, DialogRow
  <2>3. SessionInv'
    BY <2>1 DEF Inv, SessionInv
  <2> QED
    BY <2>1, <2>2, <2>3, DialogMoves
<1> QED
  BY <1>1, <1>2

\* The invariant: every synchronisation under way is doomed and will say so,
\* or it has stored what it has been through (Sync, syncEntry, syncLeague).
THEOREM ManagerInvariant == Spec => []Inv
  BY InitInv, StepInv, PTL DEF Spec

\* The status of a user says running only while the run it names is worked on.
THEOREM StatusStaysLive == Spec => []StatusIsLive
<1>1. Inv => StatusIsLive
  BY DEF Inv
<1> QED
  BY <1>1, ManagerInvariant, PTL

\* A session that Me has not accepted is in memory only while the request that
\* brought it is under way.
THEOREM SessionsAreAccepted == Spec => []AcceptedSession
<1>1. Inv => AcceptedSession
  BY DEF Inv, SessionInv, AcceptedSession
<1> QED
  BY <1>1, ManagerInvariant, PTL

\* Neither a successful run nor a complete team hides a failure, whichever calls
\* fail and however the goroutines of several requests interleave.
THEOREM NothingIsHidden == Spec => []SuccessHidesNothing
<1>1. ASSUME Inv PROVE SuccessHidesNothing
  <2>1. ASSUME deletions = 0, NEW m \in Members, link[m] = "failed"
        PROVE  \E r \in Runs : run[r] \in {"running", "partial"}
    BY <1>1, <2>1 DEF Inv, StoredInv, Reported
  <2>2. FailedLinkIsReported
    BY <2>1 DEF FailedLinkIsReported
  <2>3. SuccessIsStored /\ ActiveTeamIsComplete
    BY <1>1 DEF Inv, StoredInv, SuccessIsStored, ActiveTeamIsComplete
  <2>4. SuccessHasNothingToRetry
    BY <1>1 DEF Inv, TasksInv, SuccessHasNothingToRetry
  <2> QED
    BY <1>1, <2>2, <2>3, <2>4 DEF Inv, SuccessHidesNothing
<1> QED
  BY <1>1, ManagerInvariant, PTL
=============================================================================
