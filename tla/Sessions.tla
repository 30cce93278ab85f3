------------------------------ MODULE Sessions ------------------------------
(***************************************************************************)
(* Local accounts, browser sessions and the limiter of credential          *)
(* attempts (auth.go, auth_repository.go, api_auth.go).  Every statement   *)
(* sent to the database and every call of the limiter is a step of its     *)
(* own; requests of several browsers interleave, a statement may fail, and *)
(* the process may die and come back, which empties the limiter.           *)
(*                                                                         *)
(* A password is a member of Passwords, a stored hash is the password it   *)
(* was made of, a session token is the number of its row.  Time is counted *)
(* in minutes.  Security events and last_login_at are left out.            *)
(***************************************************************************)
EXTENDS Naturals, FiniteSets, Sequences, SequencesExt, Lists

CONSTANTS
  Users, Owner,             \* normalised addresses; the bootstrap address
  Browsers, Tabs,           \* a tab sends one request at a time, with its browser's cookie
  Passwords, Acceptable,    \* those the policy lets through
  NoPassword,               \* the address has no account
  IdleTimeout, AbsoluteTimeout,
  MaxFailures, Window, MaxCooldown,         \* 5, 15 and 15 in the code
  MaxTime, MaxSessions, MaxRequests, MaxFaults  \* bounds of the runs

ASSUME SessionsAssumption ==
  /\ Owner \in Users /\ NoPassword \notin Passwords /\ Acceptable \subseteq Passwords
  /\ Acceptable # {} /\ IsFiniteSet(Tabs)
  /\ IdleTimeout \in Nat /\ AbsoluteTimeout \in Nat
  /\ MaxFailures \in Nat \ {0} /\ Window \in Nat \ {0} /\ MaxCooldown \in Nat \ {0}
  /\ MaxTime \in Nat /\ MaxSessions \in Nat /\ MaxRequests \in Nat /\ MaxFaults \in Nat

VARIABLES
  password,   \* users.password_hash per address
  sessions,   \* the sessions table, in the order of its identifiers
  limiter,    \* CredentialLimiter.attempts per address
  legacy,     \* owner of the squad rows that had none, NoOwner while unassigned
  boot,       \* how far the start of the process is
  browser,    \* the browser of each tab, fixed from the start
  cookie,     \* the session each browser presents, 0 for none
  request,    \* the request of each tab
  overlap,    \* history: a request that sets the cookie ran beside another of its browser
  now, faults, requests,
  closed      \* history: rows a completed password change of the user found

tables  == <<password, sessions, legacy>>
bounds  == <<now, faults, requests>>
vars    == <<password, sessions, limiter, legacy, boot, browser, cookie, request, overlap, bounds, closed>>

Kinds   == {"me", "logout", "login", "register", "change"}
Stages  == {"idle", "expire", "refresh", "csrf", "logout", "check", "lookup",
            "owner", "create", "failure", "upgrade", "success", "update", "others",
            "own", "session", "rotate", "respond"}
NoOwner == "nobody"
Keep    == MaxSessions + 1          \* the response has no Set-Cookie
Fresh   == [failures |-> <<>>, lockedUntil |-> 0, windows |-> 0]

Request == [kind: Kinds, user: Users, given: Passwords, next: Passwords, stage: Stages,
            hash: Passwords \cup {NoPassword}, session: 0..MaxSessions,
            answer: {Keep} \cup 0..MaxSessions, at: 0..MaxTime, seen: 0..MaxSessions,
            presents: 0..MaxSessions]
Nothing == [kind |-> "me", user |-> Owner, given |-> CHOOSE p \in Acceptable : TRUE,
            next |-> CHOOSE p \in Acceptable : TRUE, stage |-> "idle", hash |-> NoPassword,
            session |-> 0, answer |-> Keep, at |-> 0, seen |-> 0, presents |-> 0]

Lesser(a, b) == IF a < b THEN a ELSE b

(* -- statements of the repository ---------------------------------------- *)

Open(s, t) == ~sessions[s].revoked /\ t < sessions[s].idle /\ t < sessions[s].absolute

RefreshAnyway(s, idle) == sessions' = [sessions EXCEPT ![s].idle = idle]
RefreshSession(s, idle) ==
  sessions' = [sessions EXCEPT ![s].idle = IF sessions[s].revoked THEN @ ELSE idle]

RevokeSession(s) == sessions' = [sessions EXCEPT ![s].revoked = TRUE]

RevokeOtherSessions(u, keep) ==
  sessions' = [s \in DOMAIN sessions |->
    [sessions[s] EXCEPT !.revoked = @ \/ (sessions[s].user = u /\ s # keep)]]

NewIdle(s, t) == Lesser(t + IdleTimeout, sessions[s].absolute)

(* -- control of a request ------------------------------------------------ *)

At(b, stage) == boot = "up" /\ request[b].stage = stage

(* The next stage of a request; with "respond" it is answered and its browser
   keeps, drops or replaces the cookie. *)
Move(b, r) ==
  IF r.stage = "respond"
  THEN /\ request' = [request EXCEPT ![b] = Nothing]
       /\ cookie' = [cookie EXCEPT ![browser[b]] = IF r.answer = Keep THEN @ ELSE r.answer]
  ELSE request' = [request EXCEPT ![b] = r] /\ UNCHANGED cookie
Goto(b, stage) == Move(b, [request[b] EXCEPT !.stage = stage])
Fails == faults < MaxFaults /\ faults' = faults + 1
Works == UNCHANGED faults

(* Where a request goes on after withOptionalAuth found session s (0: none).
   A mutation whose origin or CSRF token is refused is answered at once.   *)
Handler(kind, s) ==
  CASE kind = "me"     -> {IF s = 0 THEN "respond" ELSE "csrf"}
    [] kind = "logout" -> {"respond"} \cup (IF s = 0 THEN {} ELSE {"logout"})
    [] kind = "change" -> {"respond"} \cup (IF s = 0 THEN {} ELSE {"owner"})
    [] OTHER           -> {"respond", "check"}

(* A log-out clears the cookie even when it knows no session. *)
Enter(b, r, s, answer) ==
  \E stage \in Handler(r.kind, s) :
    Move(b, [r EXCEPT !.stage = stage, !.session = s,
                      !.answer = IF r.kind = "logout" /\ s = 0 THEN 0 ELSE answer])

SetsCookie == {"login", "register", "change"}
Beside(b, kind) == \E c \in Tabs : /\ browser[c] = browser[b] /\ request[c].stage # "idle"
                                  /\ {kind, request[c].kind} \cap SetsCookie # {}

(* -- Authenticate: the row is read, then refreshed or revoked ------------- *)

(* What a request asks for; the log-in of a browser names any address. *)
Query(kind) == [Nothing EXCEPT !.kind = kind]
Credentials(kind, u, p) == [Nothing EXCEPT !.kind = kind, !.user = u, !.given = p]
Change(p, q) == [Nothing EXCEPT !.kind = "change", !.given = p, !.next = q]
Asked ==
  {Query(kind) : kind \in {"me", "logout"}}
  \cup {Credentials(kind, u, p) : kind \in {"login", "register"}, u \in Users, p \in Passwords}
  \cup {Change(p, q) : p \in Passwords, q \in Passwords}

Arrive(b) ==
  /\ At(b, "idle") /\ requests < MaxRequests /\ requests' = requests + 1
  /\ \E asked \in Asked : LET r == [asked EXCEPT !.presents = cookie[browser[b]]] IN
       /\ overlap' = (overlap \/ Beside(b, r.kind))
       /\ LET s == r.presents IN
          \/ s = 0 /\ Enter(b, r, 0, Keep) /\ Works
          \/ s # 0 /\ Enter(b, r, 0, Keep) /\ Fails
          \/ s # 0 /\ sessions[s].revoked /\ Enter(b, r, 0, 0) /\ Works
          \/ /\ s # 0 /\ ~sessions[s].revoked /\ Works
             /\ Move(b, [r EXCEPT !.stage = IF Open(s, now) THEN "refresh" ELSE "expire", !.at = now])
  /\ UNCHANGED <<tables, limiter, boot, browser, now, closed>>

ExpireSession(b) ==
  /\ At(b, "expire")
  /\ \/ RevokeSession(request[b].presents) /\ Works
     \/ UNCHANGED sessions /\ Fails
  /\ Enter(b, request[b], 0, 0)
  /\ UNCHANGED <<password, legacy, limiter, boot, browser, overlap, now, requests, closed>>

KeepAlive(b) ==
  /\ At(b, "refresh")
  /\ LET s == request[b].presents IN
     \/ RefreshSession(s, NewIdle(s, request[b].at)) /\ Works /\ Enter(b, request[b], s, Keep)
     \/ UNCHANGED sessions /\ Fails /\ Enter(b, request[b], 0, Keep)
  /\ UNCHANGED <<password, legacy, limiter, boot, browser, overlap, now, requests, closed>>

(* RefreshCSRF: the second refresh of the same row, by the clock of now. *)
RefreshCSRF(b) ==
  /\ At(b, "csrf")
  /\ \/ RefreshSession(request[b].session, NewIdle(request[b].session, now)) /\ Works
     \/ UNCHANGED sessions /\ Fails
  /\ Goto(b, "respond")
  /\ UNCHANGED <<password, legacy, limiter, boot, browser, overlap, now, requests, closed>>

Logout(b) ==
  /\ At(b, "logout")
  /\ \/ RevokeSession(request[b].session) /\ Works
     \/ UNCHANGED sessions /\ Fails
  /\ Move(b, [request[b] EXCEPT !.stage = "respond", !.answer = 0])
  /\ UNCHANGED <<password, legacy, limiter, boot, browser, overlap, now, requests, closed>>

(* -- the limiter ---------------------------------------------------------- *)

Kept(u) == LET failures == limiter[u].failures
           IN Subsequence(failures, {i \in DOMAIN failures : failures[i] + Window > now})

OneTooMany(failures) == Len(failures) > MaxFailures
TooMany(failures) == Len(failures) >= MaxFailures

PolicyAllows(p) == p \in Acceptable

(* A lock that runs out while the failures are still in the window is
   followed by a longer one. *)
Check(b) ==
  LET r == request[b]  u == r.user  entry == limiter[u]
      stage == CASE r.kind = "login"    -> "lookup"
                 [] r.kind = "register" -> IF PolicyAllows(r.given) THEN "create" ELSE "failure"
                 [] r.kind = "change"   -> IF r.given = r.hash /\ PolicyAllows(r.next)
                                           THEN "update" ELSE "failure"
  IN
  /\ At(b, "check")
  /\ IF now < entry.lockedUntil
     THEN Goto(b, "respond") /\ UNCHANGED limiter
     ELSE LET failures == Kept(u)  windows == entry.windows + 1 IN
          IF TooMany(failures)
          THEN /\ limiter' = [limiter EXCEPT ![u] = [failures |-> failures, windows |-> windows,
                                lockedUntil |-> now + Lesser(windows, MaxCooldown)]]
               /\ Goto(b, "respond")
          ELSE limiter' = [limiter EXCEPT ![u].failures = failures] /\ Goto(b, stage)
  /\ UNCHANGED <<tables, boot, browser, overlap, bounds, closed>>

Failure(b) ==
  /\ At(b, "failure")
  /\ limiter' = [limiter EXCEPT ![request[b].user].failures = Append(@, now)]
  /\ Goto(b, "respond")
  /\ UNCHANGED <<tables, boot, browser, overlap, bounds, closed>>

(* The password was right: the attempts are forgotten.  A log-in and a
   registration do so before their session exists, a change after. *)
Success(b) ==
  /\ At(b, "success")
  /\ limiter' = [limiter EXCEPT ![request[b].user] = Fresh]
  /\ Goto(b, IF request[b].kind = "change" THEN "respond" ELSE "session")
  /\ UNCHANGED <<tables, boot, browser, overlap, bounds, closed>>

(* -- Login and Register ---------------------------------------------------- *)

(* Whether the stored hash is of older parameters and is made anew is open;
   an address without an account is verified against a dummy hash. *)
Lookup(b) ==
  /\ At(b, "lookup")
  /\ \/ Fails /\ Goto(b, "respond")
     \/ /\ Works
        /\ IF password[request[b].user] = request[b].given
           THEN \E stage \in {"upgrade", "success"} : Goto(b, stage)
           ELSE Goto(b, "failure")
  /\ UNCHANGED <<tables, limiter, boot, browser, overlap, now, requests, closed>>

(* The new hash is written whatever the row says by now. *)
Upgrade(b) ==
  /\ At(b, "upgrade")
  /\ \/ password' = [password EXCEPT ![request[b].user] = request[b].given] /\ Works
     \/ UNCHANGED password /\ Fails
  /\ Goto(b, "success")
  /\ UNCHANGED <<sessions, legacy, limiter, boot, browser, overlap, now, requests, closed>>

(* The unique index refuses an address that has an account. *)
CreateUser(b) ==
  /\ At(b, "create")
  /\ \/ /\ Works /\ password[request[b].user] = NoPassword
        /\ password' = [password EXCEPT ![request[b].user] = request[b].given]
        /\ Goto(b, "success")
     \/ /\ IF password[request[b].user] = NoPassword THEN Fails ELSE Works
        /\ UNCHANGED password /\ Goto(b, "failure")
  /\ UNCHANGED <<sessions, legacy, limiter, boot, browser, overlap, now, requests, closed>>

NewSession(b) ==
  /\ At(b, "session")
  /\ \/ /\ Works /\ Len(sessions) < MaxSessions
        /\ sessions' = Append(sessions, [user |-> request[b].user, revoked |-> FALSE,
                                idle |-> now + IdleTimeout, absolute |-> now + AbsoluteTimeout])
        /\ Move(b, [request[b] EXCEPT !.answer = Len(sessions) + 1,
                      !.stage = IF request[b].kind = "change" THEN "success" ELSE "rotate"])
     \/ Fails /\ Goto(b, "respond") /\ UNCHANGED sessions
  /\ UNCHANGED <<password, legacy, limiter, boot, browser, overlap, now, requests, closed>>

(* rotatePreAuthSession: the session the request came with is given up. *)
KeepPrevious(b) ==
  /\ At(b, "rotate")
  /\ Goto(b, "respond")
  /\ UNCHANGED <<tables, limiter, boot, browser, overlap, bounds, closed>>
Rotate(b) ==
  /\ At(b, "rotate")
  /\ IF request[b].session = 0 THEN UNCHANGED sessions /\ Works
     ELSE \/ RevokeSession(request[b].session) /\ Works
          \/ UNCHANGED sessions /\ Fails
  /\ Goto(b, "respond")
  /\ UNCHANGED <<password, legacy, limiter, boot, browser, overlap, now, requests, closed>>

(* -- ChangePassword --------------------------------------------------------- *)

(* The account is that of the session; the hash read here is what the given
   password is compared with once the limiter has agreed. *)
FindOwner(b) ==
  /\ At(b, "owner")
  /\ LET u == sessions[request[b].session].user IN
     \/ Works /\ Move(b, [request[b] EXCEPT !.user = u, !.hash = password[u], !.stage = "check"])
     \/ Fails /\ Goto(b, "respond")
  /\ UNCHANGED <<tables, limiter, boot, browser, overlap, now, requests, closed>>

UpdatePassword(b) ==
  /\ At(b, "update")
  /\ \/ /\ Works /\ Goto(b, "others")
        /\ password' = [password EXCEPT ![request[b].user] = request[b].next]
     \/ Fails /\ Goto(b, "respond") /\ UNCHANGED password
  /\ UNCHANGED <<sessions, legacy, limiter, boot, browser, overlap, now, requests, closed>>

RevokeOthers(b) ==
  /\ At(b, "others")
  /\ \/ /\ Works /\ RevokeOtherSessions(request[b].user, request[b].session)
        /\ Move(b, [request[b] EXCEPT !.stage = "own", !.seen = Len(sessions)])
     \/ Fails /\ Goto(b, "respond") /\ UNCHANGED sessions
  /\ UNCHANGED <<password, legacy, limiter, boot, browser, overlap, now, requests, closed>>

KeepOwn(b) ==
  /\ At(b, "own")
  /\ Goto(b, "session")
  /\ closed' = [closed EXCEPT ![request[b].user] = IF @ > request[b].seen THEN @ ELSE request[b].seen]
  /\ UNCHANGED <<tables, limiter, boot, browser, overlap, bounds>>
RevokeOwn(b) ==
  /\ At(b, "own")
  /\ \/ /\ Works /\ RevokeSession(request[b].session) /\ Goto(b, "session")
        /\ closed' = [closed EXCEPT ![request[b].user] =
                        IF @ > request[b].seen THEN @ ELSE request[b].seen]
     \/ Fails /\ Goto(b, "respond") /\ UNCHANGED <<sessions, closed>>
  /\ UNCHANGED <<password, legacy, limiter, boot, browser, overlap, now, requests>>

(* -- Bootstrap and the life of the process ----------------------------------- *)

Bootstrap ==
  /\ \/ /\ boot = "find"
        /\ boot' = IF password[Owner] # NoPassword THEN "up" ELSE "create"
        /\ UNCHANGED tables
     \/ /\ boot = "create" /\ boot' = "assign"
        /\ \E p \in Acceptable : password' = [password EXCEPT ![Owner] = p]
        /\ UNCHANGED <<sessions, legacy>>
     \/ /\ boot = "assign" /\ boot' = "up" /\ legacy' = Owner
        /\ UNCHANGED <<password, sessions>>
  /\ UNCHANGED <<limiter, browser, overlap, cookie, request, bounds, closed>>

(* The process ends, by a signal or because Bootstrap failed, and is started
   again: its requests are gone and so is the limiter. *)
Restart ==
  /\ Fails
  /\ boot' = "find"
  /\ limiter' = [u \in Users |-> Fresh]
  /\ request' = [b \in Tabs |-> Nothing]
  /\ UNCHANGED <<tables, browser, overlap, cookie, now, requests, closed>>

Tick == now < MaxTime /\ now' = now + 1
        /\ UNCHANGED <<tables, limiter, boot, browser, overlap, cookie, request, faults, requests, closed>>

Init ==
  /\ password = [u \in Users |-> NoPassword] /\ sessions = <<>>
  /\ limiter = [u \in Users |-> Fresh] /\ legacy = NoOwner /\ boot = "find"
  /\ browser \in [Tabs -> Browsers] /\ overlap = FALSE
  /\ cookie = [b \in Browsers |-> 0] /\ request = [b \in Tabs |-> Nothing]
  /\ now = 0 /\ faults = 0 /\ requests = 0 /\ closed = [u \in Users |-> 0]

Authenticate(b) == Arrive(b) \/ ExpireSession(b) \/ KeepAlive(b)
Attempt(b) == \/ Check(b) \/ Failure(b) \/ Success(b) \/ Lookup(b) \/ Upgrade(b)
              \/ CreateUser(b) \/ NewSession(b) \/ Rotate(b)
ChangePassword(b) == FindOwner(b) \/ UpdatePassword(b) \/ RevokeOthers(b) \/ RevokeOwn(b)
Serve(b) == Authenticate(b) \/ RefreshCSRF(b) \/ Logout(b) \/ Attempt(b) \/ ChangePassword(b)

Next == Bootstrap \/ Restart \/ Tick \/ \E b \in Tabs : Serve(b)
Spec == Init /\ [][Next]_vars

(* -- properties ----------------------------------------------------------- *)

Session == [user: Users, revoked: BOOLEAN, idle: Nat, absolute: Nat]

(* Types of the state; every password that is stored passed the policy. *)
TypeOK ==
  /\ password \in [Users -> Acceptable \cup {NoPassword}]
  /\ sessions \in Seq(Session) /\ Len(sessions) <= MaxSessions
  /\ legacy \in {NoOwner, Owner} /\ boot \in {"find", "create", "assign", "up"}
  /\ browser \in [Tabs -> Browsers] /\ overlap \in BOOLEAN
  /\ cookie \in [Browsers -> 0..Len(sessions)] /\ request \in [Tabs -> Request]
  /\ now \in 0..MaxTime /\ faults \in 0..MaxFaults /\ requests \in 0..MaxRequests
  /\ closed \in [Users -> 0..MaxSessions]

(* A refresh decided on a row read earlier never brings back a session that
   was revoked in between, nor moves its expiry (auth_repository.go:99). *)
RevokedForGood ==
  [][\A s \in DOMAIN sessions : sessions[s].revoked => sessions'[s] = sessions[s]]_sessions

(* However refreshes of one session interleave with the clock, its idle
   expiry never passes the absolute one (auth.go:331, auth.go:349). *)
IdleWithinAbsolute ==
  AbsoluteTimeout >= IdleTimeout =>
    \A s \in DOMAIN sessions : sessions[s].idle <= sessions[s].absolute

(* A password change that got past its revocations left none of the user's
   earlier sessions open, whichever requests ran beside it (auth.go:387). *)
ChangeClosesEarlierSessions ==
  \A s \in DOMAIN sessions : s <= closed[sessions[s].user] => sessions[s].revoked

(* Sessions end when they should, and the stored rows have their types. *)
SessionsEnd == TypeOK /\ IdleWithinAbsolute /\ ChangeClosesEarlierSessions

(* The limiter is asked before a password is verified and told afterwards:
   attempts under way together may pass the threshold, but by no more than
   one for each of them (auth.go:481). *)
UnderWay(u) == {b \in Tabs : /\ request[b].user = u
                                 /\ request[b].stage \in {"lookup", "create", "failure"}}
FailuresBounded ==
  \A u \in Users : Len(limiter[u].failures) + Cardinality(UnderWay(u))
                     <= MaxFailures - 1 + Cardinality(Tabs)

(* Locks that follow one another end: an address whose attempts stop is open
   again one window and one cool-down after its last failure (auth.go:486). *)
LockEndsInTime ==
  \A u \in Users : LET e == limiter[u] IN
    e.lockedUntil <= IF e.failures = <<>> THEN now ELSE Last(e.failures) + Window + MaxCooldown

(* The limiter stops guessing and locks nobody out for good. *)
LimiterHolds ==
  /\ limiter \in [Users -> [failures: Seq(0..MaxTime), lockedUntil: Nat, windows: Nat]]
  /\ FailuresBounded
  /\ LockEndsInTime

(* As long as nothing failed and no log-in, registration or password change
   ran beside another request of its browser, every open session is the one
   a browser presents or that of a request under way: none is left behind
   (api_auth.go:270, auth.go:324). *)
NoSessionLeftBehind ==
  faults = 0 /\ ~overlap => \A s \in DOMAIN sessions :
    \/ sessions[s].revoked
    \/ \E c \in Browsers : s = cookie[c]
    \/ \E b \in Tabs : s \in {request[b].answer, request[b].session, request[b].presents}

(* README.md:67: the bootstrap that creates the first user assigns the squad
   rows without an owner to it. *)
LegacyIsAssigned == boot = "up" => legacy = Owner
=============================================================================
