---------------------------- MODULE SessionsProofs ----------------------------
(***************************************************************************)
(* What holds of Sessions for any number of addresses, browsers, tabs,     *)
(* passwords and sessions, all timeouts, however requests interleave,      *)
(* statements fail and the process restarts.                               *)
(*                                                                         *)
(* Every step moves at most one request on and changes the sessions table  *)
(* by one of the statements of the repository.  Each of these leaves the   *)
(* owner of a row alone, never opens a row that was revoked and keeps its  *)
(* idle expiry before the absolute one (Grown).  A password change that    *)
(* has revoked the others has only its own session left to revoke.         *)
(*                                                                         *)
(* Of the limiter: the failures that count and the attempts under way      *)
(* together stay within the limit and one for each tab, since an attempt   *)
(* that is told to the limiter was let pass when fewer had failed.  Of     *)
(* sessions nobody can give up: while nothing fails every open one is in a *)
(* cookie or known to a request (Tracked).                                 *)
(***************************************************************************)
EXTENDS Sessions, CollectionTheorems

\* A request knows sessions of the table only, and what its stage has checked.
RequestOK(r, n) ==
  /\ r \in Request
  /\ r.answer \in {Keep} \cup 0..n
  /\ r.session \in 0..n /\ r.presents \in 0..n /\ r.seen \in 0..n
  /\ r.stage \in {"expire", "refresh"} => r.presents # 0
  /\ r.stage \in {"csrf", "logout", "owner"} => r.session # 0
  /\ r.stage = "check" => r.kind \in SetsCookie
  /\ r.stage = "owner" => r.kind = "change"
  /\ r.stage \in {"upgrade", "create"} => r.given \in Acceptable
  /\ r.stage = "update" => r.next \in Acceptable

\* What a password change has left open when only its own session remains.
OthersRevoked(r, table) ==
  r.stage = "own" =>
    \A s \in DOMAIN table : s <= r.seen /\ table[s].user = r.user => s = r.session \/ table[s].revoked

RequestsInv == \A b \in Tabs : RequestOK(request[b], Len(sessions)) /\ OthersRevoked(request[b], sessions)

ClosedInv ==
  /\ closed \in [Users -> 0..Len(sessions)]
  /\ ChangeClosesEarlierSessions

Inv == TypeOK /\ RequestsInv /\ ClosedInv /\ IdleWithinAbsolute

\* What any statement does to the table of sessions.
Grown ==
  /\ sessions' \in Seq(Session)
  /\ Len(sessions) <= Len(sessions') /\ Len(sessions') <= MaxSessions
  /\ \A s \in DOMAIN sessions :
       /\ sessions'[s].user = sessions[s].user
       /\ sessions[s].revoked => sessions'[s] = sessions[s]
  /\ IdleWithinAbsolute'

-----------------------------------------------------------------------------
(* The statements.                                                         *)

LEMMA TableTypes ==
  ASSUME TypeOK
  PROVE  /\ Len(sessions) \in Nat /\ DOMAIN sessions = 1..Len(sessions)
         /\ sessions \in [1..Len(sessions) -> Session]
         /\ \A s \in DOMAIN sessions :
              /\ sessions[s].user \in Users /\ sessions[s].revoked \in BOOLEAN
              /\ sessions[s].idle \in Nat /\ sessions[s].absolute \in Nat
         /\ MaxSessions \in Nat /\ Len(sessions) <= MaxSessions
<1>1. sessions \in Seq(Session) /\ Len(sessions) <= MaxSessions /\ MaxSessions \in Nat
  BY SessionsAssumption DEF TypeOK
<1>2. /\ Len(sessions) \in Nat /\ DOMAIN sessions = 1..Len(sessions)
      /\ sessions \in [1..Len(sessions) -> Session]
  BY <1>1, LenProperties
<1>3. ASSUME NEW s \in DOMAIN sessions
      PROVE  /\ sessions[s].user \in Users /\ sessions[s].revoked \in BOOLEAN
             /\ sessions[s].idle \in Nat /\ sessions[s].absolute \in Nat
  BY <1>2 DEF Session
<1> QED
  BY <1>1, <1>2, <1>3

\* A table with the same rows in other states.
LEMMA SameRows ==
  ASSUME TypeOK, sessions' \in [1..Len(sessions) -> Session],
         \A s \in DOMAIN sessions :
           /\ sessions'[s].user = sessions[s].user
           /\ sessions[s].revoked => sessions'[s] = sessions[s]
           /\ AbsoluteTimeout >= IdleTimeout => sessions'[s].idle <= sessions'[s].absolute
  PROVE  Grown
<1>1. Len(sessions) \in Nat /\ Len(sessions) <= MaxSessions /\ DOMAIN sessions = 1..Len(sessions)
  BY TableTypes
<1>2. sessions' \in Seq(Session)
  BY <1>1, IsASeq
<1>3. DOMAIN sessions' = 1..Len(sessions) /\ Len(sessions') = Len(sessions)
  BY <1>1, <1>2, LenProperties
<1> QED
  BY <1>1, <1>2, <1>3 DEF Grown, IdleWithinAbsolute

LEMMA UnchangedGrown ==
  ASSUME Inv, UNCHANGED sessions
  PROVE  Grown
  BY TableTypes, SameRows DEF Inv, IdleWithinAbsolute

LEMMA RevokeGrown ==
  ASSUME Inv, NEW s, RevokeSession(s)
  PROVE  Grown /\ (s \in DOMAIN sessions => sessions'[s].revoked)
<1>1. /\ sessions' = [i \in DOMAIN sessions |->
                        IF i = s THEN [sessions[i] EXCEPT !.revoked = TRUE] ELSE sessions[i]]
  BY TableTypes DEF RevokeSession, Inv
<1>2. ASSUME NEW i \in DOMAIN sessions
      PROVE  /\ sessions'[i] \in Session
             /\ sessions'[i].user = sessions[i].user
             /\ sessions[i].revoked => sessions'[i] = sessions[i]
             /\ sessions'[i].idle = sessions[i].idle /\ sessions'[i].absolute = sessions[i].absolute
             /\ i = s => sessions'[i].revoked
  BY <1>1, TableTypes DEF Inv, Session
<1>3. sessions' \in [1..Len(sessions) -> Session]
  BY <1>1, <1>2, TableTypes DEF Inv
<1> QED
  BY <1>2, <1>3, SameRows, TableTypes DEF Inv, IdleWithinAbsolute

LEMMA RevokeOthersGrown ==
  ASSUME Inv, NEW u, NEW keep, RevokeOtherSessions(u, keep)
  PROVE  /\ Grown
         /\ Len(sessions') = Len(sessions)
         /\ \A s \in DOMAIN sessions : sessions[s].user = u => s = keep \/ sessions'[s].revoked
<1>1. sessions' = [i \in DOMAIN sessions |->
        [sessions[i] EXCEPT !.revoked = sessions[i].revoked \/ (sessions[i].user = u /\ i # keep)]]
  BY DEF RevokeOtherSessions
<1>2. ASSUME NEW i \in DOMAIN sessions
      PROVE  /\ sessions'[i] \in Session
             /\ sessions'[i].user = sessions[i].user
             /\ sessions[i].revoked => sessions'[i] = sessions[i]
             /\ sessions'[i].idle = sessions[i].idle /\ sessions'[i].absolute = sessions[i].absolute
             /\ sessions[i].user = u => i = keep \/ sessions'[i].revoked
  <2> DEFINE v == sessions[i].revoked \/ (sessions[i].user = u /\ i # keep)
  <2>1. v \in BOOLEAN /\ sessions'[i] = [sessions[i] EXCEPT !.revoked = v] /\ sessions[i] \in Session
    BY <1>1, TableTypes DEF Inv
  <2>2. sessions[i].revoked => v = TRUE /\ sessions[i].revoked = TRUE
    BY TableTypes DEF Inv
  <2>3. (sessions[i].user = u /\ i # keep) => v
    OBVIOUS
  <2> HIDE DEF v
  <2> QED
    BY <2>1, <2>2, <2>3 DEF Session
<1>3. sessions' \in [1..Len(sessions) -> Session] /\ DOMAIN sessions' = 1..Len(sessions)
  BY <1>1, <1>2, TableTypes DEF Inv
<1>4. Len(sessions') = Len(sessions)
  BY <1>3, TableTypes, IsASeq, LenProperties DEF Inv
<1> QED
  BY <1>2, <1>3, <1>4, SameRows, TableTypes DEF Inv, IdleWithinAbsolute

\* The new expiry is capped by the absolute one of the row as it was read.
LEMMA RefreshGrown ==
  ASSUME Inv, NEW s \in DOMAIN sessions, NEW t \in Nat, RefreshSession(s, NewIdle(s, t))
  PROVE  Grown
<1>1. NewIdle(s, t) \in Nat /\ NewIdle(s, t) <= sessions[s].absolute
  BY TableTypes, SessionsAssumption DEF NewIdle, Lesser, Inv
<1>2. sessions' = [i \in DOMAIN sessions |->
        IF i = s THEN [sessions[s] EXCEPT !.idle = IF sessions[s].revoked THEN sessions[s].idle ELSE NewIdle(s, t)]
        ELSE sessions[i]]
  BY TableTypes DEF RefreshSession, Inv
<1>3. ASSUME NEW i \in DOMAIN sessions
      PROVE  /\ sessions'[i] \in Session
             /\ sessions'[i].user = sessions[i].user
             /\ sessions[i].revoked => sessions'[i] = sessions[i]
             /\ AbsoluteTimeout >= IdleTimeout => sessions'[i].idle <= sessions'[i].absolute
  BY <1>1, <1>2, TableTypes DEF Inv, Session, IdleWithinAbsolute
<1>4. sessions' \in [1..Len(sessions) -> Session]
  BY <1>2, <1>3, TableTypes DEF Inv
<1> QED
  BY <1>3, <1>4, SameRows DEF Inv

LEMMA AppendGrown ==
  ASSUME Inv, NEW u \in Users, Len(sessions) < MaxSessions,
         sessions' = Append(sessions, [user |-> u, revoked |-> FALSE,
                       idle |-> now + IdleTimeout, absolute |-> now + AbsoluteTimeout])
  PROVE  Grown /\ Len(sessions') = Len(sessions) + 1
<1> DEFINE row == [user |-> u, revoked |-> FALSE, idle |-> now + IdleTimeout, absolute |-> now + AbsoluteTimeout]
<1>1. row \in Session /\ (AbsoluteTimeout >= IdleTimeout => row.idle <= row.absolute)
  BY SessionsAssumption DEF Session, Inv, TypeOK
<1> HIDE DEF row
<1>2. sessions \in Seq(Session) /\ sessions' = Append(sessions, row)
  BY DEF Inv, TypeOK, row
<1>3. /\ sessions' \in Seq(Session) /\ Len(sessions') = Len(sessions) + 1
      /\ \A i \in 1..Len(sessions) : sessions'[i] = sessions[i]
      /\ sessions'[Len(sessions) + 1] = row
  BY <1>1, <1>2, AppendProperties
<1>4. DOMAIN sessions' = 1..(Len(sessions) + 1)
  BY <1>3, TableTypes, LenProperties DEF Inv
<1> QED
  BY <1>1, <1>3, <1>4, TableTypes DEF Grown, Inv, IdleWithinAbsolute

-----------------------------------------------------------------------------
(* The control of a request.                                               *)

\* The rest of the state as most steps leave it.
Elsewhere ==
  /\ password' \in [Users -> Acceptable \cup {NoPassword}]
  /\ overlap' \in BOOLEAN /\ now' = now /\ faults' \in 0..MaxFaults /\ requests' \in 0..MaxRequests
  /\ UNCHANGED <<legacy, boot, browser>>

LEMMA NothingOK ==
  ASSUME NEW n \in Nat, n <= MaxSessions
  PROVE  RequestOK(Nothing, n)
<1>1. (CHOOSE p \in Acceptable : TRUE) \in Acceptable
  BY SessionsAssumption
<1>2. Nothing \in Request
  BY <1>1, SessionsAssumption DEF Nothing, Request, Kinds, Stages
<1>3. Nothing.stage = "idle" /\ Nothing.session = 0 /\ Nothing.answer = Keep /\ Nothing.presents = 0 /\ Nothing.seen = 0
  BY DEF Nothing
<1> QED
  BY <1>2, <1>3 DEF RequestOK

\* A longer table and more revoked rows harm no request.
LEMMA RequestsKeep ==
  ASSUME Inv, Grown, NEW b \in Tabs
  PROVE  request'[b] = request[b] =>
           RequestOK(request[b], Len(sessions')) /\ OthersRevoked(request[b], sessions')
<1> SUFFICES ASSUME request'[b] = request[b]
             PROVE  RequestOK(request[b], Len(sessions')) /\ OthersRevoked(request[b], sessions')
  OBVIOUS
<1>1. Len(sessions) \in Nat /\ Len(sessions') \in Nat /\ Len(sessions) <= Len(sessions')
  BY TableTypes, LenProperties DEF Inv, Grown
<1>2. RequestOK(request[b], Len(sessions)) /\ OthersRevoked(request[b], sessions)
  BY DEF Inv, RequestsInv
<1>3. RequestOK(request[b], Len(sessions'))
  BY <1>1, <1>2 DEF RequestOK
<1>4. DOMAIN sessions = 1..Len(sessions) /\ DOMAIN sessions' = 1..Len(sessions')
  BY TableTypes, LenProperties DEF Inv, Grown
<1>5. request[b].seen \in 0..Len(sessions)
  BY <1>2 DEF RequestOK
<1>6. OthersRevoked(request[b], sessions')
  BY <1>1, <1>2, <1>4, <1>5 DEF OthersRevoked, Grown
<1> QED
  BY <1>3, <1>6

\* Rows that a completed change closed stay closed, and new ones come after.
LEMMA ClosedKeep ==
  ASSUME Inv, Grown, UNCHANGED closed
  PROVE  ClosedInv'
<1>1. Len(sessions) \in Nat /\ Len(sessions') \in Nat /\ Len(sessions) <= Len(sessions')
  BY TableTypes, LenProperties DEF Inv, Grown
<1>2. DOMAIN sessions = 1..Len(sessions) /\ DOMAIN sessions' = 1..Len(sessions')
  BY TableTypes, LenProperties DEF Inv, Grown
<1>3. closed' \in [Users -> 0..Len(sessions')]
  BY <1>1 DEF Inv, ClosedInv
<1>4. ASSUME NEW s \in DOMAIN sessions', s <= closed[sessions'[s].user]
      PROVE  sessions'[s].revoked
  <2>1. sessions'[s].user \in Users
    <3>1. sessions' \in [1..Len(sessions') -> Session]
      BY LenProperties DEF Grown
    <3> QED
      BY <3>1, <1>2 DEF Session
  <2>2. s \in DOMAIN sessions
    BY <1>1, <1>2, <1>4, <2>1 DEF Inv, ClosedInv
  <2> QED
    BY <1>4, <2>2 DEF Inv, ClosedInv, ChangeClosesEarlierSessions, Grown
<1> QED
  BY <1>3, <1>4 DEF ClosedInv, ChangeClosesEarlierSessions

\* One request moves on.
LEMMA MoveKeeps ==
  ASSUME Inv, Grown, ClosedInv', Elsewhere, NEW b \in Tabs, NEW r, Move(b, r),
         RequestOK(r, Len(sessions')), OthersRevoked(r, sessions')
  PROVE  Inv'
<1>1. Len(sessions) \in Nat /\ Len(sessions') \in Nat /\ Len(sessions) <= Len(sessions') /\ MaxSessions \in Nat
  BY TableTypes, LenProperties DEF Inv, Grown
<1>2. /\ cookie \in [Browsers -> 0..Len(sessions)] /\ browser \in [Tabs -> Browsers]
      /\ request \in [Tabs -> Request]
  BY DEF Inv, TypeOK
<1>3. /\ RequestOK(Nothing, Len(sessions')) /\ OthersRevoked(Nothing, sessions')
  <2>1. OthersRevoked(Nothing, sessions')
    BY DEF OthersRevoked, Nothing
  <2> QED
    BY <2>1, <1>1, NothingOK DEF Grown
<1>4. \/ request' = [request EXCEPT ![b] = Nothing] /\ cookie' = [cookie EXCEPT ![browser[b]] =
           IF r.answer = Keep THEN cookie[browser[b]] ELSE r.answer]
      \/ request' = [request EXCEPT ![b] = r] /\ cookie' = cookie
  BY DEF Move
<1>5. cookie' \in [Browsers -> 0..Len(sessions')]
  <2>1. r.answer = Keep \/ r.answer \in 0..Len(sessions')
    BY DEF RequestOK
  <2> QED
    BY <1>1, <1>2, <1>4, <2>1
<1>6. Nothing \in Request /\ r \in Request
  BY <1>3 DEF RequestOK
<1>7. request' \in [Tabs -> Request]
  BY <1>2, <1>4, <1>6
<1>8. RequestsInv'
  <2> SUFFICES ASSUME NEW c \in Tabs
               PROVE  RequestOK(request'[c], Len(sessions')) /\ OthersRevoked(request'[c], sessions')
    BY DEF RequestsInv
  <2>1. CASE c = b
    BY <2>1, <1>2, <1>3, <1>4 DEF OthersRevoked
  <2>2. CASE c # b
    <3>1. request'[c] = request[c]
      BY <2>2, <1>2, <1>4
    <3> QED
      BY <3>1, RequestsKeep DEF OthersRevoked
  <2> QED
    BY <2>1, <2>2
<1>9. TypeOK'
  <2>1. closed' \in [Users -> 0..MaxSessions]
    BY <1>1 DEF ClosedInv, Grown
  <2> QED
    BY <1>5, <1>7, <2>1 DEF Inv, TypeOK, Grown, Elsewhere
<1> QED
  BY <1>8, <1>9 DEF Inv, Grown

LEMMA EnterKeeps ==
  ASSUME Inv, Grown, ClosedInv', Elsewhere, NEW b \in Tabs, NEW r \in Request,
         r.presents \in 0..Len(sessions), r.seen \in 0..Len(sessions),
         NEW s \in 0..Len(sessions), NEW answer \in {Keep} \cup 0..Len(sessions),
         Enter(b, r, s, answer)
  PROVE  Inv'
<1> DEFINE a == IF r.kind = "logout" /\ s = 0 THEN 0 ELSE answer
           q(stage) == [r EXCEPT !.stage = stage, !.session = s, !.answer = a]
<1>1. PICK stage \in Handler(r.kind, s) : Move(b, q(stage))
  BY DEF Enter
<1>2. Len(sessions) \in Nat /\ Len(sessions') \in Nat /\ Len(sessions) <= Len(sessions') /\ Len(sessions') <= MaxSessions
  BY TableTypes, LenProperties DEF Inv, Grown
<1>3. /\ stage \in {"respond", "csrf", "logout", "owner", "check"}
      /\ stage \in {"csrf", "logout", "owner"} => s # 0
      /\ stage = "check" => r.kind \in SetsCookie
      /\ stage = "owner" => r.kind = "change"
  BY <1>1, SMTT(30) DEF Handler, Request, Kinds, SetsCookie
<1>4. stage \in Stages /\ s \in 0..MaxSessions /\ a \in {Keep} \cup 0..MaxSessions /\ a \in {Keep} \cup 0..Len(sessions')
  <2>1. MaxSessions \in Nat
    BY SessionsAssumption
  <2> QED
    BY <1>2, <1>3, <2>1 DEF Stages
<1> HIDE DEF a
<1>5. /\ q(stage) \in Request /\ q(stage).stage = stage /\ q(stage).session = s /\ q(stage).answer = a
      /\ q(stage).presents = r.presents /\ q(stage).seen = r.seen /\ q(stage).kind = r.kind
  BY <1>4 DEF Request
<1> HIDE DEF q
<1>6. RequestOK(q(stage), Len(sessions'))
  BY <1>2, <1>3, <1>4, <1>5 DEF RequestOK
<1>7. OthersRevoked(q(stage), sessions')
  BY <1>3, <1>5 DEF OthersRevoked
<1> QED
  BY <1>1, <1>6, <1>7, MoveKeeps

\* A request goes on to a stage that nothing is required for.
Free == {"respond", "failure", "lookup", "success", "session", "rotate", "others"}

LEMMA GotoKeeps ==
  ASSUME Inv, Grown, ClosedInv', Elsewhere, NEW b \in Tabs, NEW stage \in Stages, Goto(b, stage),
         \/ stage \in Free
         \/ stage \in {"upgrade", "create"} /\ request[b].given \in Acceptable
         \/ stage = "update" /\ request[b].next \in Acceptable
  PROVE  Inv'
<1> DEFINE r == request[b]
           q == [r EXCEPT !.stage = stage]
<1>1. Move(b, q)
  BY DEF Goto
<1>2. Len(sessions) \in Nat /\ Len(sessions') \in Nat /\ Len(sessions) <= Len(sessions')
  BY TableTypes, LenProperties DEF Inv, Grown
<1>3. RequestOK(r, Len(sessions)) /\ r \in Request
  BY DEF Inv, RequestsInv, RequestOK
<1>4. /\ q \in Request /\ q.stage = stage /\ q.session = r.session /\ q.answer = r.answer /\ q.user = r.user
      /\ q.presents = r.presents /\ q.seen = r.seen /\ q.given = r.given /\ q.next = r.next
  BY <1>3 DEF Request
<1> HIDE DEF q
<1>5. RequestOK(q, Len(sessions'))
  BY <1>2, <1>3, <1>4 DEF RequestOK, Free
<1>6. OthersRevoked(q, sessions')
  BY <1>4 DEF OthersRevoked, Free
<1> QED
  BY <1>1, <1>5, <1>6, MoveKeeps

-----------------------------------------------------------------------------
(* Authenticate.                                                           *)

LEMMA FaultTypes ==
  ASSUME Inv
  PROVE  /\ Fails => faults' \in 0..MaxFaults
         /\ Works => faults' \in 0..MaxFaults
         /\ MaxRequests \in Nat /\ MaxTime \in Nat
  BY SessionsAssumption DEF Inv, TypeOK, Fails, Works

LEMMA AskedTypes ==
  ASSUME Inv, NEW asked \in Asked, NEW p \in 0..Len(sessions)
  PROVE  LET r == [asked EXCEPT !.presents = p] IN
         /\ r \in Request /\ r.presents = p /\ r.seen = 0 /\ r.session = 0 /\ r.answer = Keep
<1>1. Nothing \in Request /\ Nothing.session = 0 /\ Nothing.answer = Keep /\ Nothing.seen = 0
  <2>1. (CHOOSE x \in Acceptable : TRUE) \in Acceptable
    BY SessionsAssumption
  <2> QED
    BY <2>1, SessionsAssumption DEF Nothing, Request, Kinds, Stages
<1>2. asked \in Request /\ asked.session = 0 /\ asked.answer = Keep /\ asked.seen = 0
  <2> DEFINE One == {Query(kind) : kind \in {"me", "logout"}}
             Two == {Credentials(kind, u, g) : kind \in {"login", "register"}, u \in Users, g \in Passwords}
             Three == {Change(g, h) : g \in Passwords, h \in Passwords}
  <2>1. Asked = One \cup Two \cup Three
    BY DEF Asked
  <2>2. asked \in One \/ asked \in Two \/ asked \in Three
    <3> HIDE DEF One, Two, Three
    <3> QED
      BY <2>1
  <2>3. asked \in One => \E kind \in {"me", "logout"} : asked = Query(kind)
    OBVIOUS
  <2>4. asked \in Two => \E kind \in {"login", "register"}, u \in Users, g \in Passwords : asked = Credentials(kind, u, g)
    OBVIOUS
  <2>5. asked \in Three => \E g \in Passwords, h \in Passwords : asked = Change(g, h)
    OBVIOUS
  <2> HIDE DEF One, Two, Three
  <2>6. ASSUME NEW kind \in {"me", "logout"}, asked = Query(kind)
        PROVE  asked \in Request /\ asked.session = 0 /\ asked.answer = Keep /\ asked.seen = 0
    BY <1>1, <2>6 DEF Query, Request, Kinds
  <2>7. ASSUME NEW kind \in {"login", "register"}, NEW u \in Users, NEW g \in Passwords, asked = Credentials(kind, u, g)
        PROVE  asked \in Request /\ asked.session = 0 /\ asked.answer = Keep /\ asked.seen = 0
    BY <1>1, <2>7 DEF Credentials, Request, Kinds
  <2>8. ASSUME NEW g \in Passwords, NEW h \in Passwords, asked = Change(g, h)
        PROVE  asked \in Request /\ asked.session = 0 /\ asked.answer = Keep /\ asked.seen = 0
    BY <1>1, <2>8 DEF Change, Request, Kinds
  <2> QED
    BY <2>2, <2>3, <2>4, <2>5, <2>6, <2>7, <2>8
<1>3. p \in 0..MaxSessions
  BY TableTypes DEF Inv
<1> HIDE DEF Asked
<1> QED
  BY <1>2, <1>3 DEF Request

LEMMA ArriveKeeps == ASSUME Inv, NEW b \in Tabs, Arrive(b) PROVE Inv'
<1>1. Grown
  BY UnchangedGrown DEF Arrive, tables
<1>2. ClosedInv'
  BY <1>1, ClosedKeep DEF Arrive
<1>3. PICK asked \in Asked :
        LET r == [asked EXCEPT !.presents = cookie[browser[b]]]  s == r.presents IN
        /\ overlap' = (overlap \/ Beside(b, r.kind))
        /\ \/ s = 0 /\ Enter(b, r, 0, Keep) /\ Works
           \/ s # 0 /\ Enter(b, r, 0, Keep) /\ Fails
           \/ s # 0 /\ sessions[s].revoked /\ Enter(b, r, 0, 0) /\ Works
           \/ /\ s # 0 /\ ~sessions[s].revoked /\ Works
              /\ Move(b, [r EXCEPT !.stage = IF Open(s, now) THEN "refresh" ELSE "expire", !.at = now])
  BY DEF Arrive
<1> DEFINE r == [asked EXCEPT !.presents = cookie[browser[b]]]
           s == cookie[browser[b]]
<1>4. s \in 0..Len(sessions) /\ Len(sessions) \in Nat
  BY TableTypes DEF Inv, TypeOK
<1>5. r \in Request /\ r.presents = s /\ r.seen = 0 /\ r.session = 0 /\ r.answer = Keep
  BY <1>4, AskedTypes
<1>6. Elsewhere
  <2>1. requests' \in 0..MaxRequests
    BY FaultTypes DEF Inv, TypeOK, Arrive
  <2>2. faults' \in 0..MaxFaults
    BY <1>3, FaultTypes
  <2>3. overlap' \in BOOLEAN
    BY <1>3 DEF Inv, TypeOK, Beside
  <2> QED
    BY <2>1, <2>2, <2>3 DEF Elsewhere, Arrive, tables, Inv, TypeOK
<1> HIDE DEF r, s
<1>7. \/ Enter(b, r, 0, Keep)
      \/ Enter(b, r, 0, 0)
      \/ s # 0 /\ \E stage \in {"refresh", "expire"} : Move(b, [r EXCEPT !.stage = stage, !.at = now])
  BY <1>3, <1>5 DEF r, s
<1>8. CASE Enter(b, r, 0, Keep) \/ Enter(b, r, 0, 0)
  BY <1>1, <1>2, <1>4, <1>5, <1>6, <1>8, EnterKeeps
<1>9. CASE s # 0 /\ \E stage \in {"refresh", "expire"} : Move(b, [r EXCEPT !.stage = stage, !.at = now])
  <2>1. PICK stage \in {"refresh", "expire"} : Move(b, [r EXCEPT !.stage = stage, !.at = now])
    BY <1>9
  <2> DEFINE q == [r EXCEPT !.stage = stage, !.at = now]
  <2>2. /\ q \in Request /\ q.stage = stage /\ q.presents = s /\ q.seen = 0 /\ q.session = 0 /\ q.answer = Keep
    BY <1>5 DEF Request, Stages, Inv, TypeOK
  <2> HIDE DEF q
  <2>3. Len(sessions) \in Nat /\ Len(sessions') \in Nat /\ Len(sessions) <= Len(sessions')
    BY TableTypes, LenProperties, <1>1 DEF Inv, Grown
  <2>4. RequestOK(q, Len(sessions'))
    BY <1>4, <1>9, <2>2, <2>3 DEF RequestOK
  <2>5. OthersRevoked(q, sessions')
    BY <2>2 DEF OthersRevoked
  <2>6. Move(b, q)
    BY <2>1 DEF q
  <2> QED
    BY <1>1, <1>2, <1>6, <2>4, <2>5, <2>6, MoveKeeps
<1> QED
  BY <1>7, <1>8, <1>9

\* A request under way and what it knows.
LEMMA RequestFacts ==
  ASSUME Inv, NEW b \in Tabs
  PROVE  /\ request[b] \in Request /\ RequestOK(request[b], Len(sessions))
         /\ request[b].kind \in Kinds /\ request[b].user \in Users
         /\ request[b].given \in Passwords /\ request[b].next \in Passwords
         /\ request[b].session \in 0..Len(sessions) /\ request[b].presents \in 0..Len(sessions)
         /\ request[b].seen \in 0..Len(sessions) /\ request[b].at \in Nat
  BY SessionsAssumption DEF Inv, RequestsInv, RequestOK, Request

\* The conjuncts that the steps of a request have in common.
LEMMA Untouched ==
  ASSUME Inv, Fails \/ Works, UNCHANGED <<overlap, now, requests, legacy, boot, browser>>,
         password' \in [Users -> Acceptable \cup {NoPassword}]
  PROVE  Elsewhere
  BY FaultTypes DEF Elsewhere, Inv, TypeOK

LEMMA ExpireKeeps == ASSUME Inv, NEW b \in Tabs, ExpireSession(b) PROVE Inv'
<1>1. Grown
  BY UnchangedGrown, RevokeGrown DEF ExpireSession
<1>2. ClosedInv'
  BY <1>1, ClosedKeep DEF ExpireSession
<1>3. Elsewhere
  BY Untouched DEF ExpireSession, Inv, TypeOK
<1>4. 0 \in 0..Len(sessions)
  BY TableTypes DEF Inv
<1>5. Enter(b, request[b], 0, 0)
  BY DEF ExpireSession
<1> QED
  BY <1>1, <1>2, <1>3, <1>4, <1>5, RequestFacts, EnterKeeps

LEMMA KeepAliveKeeps == ASSUME Inv, NEW b \in Tabs, KeepAlive(b) PROVE Inv'
<1> DEFINE s == request[b].presents
<1>1. s \in DOMAIN sessions /\ s \in 0..Len(sessions) /\ 0 \in 0..Len(sessions)
  BY RequestFacts, TableTypes DEF KeepAlive, At, RequestOK, Inv
<1>2. request[b].at \in Nat
  BY RequestFacts
<1>3. \/ RefreshSession(s, NewIdle(s, request[b].at)) /\ Works /\ Enter(b, request[b], s, Keep)
      \/ UNCHANGED sessions /\ Fails /\ Enter(b, request[b], 0, Keep)
  BY DEF KeepAlive
<1>4. Grown
  BY <1>1, <1>2, <1>3, UnchangedGrown, RefreshGrown
<1>5. ClosedInv'
  BY <1>4, ClosedKeep DEF KeepAlive
<1>6. Elsewhere
  BY <1>3, Untouched DEF KeepAlive, Inv, TypeOK
<1> QED
  BY <1>1, <1>3, <1>4, <1>5, <1>6, RequestFacts, EnterKeeps

LEMMA RefreshCSRFKeeps == ASSUME Inv, NEW b \in Tabs, RefreshCSRF(b) PROVE Inv'
<1> DEFINE s == request[b].session
<1>1. s \in DOMAIN sessions /\ now \in Nat
  BY RequestFacts, TableTypes, SessionsAssumption DEF RefreshCSRF, At, RequestOK, Inv, TypeOK
<1>2. Grown
  BY <1>1, UnchangedGrown, RefreshGrown DEF RefreshCSRF
<1>3. ClosedInv'
  BY <1>2, ClosedKeep DEF RefreshCSRF
<1>4. Elsewhere
  BY Untouched DEF RefreshCSRF, Inv, TypeOK
<1> QED
  BY <1>2, <1>3, <1>4, GotoKeeps DEF RefreshCSRF, Free, Stages

LEMMA LogoutKeeps == ASSUME Inv, NEW b \in Tabs, Logout(b) PROVE Inv'
<1>1. Grown
  BY UnchangedGrown, RevokeGrown DEF Logout
<1>2. ClosedInv'
  BY <1>1, ClosedKeep DEF Logout
<1>3. Elsewhere
  BY Untouched DEF Logout, Inv, TypeOK
<1> DEFINE q == [request[b] EXCEPT !.stage = "respond", !.answer = 0]
<1>4. /\ q \in Request /\ q.stage = "respond" /\ q.answer = 0 /\ q.session = request[b].session
      /\ q.presents = request[b].presents /\ q.seen = request[b].seen
  <2>1. request[b] \in Request /\ 0 \in 0..MaxSessions /\ "respond" \in Stages
    BY RequestFacts, SessionsAssumption DEF Stages
  <2> QED
    BY <2>1 DEF Request
<1>5. Move(b, q)
  BY DEF Logout
<1> HIDE DEF q
<1>6. Len(sessions) \in Nat /\ Len(sessions') \in Nat /\ Len(sessions) <= Len(sessions')
  BY <1>1, TableTypes, LenProperties DEF Inv, Grown
<1>7. RequestOK(q, Len(sessions')) /\ OthersRevoked(q, sessions')
  BY <1>4, <1>6, RequestFacts DEF RequestOK, OthersRevoked
<1> QED
  BY <1>1, <1>2, <1>3, <1>5, <1>7, MoveKeeps

-----------------------------------------------------------------------------
(* Passwords.                                                              *)

\* Steps that leave the tables alone and go on.
LEMMA AsideKeeps ==
  ASSUME Inv, NEW b \in Tabs, NEW stage \in Stages, Goto(b, stage), Fails \/ Works,
         UNCHANGED <<tables, boot, browser, overlap, now, requests, closed>>,
         stage \in Free \/ (stage \in {"upgrade", "create"} /\ request[b].given \in Acceptable)
                        \/ (stage = "update" /\ request[b].next \in Acceptable)
  PROVE  Inv'
<1>1. Grown
  BY UnchangedGrown DEF tables
<1>2. ClosedInv'
  BY <1>1, ClosedKeep
<1>3. Elsewhere
  BY Untouched DEF tables, Inv, TypeOK
<1> QED
  BY <1>1, <1>2, <1>3, GotoKeeps

LEMMA CheckKeeps == ASSUME Inv, NEW b \in Tabs, Check(b) PROVE Inv'
<1> DEFINE r == request[b]
           stage == CASE r.kind = "login"    -> "lookup"
                      [] r.kind = "register" -> IF PolicyAllows(r.given) THEN "create" ELSE "failure"
                      [] r.kind = "change"   -> IF r.given = r.hash /\ PolicyAllows(r.next)
                                                THEN "update" ELSE "failure"
<1>1. Goto(b, "respond") \/ Goto(b, stage)
  BY DEF Check
<1>2. r.kind \in {"login", "register", "change"}
      => /\ stage \in Stages
         /\ \/ stage \in Free
            \/ stage \in {"upgrade", "create"} /\ request[b].given \in Acceptable
            \/ stage = "update" /\ request[b].next \in Acceptable
  BY DEF PolicyAllows, Free, Stages
<1>3. Works /\ UNCHANGED <<tables, boot, browser, overlap, now, requests, closed>>
  BY DEF Check, bounds, Works
<1>4. r.kind \in {"login", "register", "change"}
  BY RequestFacts DEF Check, At, RequestOK, SetsCookie
<1> HIDE DEF stage
<1> QED
  BY <1>1, <1>2, <1>3, <1>4, AsideKeeps DEF Free, Stages

LEMMA FailureKeeps == ASSUME Inv, NEW b \in Tabs, Failure(b) PROVE Inv'
  BY AsideKeeps DEF Failure, Free, Stages, bounds, Works

LEMMA SuccessKeeps == ASSUME Inv, NEW b \in Tabs, Success(b) PROVE Inv'
<1>1. Goto(b, "respond") \/ Goto(b, "session")
  BY DEF Success
<1> QED
  BY <1>1, AsideKeeps DEF Success, Free, Stages, bounds, Works

\* The password that matched one that is stored passed the policy.
LEMMA LookupKeeps == ASSUME Inv, NEW b \in Tabs, Lookup(b) PROVE Inv'
<1>1. request[b].given \in Passwords /\ request[b].user \in Users
  BY RequestFacts
<1>2. password[request[b].user] = request[b].given => request[b].given \in Acceptable
  BY <1>1, SessionsAssumption DEF Inv, TypeOK
<1>3. \E stage \in Stages : /\ Goto(b, stage) /\ (Fails \/ Works)
                            /\ stage \in Free \/ (stage = "upgrade" /\ request[b].given \in Acceptable)
  BY <1>2 DEF Lookup, Free, Stages
<1> QED
  BY <1>3, AsideKeeps DEF Lookup, Free

LEMMA UpgradeKeeps == ASSUME Inv, NEW b \in Tabs, Upgrade(b) PROVE Inv'
<1>1. request[b].given \in Acceptable
  BY RequestFacts DEF Upgrade, At, RequestOK
<1>2. Grown
  BY UnchangedGrown DEF Upgrade
<1>3. ClosedInv'
  BY <1>2, ClosedKeep DEF Upgrade
<1>4. password' \in [Users -> Acceptable \cup {NoPassword}]
  BY <1>1 DEF Upgrade, Inv, TypeOK
<1>5. Elsewhere
  BY <1>4, Untouched DEF Upgrade
<1> QED
  BY <1>2, <1>3, <1>5, GotoKeeps DEF Upgrade, Free, Stages

LEMMA CreateUserKeeps == ASSUME Inv, NEW b \in Tabs, CreateUser(b) PROVE Inv'
<1>1. request[b].given \in Acceptable
  BY RequestFacts DEF CreateUser, At, RequestOK
<1>2. Grown
  BY UnchangedGrown DEF CreateUser
<1>3. ClosedInv'
  BY <1>2, ClosedKeep DEF CreateUser
<1>4. password' \in [Users -> Acceptable \cup {NoPassword}]
  BY <1>1 DEF CreateUser, Inv, TypeOK
<1>5. Elsewhere
  BY <1>4, Untouched DEF CreateUser
<1> QED
  BY <1>2, <1>3, <1>5, GotoKeeps DEF CreateUser, Free, Stages

LEMMA NewSessionKeeps == ASSUME Inv, NEW b \in Tabs, NewSession(b) PROVE Inv'
<1>1. CASE Fails /\ Goto(b, "respond") /\ UNCHANGED sessions
  <2>1. UNCHANGED <<tables, boot, browser, overlap, now, requests, closed>>
    BY <1>1 DEF NewSession, tables
  <2> QED
    BY <1>1, <2>1, AsideKeeps DEF Free, Stages
<1>2. CASE ~(Fails /\ Goto(b, "respond") /\ UNCHANGED sessions)
  <2> DEFINE stage == IF request[b].kind = "change" THEN "success" ELSE "rotate"
             q == [request[b] EXCEPT !.answer = Len(sessions) + 1, !.stage = stage]
  <2>1. /\ Works /\ Len(sessions) < MaxSessions /\ Move(b, q)
        /\ sessions' = Append(sessions, [user |-> request[b].user, revoked |-> FALSE,
                         idle |-> now + IdleTimeout, absolute |-> now + AbsoluteTimeout])
    BY <1>2 DEF NewSession
  <2>2. Grown /\ Len(sessions') = Len(sessions) + 1
    BY <2>1, RequestFacts, AppendGrown
  <2>3. ClosedInv'
    BY <2>2, ClosedKeep DEF NewSession
  <2>4. Elsewhere
    BY <2>1, Untouched DEF NewSession, Inv, TypeOK
  <2>5. Len(sessions) \in Nat /\ MaxSessions \in Nat /\ Len(sessions) + 1 \in 0..MaxSessions
    BY <2>1, TableTypes DEF Inv
  <2>6. stage \in {"success", "rotate"}
    OBVIOUS
  <2> HIDE DEF stage
  <2>7. /\ q \in Request /\ q.stage = stage /\ q.answer = Len(sessions) + 1 /\ q.session = request[b].session
        /\ q.presents = request[b].presents /\ q.seen = request[b].seen
    <3>1. request[b] \in Request /\ stage \in Stages
      BY <2>6, RequestFacts DEF Stages
    <3> QED
      BY <2>5, <3>1 DEF Request
  <2> HIDE DEF q
  <2>8. RequestOK(q, Len(sessions')) /\ OthersRevoked(q, sessions')
    BY <2>2, <2>5, <2>6, <2>7, RequestFacts DEF RequestOK, OthersRevoked
  <2> QED
    BY <2>1, <2>2, <2>3, <2>4, <2>8, MoveKeeps
<1> QED
  BY <1>1, <1>2

LEMMA RotateKeeps == ASSUME Inv, NEW b \in Tabs, Rotate(b) PROVE Inv'
<1>1. Grown
  BY UnchangedGrown, RevokeGrown DEF Rotate
<1>2. ClosedInv'
  BY <1>1, ClosedKeep DEF Rotate
<1>3. Elsewhere
  BY Untouched DEF Rotate, Inv, TypeOK
<1> QED
  BY <1>1, <1>2, <1>3, GotoKeeps DEF Rotate, Free, Stages

LEMMA FindOwnerKeeps == ASSUME Inv, NEW b \in Tabs, FindOwner(b) PROVE Inv'
<1> DEFINE u == sessions[request[b].session].user
           q == [request[b] EXCEPT !.user = u, !.hash = password[u], !.stage = "check"]
<1>1. CASE Fails /\ Goto(b, "respond")
  BY <1>1, AsideKeeps DEF FindOwner, Free, Stages
<1>2. CASE Works /\ Move(b, q)
  <2>1. request[b].session \in DOMAIN sessions /\ request[b].kind = "change"
    BY RequestFacts, TableTypes DEF FindOwner, At, RequestOK, Inv
  <2>2. u \in Users
    BY <2>1, TableTypes DEF Inv
  <2>3. password[u] \in Passwords \cup {NoPassword}
    BY <2>2, SessionsAssumption DEF Inv, TypeOK
  <2> HIDE DEF u
  <2>4. /\ q \in Request /\ q.stage = "check" /\ q.answer = request[b].answer /\ q.session = request[b].session
        /\ q.presents = request[b].presents /\ q.seen = request[b].seen /\ q.kind = "change"
    <3>1. request[b] \in Request /\ "check" \in Stages
      BY RequestFacts DEF Stages
    <3> QED
      BY <2>1, <2>2, <2>3, <3>1 DEF Request
  <2> HIDE DEF q
  <2>5. Grown
    BY UnchangedGrown DEF FindOwner, tables
  <2>6. ClosedInv'
    BY <2>5, ClosedKeep DEF FindOwner
  <2>7. Elsewhere
    BY <1>2, Untouched DEF FindOwner, tables, Inv, TypeOK
  <2>8. sessions' = sessions
    BY DEF FindOwner, tables
  <2>9. RequestOK(q, Len(sessions')) /\ OthersRevoked(q, sessions')
    BY <2>4, <2>8, RequestFacts DEF RequestOK, OthersRevoked, SetsCookie
  <2> QED
    BY <1>2, <2>5, <2>6, <2>7, <2>9, MoveKeeps
<1> QED
  BY <1>1, <1>2 DEF FindOwner

LEMMA UpdatePasswordKeeps == ASSUME Inv, NEW b \in Tabs, UpdatePassword(b) PROVE Inv'
<1>1. request[b].next \in Acceptable
  BY RequestFacts DEF UpdatePassword, At, RequestOK
<1>2. Grown
  BY UnchangedGrown DEF UpdatePassword
<1>3. ClosedInv'
  BY <1>2, ClosedKeep DEF UpdatePassword
<1>4. password' \in [Users -> Acceptable \cup {NoPassword}]
  BY <1>1 DEF UpdatePassword, Inv, TypeOK
<1>5. Elsewhere
  BY <1>4, Untouched DEF UpdatePassword
<1> QED
  BY <1>2, <1>3, <1>5, GotoKeeps DEF UpdatePassword, Free, Stages

\* Whatever sessions there are when the others are revoked: of this user's
\* only the request's own is open.
LEMMA RevokeOthersKeeps == ASSUME Inv, NEW b \in Tabs, RevokeOthers(b) PROVE Inv'
<1> DEFINE q == [request[b] EXCEPT !.stage = "own", !.seen = Len(sessions)]
<1>1. CASE Fails /\ Goto(b, "respond") /\ UNCHANGED sessions
  <2>1. UNCHANGED <<tables, boot, browser, overlap, now, requests, closed>>
    BY <1>1 DEF RevokeOthers, tables
  <2> QED
    BY <1>1, <2>1, AsideKeeps DEF Free, Stages
<1>2. CASE Works /\ RevokeOtherSessions(request[b].user, request[b].session) /\ Move(b, q)
  <2>1. /\ Grown /\ Len(sessions') = Len(sessions)
        /\ \A s \in DOMAIN sessions :
             sessions[s].user = request[b].user => s = request[b].session \/ sessions'[s].revoked
    BY <1>2, RevokeOthersGrown
  <2>2. ClosedInv'
    BY <2>1, ClosedKeep DEF RevokeOthers
  <2>3. Elsewhere
    BY <1>2, Untouched DEF RevokeOthers, Inv, TypeOK
  <2>4. Len(sessions) \in Nat /\ Len(sessions) \in 0..MaxSessions
    BY TableTypes DEF Inv
  <2>5. /\ q \in Request /\ q.stage = "own" /\ q.answer = request[b].answer /\ q.session = request[b].session
        /\ q.presents = request[b].presents /\ q.seen = Len(sessions) /\ q.user = request[b].user
    <3>1. request[b] \in Request /\ "own" \in Stages
      BY RequestFacts DEF Stages
    <3> QED
      BY <2>4, <3>1 DEF Request
  <2> HIDE DEF q
  <2>6. RequestOK(q, Len(sessions'))
    BY <2>1, <2>4, <2>5, RequestFacts DEF RequestOK
  <2>7. OthersRevoked(q, sessions')
    <3>1. DOMAIN sessions' = DOMAIN sessions
      BY <2>1, TableTypes, LenProperties DEF Grown, Inv
    <3> QED
      BY <2>1, <2>5, <3>1 DEF OthersRevoked, Grown
  <2> QED
    BY <1>2, <2>1, <2>2, <2>3, <2>6, <2>7, MoveKeeps
<1> QED
  BY <1>1, <1>2 DEF RevokeOthers

\* With its own session the last of those that the change found is closed.
LEMMA RevokeOwnKeeps == ASSUME Inv, NEW b \in Tabs, RevokeOwn(b) PROVE Inv'
<1> DEFINE r == request[b]
<1>1. CASE Fails /\ Goto(b, "respond") /\ UNCHANGED <<sessions, closed>>
  <2>1. UNCHANGED <<tables, boot, browser, overlap, now, requests, closed>>
    BY <1>1 DEF RevokeOwn, tables
  <2> QED
    BY <1>1, <2>1, AsideKeeps DEF Free, Stages
<1>2. CASE /\ Works /\ RevokeSession(r.session) /\ Goto(b, "session")
           /\ closed' = [closed EXCEPT ![r.user] = IF closed[r.user] > r.seen THEN closed[r.user] ELSE r.seen]
  <2>1. Grown /\ (r.session \in DOMAIN sessions => sessions'[r.session].revoked)
    BY <1>2, RevokeGrown
  <2>2. Len(sessions) \in Nat /\ Len(sessions') \in Nat /\ Len(sessions) <= Len(sessions')
    BY <2>1, TableTypes, LenProperties DEF Inv, Grown
  <2>3. DOMAIN sessions = 1..Len(sessions) /\ DOMAIN sessions' = 1..Len(sessions')
    BY <2>1, TableTypes, LenProperties DEF Inv, Grown
  <2>4. r.user \in Users /\ r.seen \in 0..Len(sessions)
    BY RequestFacts
  <2>5. closed \in [Users -> 0..Len(sessions)]
    BY DEF Inv, ClosedInv
  <2>6. /\ closed' \in [Users -> 0..Len(sessions')]
        /\ \A u \in Users : /\ closed'[u] <= Len(sessions)
                            /\ closed'[u] = closed[u] \/ (u = r.user /\ closed'[u] = r.seen)
    BY <1>2, <2>2, <2>4, <2>5
  <2>7. ASSUME NEW s \in DOMAIN sessions', s <= closed'[sessions'[s].user]
        PROVE  sessions'[s].revoked
    <3>1. sessions'[s].user \in Users
      <4>1. sessions' \in [1..Len(sessions') -> Session]
        BY <2>1, LenProperties DEF Grown
      <4> QED
        BY <4>1, <2>3 DEF Session
    <3>2. s \in DOMAIN sessions /\ sessions'[s].user = sessions[s].user
      BY <2>1, <2>2, <2>3, <2>6, <2>7, <3>1 DEF Grown
    <3>3. CASE closed'[sessions[s].user] = closed[sessions[s].user]
      BY <2>1, <2>7, <3>2, <3>3 DEF Inv, ClosedInv, ChangeClosesEarlierSessions, Grown
    <3>4. CASE sessions[s].user = r.user /\ closed'[r.user] = r.seen
      <4>1. s = r.session \/ sessions[s].revoked
        BY <1>2, <2>7, <3>2, <3>4 DEF Inv, RequestsInv, OthersRevoked, RevokeOwn, At
      <4> QED
        BY <2>1, <3>2, <4>1 DEF Grown
    <3> QED
      BY <2>6, <3>1, <3>2, <3>3, <3>4
  <2>8. ClosedInv'
    BY <2>6, <2>7 DEF ClosedInv, ChangeClosesEarlierSessions
  <2>9. Elsewhere
    BY <1>2, Untouched DEF RevokeOwn, Inv, TypeOK
  <2> QED
    BY <1>2, <2>1, <2>8, <2>9, GotoKeeps DEF Free, Stages
<1> QED
  BY <1>1, <1>2 DEF RevokeOwn

-----------------------------------------------------------------------------
(* The process and the clock.                                              *)

\* No request moves on, or all of them are gone.
LEMMA ProcessSteps ==
  ASSUME Inv, UNCHANGED <<sessions, closed, cookie, browser>>,
         password' \in [Users -> Acceptable \cup {NoPassword}],
         legacy' \in {NoOwner, Owner}, boot' \in {"find", "create", "assign", "up"},
         overlap' \in BOOLEAN, now' \in 0..MaxTime, faults' \in 0..MaxFaults, requests' \in 0..MaxRequests,
         UNCHANGED request \/ request' = [b \in Tabs |-> Nothing]
  PROVE  Inv'
<1>1. Grown
  BY UnchangedGrown
<1>2. ClosedInv'
  BY <1>1, ClosedKeep
<1>3. RequestOK(Nothing, Len(sessions)) /\ OthersRevoked(Nothing, sessions)
  <2>1. OthersRevoked(Nothing, sessions)
    BY DEF OthersRevoked, Nothing
  <2> QED
    BY <2>1, NothingOK, TableTypes DEF Inv
<1>4. \A b \in Tabs : RequestOK(request'[b], Len(sessions)) /\ OthersRevoked(request'[b], sessions)
  BY <1>3 DEF Inv, RequestsInv
<1>5. request' \in [Tabs -> Request]
  <2>1. Nothing \in Request
    BY <1>3 DEF RequestOK
  <2> QED
    BY <2>1 DEF Inv, TypeOK
<1>6. RequestsInv'
  BY <1>4 DEF RequestsInv
<1> QED
  BY <1>1, <1>2, <1>5, <1>6 DEF Inv, TypeOK, Grown

LEMMA InitInv == Init => Inv
<1> SUFFICES ASSUME Init PROVE Inv
  OBVIOUS
<1>1. sessions = <<>> /\ sessions \in Seq(Session) /\ Len(sessions) = 0 /\ DOMAIN sessions = {}
  BY DEF Init
<1>2. RequestOK(Nothing, 0) /\ Nothing \in Request /\ OthersRevoked(Nothing, sessions)
  <2>1. RequestOK(Nothing, 0)
    BY NothingOK, SessionsAssumption
  <2> QED
    BY <1>1, <2>1 DEF RequestOK, OthersRevoked
<1>3. \A b \in Tabs : request[b] = Nothing
  BY DEF Init
<1>4. RequestsInv
  BY <1>1, <1>2, <1>3 DEF RequestsInv
<1>5. TypeOK
  <2>1. request \in [Tabs -> Request]
    BY <1>2 DEF Init
  <2>2. cookie \in [Browsers -> 0..Len(sessions)]
    BY <1>1 DEF Init
  <2>3. password \in [Users -> Acceptable \cup {NoPassword}] /\ closed \in [Users -> 0..MaxSessions]
    BY SessionsAssumption DEF Init
  <2>4. now \in 0..MaxTime /\ faults \in 0..MaxFaults /\ requests \in 0..MaxRequests /\ Len(sessions) <= MaxSessions
    BY <1>1, SessionsAssumption DEF Init
  <2> QED
    BY <1>1, <2>1, <2>2, <2>3, <2>4 DEF Init, TypeOK
<1>6. ClosedInv /\ IdleWithinAbsolute
  BY <1>1 DEF ClosedInv, ChangeClosesEarlierSessions, IdleWithinAbsolute, Init
<1> QED
  BY <1>4, <1>5, <1>6 DEF Inv

LEMMA NextInv == ASSUME Inv, [Next]_vars PROVE Inv'
<1> USE SessionsAssumption
<1>1. CASE UNCHANGED vars
  BY <1>1, ProcessSteps DEF vars, bounds, Inv, TypeOK
<1>2. CASE Bootstrap
  <2>1. password' \in [Users -> Acceptable \cup {NoPassword}]
    BY <1>2 DEF Bootstrap, tables, Inv, TypeOK
  <2> QED
    BY <1>2, <2>1, ProcessSteps DEF Bootstrap, tables, bounds, Inv, TypeOK
<1>3. CASE Restart
  BY <1>3, FaultTypes, ProcessSteps DEF Restart, tables, Inv, TypeOK
<1>4. CASE Tick
  <2>1. now' \in 0..MaxTime
    BY <1>4 DEF Tick, Inv, TypeOK
  <2>2. /\ UNCHANGED <<password, sessions, legacy>>
        /\ UNCHANGED <<limiter, boot, browser, overlap, cookie, request, faults, requests, closed>>
    BY <1>4 DEF Tick, tables
  <2> QED
    BY <2>1, <2>2, ProcessSteps DEF Inv, TypeOK
<1>5. ASSUME NEW b \in Tabs, Serve(b)
      PROVE  Inv'
  BY <1>5, ArriveKeeps, ExpireKeeps, KeepAliveKeeps, RefreshCSRFKeeps, LogoutKeeps, CheckKeeps, FailureKeeps,
     SuccessKeeps, LookupKeeps, UpgradeKeeps, CreateUserKeeps, NewSessionKeeps, RotateKeeps, FindOwnerKeeps,
     UpdatePasswordKeeps, RevokeOthersKeeps, RevokeOwnKeeps DEF Serve, Authenticate, Attempt, ChangePassword
<1> QED
  BY <1>1, <1>2, <1>3, <1>4, <1>5 DEF Next

\* Every step changes the table of sessions by one of the statements.
LEMMA NextGrown == ASSUME Inv, [Next]_vars PROVE Grown
<1>1. CASE UNCHANGED sessions
  BY <1>1, UnchangedGrown
<1>2. ASSUME NEW b \in Tabs, Serve(b), sessions' # sessions
      PROVE  Grown
  <2>1. CASE ExpireSession(b) \/ Logout(b) \/ Rotate(b) \/ RevokeOwn(b)
    BY <1>2, <2>1, RevokeGrown DEF ExpireSession, Logout, Rotate, RevokeOwn
  <2>2. CASE KeepAlive(b)
    <3>1. request[b].presents \in DOMAIN sessions /\ request[b].at \in Nat
      BY <2>2, RequestFacts, TableTypes DEF KeepAlive, At, RequestOK, Inv
    <3> QED
      BY <1>2, <2>2, <3>1, RefreshGrown DEF KeepAlive
  <2>3. CASE RefreshCSRF(b)
    <3>1. request[b].session \in DOMAIN sessions /\ now \in Nat
      BY <2>3, RequestFacts, TableTypes, SessionsAssumption DEF RefreshCSRF, At, RequestOK, Inv, TypeOK
    <3> QED
      BY <1>2, <2>3, <3>1, RefreshGrown DEF RefreshCSRF
  <2>4. CASE NewSession(b)
    BY <1>2, <2>4, RequestFacts, AppendGrown DEF NewSession
  <2>5. CASE RevokeOthers(b)
    BY <1>2, <2>5, RevokeOthersGrown DEF RevokeOthers
  <2>6. ~(Arrive(b) \/ Check(b) \/ Failure(b) \/ Success(b) \/ Lookup(b) \/ Upgrade(b) \/ CreateUser(b)
          \/ FindOwner(b) \/ UpdatePassword(b))
    BY <1>2 DEF Arrive, Check, Failure, Success, Lookup, Upgrade, CreateUser, FindOwner, UpdatePassword, tables
  <2> QED
    BY <1>2, <2>1, <2>2, <2>3, <2>4, <2>5, <2>6 DEF Serve, Authenticate, Attempt, ChangePassword
<1>3. CASE UNCHANGED vars \/ Bootstrap \/ Restart \/ Tick
  BY <1>1, <1>3 DEF vars, Bootstrap, Restart, Tick, tables
<1> QED
  BY <1>1, <1>2, <1>3 DEF Next

-----------------------------------------------------------------------------

\* The inductive invariant: types, what each request has checked, and what
\* each password change has left open.
THEOREM SessionsInvariant == Spec => []Inv
  BY InitInv, NextInv, PTL DEF Spec

\* However refreshes, log-ins, log-outs and password changes of any number of
\* browsers interleave, the rows keep their types, no idle expiry passes the
\* absolute one, and a completed password change has closed every session of
\* the user that it found (auth.go:331, auth.go:387).
THEOREM SessionsDoEnd == Spec => []SessionsEnd
<1>1. Inv => SessionsEnd
  BY DEF Inv, ClosedInv, SessionsEnd
<1> QED
  BY <1>1, SessionsInvariant, PTL

\* A session that was revoked is never open again, and its row never changes,
\* although every request refreshes a row that it read before
\* (auth_repository.go:99).
THEOREM RevocationIsFinal == Spec => RevokedForGood
<1> DEFINE Unchanged == \A s \in DOMAIN sessions : sessions[s].revoked => sessions'[s] = sessions[s]
<1>1. Inv /\ [Next]_vars => [Unchanged]_sessions
  BY NextGrown DEF Grown
<1> QED
  BY <1>1, SessionsInvariant, PTL DEF Spec, RevokedForGood

-----------------------------------------------------------------------------
(* The limiter of credential attempts.                                     *)

\* No failure is of a time to come, which Check relies on when it compares.
LimiterInv ==
  /\ limiter \in [Users -> [failures: Seq(0..now), lockedUntil: Nat, windows: Nat]]
  /\ FailuresBounded
  /\ LockEndsInTime

\* The stages of an attempt that the limiter has let pass.
Passed == {"lookup", "create", "failure"}

LEMMA LimiterTypes ==
  ASSUME Inv, LimiterInv, NEW u \in Users
  PROVE  LET e == limiter[u] IN
         /\ e \in [failures: Seq(0..now), lockedUntil: Nat, windows: Nat]
         /\ e.failures \in Seq(0..now) /\ Len(e.failures) \in Nat
         /\ e.lockedUntil \in Nat /\ e.windows \in Nat /\ now \in Nat
         /\ \A i \in 1..Len(e.failures) : e.failures[i] \in 0..now
         /\ e.failures # <<>> <=> Len(e.failures) # 0
         /\ IsFiniteSet(UnderWay(u)) /\ Cardinality(UnderWay(u)) \in Nat
         /\ Cardinality(Tabs) \in Nat /\ Cardinality(UnderWay(u)) <= Cardinality(Tabs)
<1>1. /\ limiter[u] \in [failures: Seq(0..now), lockedUntil: Nat, windows: Nat] /\ now \in Nat
  BY SessionsAssumption DEF LimiterInv, Inv, TypeOK
<1>2. limiter[u].failures \in Seq(0..now) /\ limiter[u].lockedUntil \in Nat /\ limiter[u].windows \in Nat
  BY <1>1
<1>3. /\ Len(limiter[u].failures) \in Nat
      /\ \A i \in 1..Len(limiter[u].failures) : limiter[u].failures[i] \in 0..now
      /\ limiter[u].failures # <<>> <=> Len(limiter[u].failures) # 0
  BY <1>2, LenProperties, EmptySeq
<1>4. UnderWay(u) \subseteq Tabs
  BY DEF UnderWay
<1>5. /\ IsFiniteSet(UnderWay(u)) /\ Cardinality(UnderWay(u)) \in Nat
      /\ Cardinality(Tabs) \in Nat /\ Cardinality(UnderWay(u)) <= Cardinality(Tabs)
  BY <1>4, SessionsAssumption, FS_Subset, FS_CardinalityType
<1> QED
  BY <1>1, <1>2, <1>3, <1>5

\* The attempts under way with an address after a request has moved on.
LEMMA UnderWayMoves ==
  ASSUME Inv, NEW b \in Tabs, NEW r, Move(b, r), NEW u \in Users
  PROVE  /\ \A c \in Tabs : c # b => (c \in UnderWay(u)' <=> c \in UnderWay(u))
         /\ b \in UnderWay(u)' <=> r.user = u /\ r.stage \in Passed
         /\ UnderWay(u)' \subseteq Tabs
<1>1. \/ request' = [request EXCEPT ![b] = Nothing] /\ r.stage = "respond"
      \/ request' = [request EXCEPT ![b] = r]
  BY DEF Move
<1>2. request \in [Tabs -> Request]
  BY DEF Inv, TypeOK
<1>3. Nothing.stage \notin Passed
  BY DEF Nothing, Passed
<1>4. \A c \in Tabs : request'[c] = IF c = b THEN (request'[b]) ELSE request[c]
  BY <1>1, <1>2
<1>5. request'[b] = r \/ (request'[b] = Nothing /\ r.stage = "respond")
  BY <1>1, <1>2
<1>6. "respond" \notin Passed
  BY DEF Passed
<1>7. \A c \in Tabs : c \in UnderWay(u)' <=> request'[c].user = u /\ request'[c].stage \in Passed
  BY DEF UnderWay, Passed
<1>8. \A c \in Tabs : c \in UnderWay(u) <=> request[c].user = u /\ request[c].stage \in Passed
  BY DEF UnderWay, Passed
<1>9. UnderWay(u)' \subseteq Tabs
  BY DEF UnderWay
<1> QED
  BY <1>3, <1>4, <1>5, <1>6, <1>7, <1>8, <1>9

\* A set that loses an element, or none.
LEMMA Fewer ==
  ASSUME NEW S, IsFiniteSet(S), NEW R \in SUBSET S
  PROVE  /\ Cardinality(R) \in Nat /\ Cardinality(S) \in Nat /\ Cardinality(R) <= Cardinality(S)
         /\ \A x \in S : x \notin R => Cardinality(R) + 1 <= Cardinality(S)
<1>1. /\ IsFiniteSet(R) /\ Cardinality(R) \in Nat /\ Cardinality(S) \in Nat
      /\ Cardinality(R) <= Cardinality(S)
  BY FS_Subset, FS_CardinalityType
<1>2. ASSUME NEW x \in S, x \notin R
      PROVE  Cardinality(R) + 1 <= Cardinality(S)
  <2>1. R \in SUBSET (S \ {x})
    BY <1>2
  <2>2. IsFiniteSet(S \ {x}) /\ Cardinality(S \ {x}) = Cardinality(S) - 1
    BY FS_RemoveElement
  <2>3. Cardinality(R) <= Cardinality(S \ {x})
    BY <2>1, <2>2, FS_Subset
  <2> QED
    BY <1>1, <2>2, <2>3
<1> QED
  BY <1>1, <1>2

\* One address of the limiter changes, or none, and attempts leave it.
LEMMA LimiterKeeps ==
  ASSUME Inv, LimiterInv, now' = now, NEW u \in Users, NEW entry,
         limiter' = [limiter EXCEPT ![u] = entry],
         entry \in [failures: Seq(0..now), lockedUntil: Nat, windows: Nat],
         Len(entry.failures) + Cardinality(UnderWay(u)') <= MaxFailures - 1 + Cardinality(Tabs),
         entry.lockedUntil <= IF entry.failures = <<>> THEN now ELSE Last(entry.failures) + Window + MaxCooldown,
         \A v \in Users : v # u => UnderWay(v)' \subseteq UnderWay(v)
  PROVE  LimiterInv'
<1>1. limiter' \in [Users -> [failures: Seq(0..now), lockedUntil: Nat, windows: Nat]]
  BY DEF LimiterInv
<1>2. limiter'[u] = entry /\ \A v \in Users : v # u => limiter'[v] = limiter[v]
  BY DEF LimiterInv
<1>3. ASSUME NEW v \in Users
      PROVE  Len(limiter'[v].failures) + Cardinality(UnderWay(v)') <= MaxFailures - 1 + Cardinality(Tabs)
  <2>1. CASE v = u
    BY <1>2, <2>1
  <2>2. CASE v # u
    <3>1. Cardinality(UnderWay(v)') \in Nat /\ Cardinality(UnderWay(v)') <= Cardinality(UnderWay(v))
      BY <2>2, LimiterTypes, Fewer
    <3>2. Len(limiter[v].failures) + Cardinality(UnderWay(v)) <= MaxFailures - 1 + Cardinality(Tabs)
      BY DEF LimiterInv, FailuresBounded
    <3> QED
      BY <1>2, <2>2, <3>1, <3>2, LimiterTypes, SessionsAssumption
  <2> QED
    BY <2>1, <2>2
<1>4. FailuresBounded'
  BY <1>3 DEF FailuresBounded
<1>5. LockEndsInTime'
  BY <1>2 DEF LimiterInv, LockEndsInTime
<1> QED
  BY <1>1, <1>4, <1>5 DEF LimiterInv

\* A step of a request that has nothing to do with the limiter.
LEMMA LimiterAside ==
  ASSUME Inv, LimiterInv, UNCHANGED <<limiter, now>>, NEW b \in Tabs, NEW r, Move(b, r),
         r.stage \in Passed => request[b].stage \in Passed /\ request[b].user = r.user
  PROVE  LimiterInv'
<1>1. ASSUME NEW u \in Users
      PROVE  UnderWay(u)' \subseteq UnderWay(u)
  BY UnderWayMoves DEF UnderWay, Passed
<1>2. limiter' \in [Users -> [failures: Seq(0..now), lockedUntil: Nat, windows: Nat]]
  BY DEF LimiterInv
<1>3. ASSUME NEW u \in Users
      PROVE  Len(limiter'[u].failures) + Cardinality(UnderWay(u)') <= MaxFailures - 1 + Cardinality(Tabs)
  <2>1. Cardinality(UnderWay(u)') \in Nat /\ Cardinality(UnderWay(u)') <= Cardinality(UnderWay(u))
    BY <1>1, LimiterTypes, Fewer
  <2>2. Len(limiter[u].failures) + Cardinality(UnderWay(u)) <= MaxFailures - 1 + Cardinality(Tabs)
    BY DEF LimiterInv, FailuresBounded
  <2> QED
    BY <2>1, <2>2, LimiterTypes, SessionsAssumption
<1>4. FailuresBounded'
  BY <1>3 DEF FailuresBounded
<1>5. LockEndsInTime'
  BY DEF LimiterInv, LockEndsInTime
<1> QED
  BY <1>2, <1>4, <1>5 DEF LimiterInv

\* The failures of the window are some of those recorded, the last one included.
LEMMA KeptFacts ==
  ASSUME Inv, LimiterInv, NEW u \in Users
  PROVE  /\ Kept(u) \in Seq(0..now) /\ Len(Kept(u)) \in Nat
         /\ Len(Kept(u)) <= Len(limiter[u].failures)
         /\ Kept(u) # <<>> => Last(Kept(u)) \in 0..now /\ now < Last(Kept(u)) + Window
<1> DEFINE f == limiter[u].failures
           I == {i \in DOMAIN f : f[i] + Window > now}
<1>1. f \in Seq(0..now) /\ now \in Nat
  BY LimiterTypes
<1>2. PICK r : r = Subsequence(f, I)
  OBVIOUS
<1>3. r \in Seq(0..now) /\ Len(r) <= Len(f) /\ IsPicked(r, f, I, Len(f))
  BY <1>1, <1>2, SubsequenceFacts
<1>4. Kept(u) = r
  BY <1>2 DEF Kept
<1>5. ASSUME r # <<>>
      PROVE  Last(r) \in 0..now /\ now < Last(r) + Window
  <2>1. Len(r) \in 1..Len(r) /\ Last(r) = r[Len(r)] /\ Last(r) \in 0..now
    <3>1. Len(r) \in Nat /\ Len(r) # 0
      BY <1>3, <1>5, LenProperties, EmptySeq
    <3>2. \A i \in 1..Len(r) : r[i] \in 0..now
      BY <1>3, LenProperties
    <3> QED
      BY <3>1, <3>2 DEF Last
  <2>2. PICK at \in [1..Len(r) -> 1..Len(f)] : \A k \in 1..Len(r) : at[k] \in I /\ r[k] = f[at[k]]
    BY <1>3 DEF IsPicked
  <2>3. f[at[Len(r)]] + Window > now /\ Last(r) = f[at[Len(r)]]
    BY <2>1, <2>2
  <2>4. Last(r) \in Nat /\ Window \in Nat
    BY <1>1, <2>1, SessionsAssumption
  <2> QED
    BY <1>1, <2>1, <2>3, <2>4
<1>6. Len(r) \in Nat
  BY <1>3, LenProperties
<1> QED
  BY <1>3, <1>4, <1>5, <1>6

\* The check drops the failures that are older than the window.  It locks the
\* address when those left are too many, and otherwise lets the attempt pass.
LEMMA CheckLimits ==
  ASSUME Inv, LimiterInv, NEW b \in Tabs, Check(b)
  PROVE  LimiterInv'
<1>0. PICK u : u = request[b].user
  OBVIOUS
<1> DEFINE r == request[b]
           e == limiter[u]
           k == Kept(u)
           stage == CASE r.kind = "login"    -> "lookup"
                      [] r.kind = "register" -> IF PolicyAllows(r.given) THEN "create" ELSE "failure"
                      [] r.kind = "change"   -> IF r.given = r.hash /\ PolicyAllows(r.next)
                                                THEN "update" ELSE "failure"
           to(st) == [r EXCEPT !.stage = st]
<1>1. now' = now /\ r.stage = "check"
  BY DEF Check, bounds, At
<1>2. u \in Users /\ r \in Request /\ r.user = u
  BY <1>0, RequestFacts
<1>3. \A st : to(st).user = u /\ to(st).stage = st
  BY <1>2 DEF Request
<1>4. e \in [failures: Seq(0..now), lockedUntil: Nat, windows: Nat] /\ e.failures \in Seq(0..now)
  BY <1>2, LimiterTypes
<1>5. \A v \in Users : b \notin UnderWay(v)
  BY <1>1 DEF UnderWay
<1>6. k \in Seq(0..now) /\ Len(k) \in Nat /\ Len(k) <= Len(e.failures)
      /\ (k # <<>> => Last(k) \in 0..now /\ now < Last(k) + Window)
  BY <1>2, KeptFacts
<1>7. MaxFailures \in Nat /\ MaxFailures # 0 /\ MaxCooldown \in Nat /\ Window \in Nat /\ now \in Nat
      /\ Cardinality(Tabs) \in Nat /\ e.windows \in Nat /\ e.lockedUntil \in Nat
  BY <1>2, LimiterTypes, SessionsAssumption
<1>8. CASE now < e.lockedUntil
  <2>1. Move(b, to("respond")) /\ UNCHANGED limiter
    BY <1>0, <1>8 DEF Check, Goto
  <2> QED
    BY <1>1, <1>3, <2>1, LimiterAside DEF Passed
<1>9. CASE ~ (now < e.lockedUntil) /\ TooMany(k)
  <2> DEFINE until == now + Lesser(e.windows + 1, MaxCooldown)
             entry == [failures |-> k, windows |-> e.windows + 1, lockedUntil |-> until]
  <2>1. Move(b, to("respond")) /\ limiter' = [limiter EXCEPT ![u] = entry]
    BY <1>0, <1>9 DEF Check, Goto
  <2>2. until \in Nat /\ until <= now + MaxCooldown
    BY <1>7 DEF Lesser
  <2> HIDE DEF k, e, until
  <2>3. entry \in [failures: Seq(0..now), lockedUntil: Nat, windows: Nat]
    BY <1>6, <1>7, <2>2
  <2>4. k # <<>>
    BY <1>6, <1>7, <1>9, EmptySeq DEF TooMany
  <2>5. entry.lockedUntil <= IF entry.failures = <<>> THEN now ELSE Last(entry.failures) + Window + MaxCooldown
    BY <1>6, <1>7, <2>2, <2>4
  <2>6. \A v \in Users : UnderWay(v)' \subseteq UnderWay(v)
    <3> SUFFICES ASSUME NEW v \in Users
                 PROVE  UnderWay(v)' \subseteq UnderWay(v)
      OBVIOUS
    <3> HIDE DEF to
    <3> QED
      BY <1>3, <2>1, UnderWayMoves DEF Passed
  <2>7. Len(k) + Cardinality(UnderWay(u)') <= MaxFailures - 1 + Cardinality(Tabs)
    <3>1. Cardinality(UnderWay(u)') \in Nat /\ Cardinality(UnderWay(u)') <= Cardinality(UnderWay(u))
      BY <1>2, <2>6, LimiterTypes, Fewer
    <3>2. Len(e.failures) + Cardinality(UnderWay(u)) <= MaxFailures - 1 + Cardinality(Tabs)
      BY <1>2 DEF LimiterInv, FailuresBounded, e
    <3> QED
      BY <1>2, <1>4, <1>6, <1>7, <3>1, <3>2, LimiterTypes, LenProperties
  <2>8. entry.failures = k
    OBVIOUS
  <2> HIDE DEF entry
  <2> QED
    BY <1>1, <1>2, <2>1, <2>3, <2>5, <2>6, <2>7, <2>8, LimiterKeeps
<1>10. CASE ~ (now < e.lockedUntil) /\ ~ TooMany(k)
  <2> DEFINE entry == [e EXCEPT !.failures = k]
  <2>1. Move(b, to(stage)) /\ limiter' = [limiter EXCEPT ![u].failures = k]
    BY <1>0, <1>10 DEF Check, Goto
  <2>2. limiter' = [limiter EXCEPT ![u] = entry]
    BY <2>1 DEF LimiterInv
  <2> HIDE DEF k, stage
  <2>3. entry \in [failures: Seq(0..now), lockedUntil: Nat, windows: Nat]
        /\ entry.failures = k /\ entry.lockedUntil = e.lockedUntil
    BY <1>4, <1>6
  <2> HIDE DEF e, entry
  <2>4. Len(k) <= MaxFailures - 1
    BY <1>6, <1>7, <1>10 DEF TooMany
  <2>5. entry.lockedUntil <= IF entry.failures = <<>> THEN now ELSE Last(entry.failures) + Window + MaxCooldown
    BY <1>6, <1>7, <1>10, <2>3
  <2>6. \A v \in Users : v # u => UnderWay(v)' \subseteq UnderWay(v)
    <3> SUFFICES ASSUME NEW v \in Users, v # u
                 PROVE  UnderWay(v)' \subseteq UnderWay(v)
      OBVIOUS
    <3> HIDE DEF to
    <3> QED
      BY <1>3, <2>1, UnderWayMoves
  <2>7. Cardinality(UnderWay(u)') \in Nat /\ Cardinality(UnderWay(u)') <= Cardinality(Tabs)
    <3>1. UnderWay(u)' \subseteq Tabs
      BY DEF UnderWay
    <3> QED
      BY <3>1, SessionsAssumption, Fewer
  <2>8. Len(entry.failures) + Cardinality(UnderWay(u)') <= MaxFailures - 1 + Cardinality(Tabs)
    BY <1>6, <1>7, <2>3, <2>4, <2>7
  <2> QED
    BY <1>1, <1>2, <2>2, <2>3, <2>5, <2>6, <2>8, LimiterKeeps
<1> QED
  BY <1>8, <1>9, <1>10

\* A failure is counted when its attempt is over.
LEMMA FailureLimits ==
  ASSUME Inv, LimiterInv, NEW b \in Tabs, Failure(b)
  PROVE  LimiterInv'
<1>0. PICK u : u = request[b].user
  OBVIOUS
<1> DEFINE r == request[b]
           e == limiter[u]
           to == [r EXCEPT !.stage = "respond"]
           entry == [e EXCEPT !.failures = Append(e.failures, now)]
<1>1. now' = now /\ r.stage = "failure" /\ Move(b, to)
  BY DEF Failure, bounds, At, Goto
<1>2. u \in Users /\ r \in Request /\ r.user = u
  BY <1>0, RequestFacts
<1>3. to.user = u /\ to.stage = "respond"
  BY <1>2 DEF Request
<1>4. /\ e \in [failures: Seq(0..now), lockedUntil: Nat, windows: Nat] /\ e.failures \in Seq(0..now)
      /\ Len(e.failures) \in Nat /\ now \in Nat /\ e.lockedUntil \in Nat
      /\ \A i \in 1..Len(e.failures) : e.failures[i] \in 0..now
      /\ e.failures # <<>> <=> Len(e.failures) # 0
  BY <1>2, LimiterTypes
<1>5. limiter' = [limiter EXCEPT ![u] = entry]
  BY <1>0 DEF Failure, LimiterInv
<1> DEFINE more == Append(e.failures, now)
<1>6. /\ more \in Seq(0..now) /\ Len(more) = Len(e.failures) + 1 /\ more[Len(e.failures) + 1] = now
      /\ more # <<>> /\ Last(more) = now
  BY <1>4, AppendProperties, EmptySeq DEF Last
<1> HIDE DEF more
<1>7. entry.failures = more /\ entry.lockedUntil = e.lockedUntil
      /\ entry \in [failures: Seq(0..now), lockedUntil: Nat, windows: Nat]
  BY <1>4, <1>6 DEF more
<1> HIDE DEF entry, to
<1>8. e.lockedUntil <= now + Window + MaxCooldown
  <2>1. e.lockedUntil <= IF e.failures = <<>> THEN now ELSE Last(e.failures) + Window + MaxCooldown
    BY <1>2 DEF LimiterInv, LockEndsInTime
  <2>2. e.failures # <<>> => Last(e.failures) \in Nat /\ Last(e.failures) <= now
    BY <1>4 DEF Last
  <2> HIDE DEF e
  <2> QED
    BY <1>4, <2>1, <2>2, SessionsAssumption
<1>9. entry.lockedUntil <= IF entry.failures = <<>> THEN now ELSE Last(entry.failures) + Window + MaxCooldown
  BY <1>6, <1>7, <1>8
<1>10. \A v \in Users : UnderWay(v)' \subseteq UnderWay(v) /\ b \notin UnderWay(v)'
  <2> SUFFICES ASSUME NEW v \in Users
               PROVE  UnderWay(v)' \subseteq UnderWay(v) /\ b \notin UnderWay(v)'
    OBVIOUS
  <2> QED
    BY <1>1, <1>3, UnderWayMoves DEF Passed
<1>11. b \in UnderWay(u)
  BY <1>0, <1>1 DEF UnderWay
<1>12. Len(entry.failures) + Cardinality(UnderWay(u)') <= MaxFailures - 1 + Cardinality(Tabs)
  <2>1. /\ Cardinality(UnderWay(u)') \in Nat /\ Cardinality(UnderWay(u)) \in Nat
        /\ Cardinality(UnderWay(u)') + 1 <= Cardinality(UnderWay(u))
    BY <1>2, <1>10, <1>11, LimiterTypes, Fewer
  <2>2. Len(e.failures) + Cardinality(UnderWay(u)) <= MaxFailures - 1 + Cardinality(Tabs)
    BY <1>2 DEF LimiterInv, FailuresBounded
  <2>3. Cardinality(Tabs) \in Nat /\ MaxFailures \in Nat
    BY <1>2, LimiterTypes, SessionsAssumption
  <2> QED
    BY <1>4, <1>6, <1>7, <2>1, <2>2, <2>3
<1> QED
  BY <1>1, <1>2, <1>5, <1>7, <1>9, <1>10, <1>12, LimiterKeeps

\* A success forgets the failures and the locks.
LEMMA SuccessLimits ==
  ASSUME Inv, LimiterInv, NEW b \in Tabs, Success(b)
  PROVE  LimiterInv'
<1>0. PICK u : u = request[b].user
  OBVIOUS
<1> DEFINE r == request[b]
           to(st) == [r EXCEPT !.stage = st]
<1>1. now' = now /\ now \in Nat /\ limiter' = [limiter EXCEPT ![u] = Fresh]
  BY <1>0, SessionsAssumption DEF Success, bounds, Inv, TypeOK
<1>2. PICK st \in {"respond", "session"} : Move(b, to(st))
  BY DEF Success, Goto
<1>3. u \in Users /\ r \in Request /\ r.user = u
  BY <1>0, RequestFacts
<1>4. to(st).user = u /\ to(st).stage = st
  BY <1>3 DEF Request
<1> HIDE DEF to
<1>5. \A v \in Users : UnderWay(v)' \subseteq UnderWay(v)
  <2> SUFFICES ASSUME NEW v \in Users
               PROVE  UnderWay(v)' \subseteq UnderWay(v)
    OBVIOUS
  <2> QED
    BY <1>2, <1>4, UnderWayMoves DEF Passed
<1>6. /\ Cardinality(UnderWay(u)') \in Nat /\ Cardinality(UnderWay(u)') <= Cardinality(Tabs)
      /\ Cardinality(Tabs) \in Nat
  <2>1. UnderWay(u)' \subseteq Tabs
    BY DEF UnderWay
  <2> QED
    BY <2>1, SessionsAssumption, Fewer
<1>7. Fresh.failures = <<>> /\ Fresh.lockedUntil = 0 /\ <<>> \in Seq(0..now) /\ Len(<<>>) = 0
      /\ Fresh \in [failures: Seq(0..now), lockedUntil: Nat, windows: Nat]
  BY DEF Fresh
<1>8. Len(Fresh.failures) + Cardinality(UnderWay(u)') <= MaxFailures - 1 + Cardinality(Tabs)
  BY <1>6, <1>7, SessionsAssumption
<1>9. Fresh.lockedUntil <= IF Fresh.failures = <<>> THEN now ELSE Last(Fresh.failures) + Window + MaxCooldown
  BY <1>1, <1>7
<1> QED
  BY <1>1, <1>3, <1>5, <1>7, <1>8, <1>9, LimiterKeeps

\* Where a request goes on after the middleware.
LEMMA EnterMoves ==
  ASSUME NEW b \in Tabs, NEW r \in Request, NEW s \in 0..MaxSessions, NEW answer \in {Keep, 0},
         Enter(b, r, s, answer)
  PROVE  \E q \in Request :
           /\ Move(b, q) /\ q.kind = r.kind /\ q.presents = r.presents /\ q.session = s
           /\ q.answer = IF r.kind = "logout" /\ s = 0 THEN 0 ELSE answer
           /\ q.stage \in {"respond", "csrf", "logout", "owner", "check"}
           /\ q.stage \in {"owner", "check"} => q.kind \in SetsCookie
<1> DEFINE a == IF r.kind = "logout" /\ s = 0 THEN 0 ELSE answer
           q(stage) == [r EXCEPT !.stage = stage, !.session = s, !.answer = a]
<1>1. PICK stage \in Handler(r.kind, s) : Move(b, q(stage))
  BY DEF Enter
<1>2. /\ stage \in {"respond", "csrf", "logout", "owner", "check"}
      /\ stage \in {"owner", "check"} => r.kind \in SetsCookie
  BY <1>1, SMTT(30) DEF Handler, Request, Kinds, SetsCookie
<1>3. stage \in Stages /\ a \in {Keep} \cup 0..MaxSessions
  BY <1>2, SessionsAssumption DEF Stages
<1>4. q(stage) \in Request /\ q(stage).stage = stage /\ q(stage).kind = r.kind
      /\ q(stage).presents = r.presents /\ q(stage).session = s /\ q(stage).answer = a
  BY <1>3 DEF Request
<1> HIDE DEF q
<1> QED
  BY <1>1, <1>2, <1>4

\* What a request asks for becomes one that the middleware looks at.
LEMMA ArriveMoves ==
  ASSUME Inv, NEW b \in Tabs, Arrive(b)
  PROVE  \E q \in Request :
           /\ Move(b, q) /\ q.presents = cookie[browser[b]] /\ q.session = 0 /\ q.answer \in {0, Keep}
           /\ overlap' = (overlap \/ Beside(b, q.kind))
           /\ \/ q.stage \in {"refresh", "expire"} /\ q.answer = Keep /\ Works
              \/ /\ q.stage \in {"respond", "csrf", "logout", "owner", "check"}
                 /\ q.stage \in {"owner", "check"} => q.kind \in SetsCookie
                 /\ Fails \/ (Works /\ (q.presents = 0 \/ sessions[q.presents].revoked))
<1> DEFINE k == cookie[browser[b]]
           r(asked) == [asked EXCEPT !.presents = k]
<1>1. k \in 0..Len(sessions) /\ k \in 0..MaxSessions /\ 0 \in 0..MaxSessions /\ now \in 0..MaxTime
  BY TableTypes DEF Inv, TypeOK
<1>2. PICK asked \in Asked :
        /\ overlap' = (overlap \/ Beside(b, r(asked).kind))
        /\ LET s == r(asked).presents IN
           \/ s = 0 /\ Enter(b, r(asked), 0, Keep) /\ Works
           \/ s # 0 /\ Enter(b, r(asked), 0, Keep) /\ Fails
           \/ s # 0 /\ sessions[s].revoked /\ Enter(b, r(asked), 0, 0) /\ Works
           \/ /\ s # 0 /\ ~sessions[s].revoked /\ Works
              /\ Move(b, [r(asked) EXCEPT !.stage = IF Open(s, now) THEN "refresh" ELSE "expire", !.at = now])
  BY DEF Arrive
<1>3. PICK a : a = r(asked)
  OBVIOUS
<1>4. a \in Request /\ a.presents = k /\ a.session = 0 /\ a.answer = Keep
  BY <1>1, <1>3, AskedTypes
<1>5. /\ overlap' = (overlap \/ Beside(b, a.kind))
      /\ \/ k = 0 /\ Enter(b, a, 0, Keep) /\ Works
         \/ k # 0 /\ Enter(b, a, 0, Keep) /\ Fails
         \/ k # 0 /\ sessions[k].revoked /\ Enter(b, a, 0, 0) /\ Works
         \/ /\ \E stage \in {"refresh", "expire"} : Move(b, [a EXCEPT !.stage = stage, !.at = now])
            /\ Works
  BY <1>2, <1>3, <1>4
<1> HIDE DEF r
<1>6. CASE k = 0 /\ Enter(b, a, 0, Keep) /\ Works
  BY <1>1, <1>4, <1>5, <1>6, EnterMoves
<1>7. CASE k # 0 /\ Enter(b, a, 0, Keep) /\ Fails
  BY <1>1, <1>4, <1>5, <1>7, EnterMoves
<1>8. CASE k # 0 /\ sessions[k].revoked /\ Enter(b, a, 0, 0) /\ Works
  BY <1>1, <1>4, <1>5, <1>8, EnterMoves
<1>9. CASE /\ \E stage \in {"refresh", "expire"} : Move(b, [a EXCEPT !.stage = stage, !.at = now])
           /\ Works
  <2>1. PICK stage \in {"refresh", "expire"} : Move(b, [a EXCEPT !.stage = stage, !.at = now])
    BY <1>9
  <2> DEFINE q == [a EXCEPT !.stage = stage, !.at = now]
  <2>2. /\ q \in Request /\ q.stage = stage /\ q.presents = k /\ q.session = 0 /\ q.answer = Keep
        /\ q.kind = a.kind
    BY <1>1, <1>4 DEF Request, Stages
  <2> HIDE DEF q
  <2>3. Move(b, q)
    BY <2>1 DEF q
  <2> QED
    BY <1>5, <1>9, <2>2, <2>3
<1> QED
  BY <1>5, <1>6, <1>7, <1>8, <1>9

LEMMA NextLimits ==
  ASSUME Inv, LimiterInv, [Next]_vars
  PROVE  LimiterInv'
<1>1. ASSUME NEW b \in Tabs, Serve(b), ~Check(b), ~Failure(b), ~Success(b)
      PROVE  LimiterInv'
  <2> DEFINE r == request[b]
             to(st) == [r EXCEPT !.stage = st]
  <2>1. r \in Request /\ r.user \in Users /\ \A st : to(st).stage = st /\ to(st).user = r.user
    BY RequestFacts DEF Request
  <2>2. UNCHANGED <<limiter, now>>
    BY <1>1 DEF Serve, Authenticate, Attempt, ChangePassword, Arrive, ExpireSession, KeepAlive, RefreshCSRF,
       Logout, Lookup, Upgrade, CreateUser, NewSession, Rotate, FindOwner, UpdatePassword, RevokeOthers, RevokeOwn
  <2>3. 0 \in 0..MaxSessions /\ r.presents \in 0..MaxSessions
    BY <2>1, SessionsAssumption DEF Request
  <2>4. CASE Arrive(b)
    BY <2>2, <2>4, ArriveMoves, LimiterAside DEF Passed
  <2>5. CASE ExpireSession(b)
    <3>1. Enter(b, r, 0, 0)
      BY <2>5 DEF ExpireSession
    <3> QED
      BY <2>1, <2>2, <2>3, <3>1, EnterMoves, LimiterAside DEF Passed
  <2>6. CASE KeepAlive(b)
    <3>1. Enter(b, r, r.presents, Keep) \/ Enter(b, r, 0, Keep)
      BY <2>6 DEF KeepAlive
    <3> QED
      BY <2>1, <2>2, <2>3, <3>1, EnterMoves, LimiterAside DEF Passed
  <2>7. ASSUME NEW stage, Move(b, to(stage)), stage \notin Passed \/ r.stage \in Passed
        PROVE  LimiterInv'
    <3> HIDE DEF to
    <3> QED
      BY <2>1, <2>2, <2>7, LimiterAside
  <2>8. CASE RefreshCSRF(b) \/ Rotate(b)
    BY <2>7, <2>8 DEF RefreshCSRF, Rotate, Goto, Passed
  <2>9. CASE Logout(b)
    <3>1. Move(b, [r EXCEPT !.stage = "respond", !.answer = 0])
      BY <2>9 DEF Logout
    <3>2. [r EXCEPT !.stage = "respond", !.answer = 0].stage = "respond"
      BY <2>1 DEF Request
    <3> QED
      BY <2>2, <3>1, <3>2, LimiterAside DEF Passed
  <2>10. CASE Lookup(b) \/ CreateUser(b)
    <3>1. r.stage \in Passed
      BY <2>10 DEF Lookup, CreateUser, At, Passed
    <3> QED
      BY <2>7, <2>10, <3>1 DEF Lookup, CreateUser, Goto
  <2>11. CASE Upgrade(b)
    BY <2>7, <2>11 DEF Upgrade, Goto, Passed
  <2>12. CASE NewSession(b)
    <3> DEFINE q == [r EXCEPT !.answer = Len(sessions) + 1,
                              !.stage = IF r.kind = "change" THEN "success" ELSE "rotate"]
    <3>1. Move(b, q) \/ Move(b, to("respond"))
      BY <2>12 DEF NewSession, Goto
    <3>2. q.stage \notin Passed
      BY <2>1 DEF Request, Passed
    <3> HIDE DEF q
    <3> QED
      BY <2>2, <2>7, <3>1, <3>2, LimiterAside DEF Passed
  <2>13. CASE FindOwner(b)
    <3> DEFINE u == sessions[r.session].user
               q == [r EXCEPT !.user = u, !.hash = password[u], !.stage = "check"]
    <3>1. Move(b, q) \/ Move(b, to("respond"))
      BY <2>13 DEF FindOwner, Goto
    <3>2. q.stage \notin Passed
      BY <2>1 DEF Request, Passed
    <3> HIDE DEF q
    <3> QED
      BY <2>2, <2>7, <3>1, <3>2, LimiterAside DEF Passed
  <2>14. CASE UpdatePassword(b) \/ RevokeOwn(b)
    BY <2>7, <2>14 DEF UpdatePassword, RevokeOwn, Goto, Passed
  <2>15. CASE RevokeOthers(b)
    <3> DEFINE q == [r EXCEPT !.stage = "own", !.seen = Len(sessions)]
    <3>1. Move(b, q) \/ Move(b, to("respond"))
      BY <2>15 DEF RevokeOthers, Goto
    <3>2. q.stage \notin Passed
      BY <2>1 DEF Request, Passed
    <3> HIDE DEF q
    <3> QED
      BY <2>2, <2>7, <3>1, <3>2, LimiterAside DEF Passed
  <2> QED
    BY <1>1, <2>4, <2>5, <2>6, <2>8, <2>9, <2>10, <2>11, <2>12, <2>13, <2>14, <2>15
       DEF Serve, Authenticate, Attempt, ChangePassword
<1>2. CASE UNCHANGED <<limiter, request>> /\ now' \in Nat /\ now <= now'
  <2>1. now \in Nat /\ 0..now \subseteq 0..now'
    BY <1>2, SessionsAssumption DEF Inv, TypeOK
  <2>2. limiter' \in [Users -> [failures: Seq(0..now'), lockedUntil: Nat, windows: Nat]]
    <3>1. Seq(0..now) \subseteq Seq(0..now')
      BY <2>1, WiderSeq
    <3> QED
      BY <1>2, <3>1 DEF LimiterInv
  <2>3. FailuresBounded'
    BY <1>2 DEF LimiterInv, FailuresBounded, UnderWay
  <2>4. LockEndsInTime'
    <3> SUFFICES ASSUME NEW u \in Users
                 PROVE  limiter[u].lockedUntil <=
                          IF limiter[u].failures = <<>> THEN now' ELSE Last(limiter[u].failures) + Window + MaxCooldown
      BY <1>2 DEF LockEndsInTime
    <3>1. limiter[u].lockedUntil <=
            IF limiter[u].failures = <<>> THEN now ELSE Last(limiter[u].failures) + Window + MaxCooldown
      BY DEF LimiterInv, LockEndsInTime
    <3>2. limiter[u].lockedUntil \in Nat
      BY LimiterTypes
    <3> QED
      BY <1>2, <2>1, <3>1, <3>2
  <2> QED
    BY <2>2, <2>3, <2>4 DEF LimiterInv
<1>3. CASE Restart
  <2>1. /\ now' = now /\ now \in Nat /\ limiter' = [u \in Users |-> Fresh]
        /\ request' = [b \in Tabs |-> Nothing]
    BY <1>3, SessionsAssumption DEF Restart, Inv, TypeOK
  <2>2. Fresh.failures = <<>> /\ Fresh.lockedUntil = 0 /\ <<>> \in Seq(0..now) /\ Len(<<>>) = 0
        /\ Fresh \in [failures: Seq(0..now), lockedUntil: Nat, windows: Nat]
    BY DEF Fresh
  <2>3. \A u \in Users : Cardinality(UnderWay(u)') = 0
    <3>1. \A u \in Users : UnderWay(u)' = {}
      BY <2>1 DEF UnderWay, Nothing
    <3> QED
      BY <3>1, FS_EmptySet
  <2>4. Cardinality(Tabs) \in Nat
    BY SessionsAssumption, FS_CardinalityType
  <2>5. FailuresBounded'
    BY <2>1, <2>2, <2>3, <2>4, SessionsAssumption DEF FailuresBounded
  <2>6. LockEndsInTime'
    BY <2>1, <2>2 DEF LockEndsInTime
  <2> QED
    BY <2>1, <2>2, <2>5, <2>6 DEF LimiterInv
<1>4. CASE UNCHANGED vars \/ Bootstrap \/ Tick
  <2>1. UNCHANGED <<limiter, request>> /\ (now' = now \/ now' = now + 1)
    BY <1>4 DEF vars, Bootstrap, Tick, bounds
  <2>2. now \in Nat
    BY SessionsAssumption DEF Inv, TypeOK
  <2> QED
    BY <1>2, <2>1, <2>2
<1> QED
  BY <1>1, <1>3, <1>4, CheckLimits, FailureLimits, SuccessLimits DEF Next

LEMMA InitLimits == Init => LimiterInv
<1> SUFFICES ASSUME Init PROVE LimiterInv
  OBVIOUS
<1>1. /\ Fresh.failures = <<>> /\ Fresh.lockedUntil = 0 /\ <<>> \in Seq(0..0) /\ Len(<<>>) = 0
      /\ Fresh \in [failures: Seq(0..0), lockedUntil: Nat, windows: Nat]
  BY DEF Fresh
<1>2. now = 0 /\ limiter = [u \in Users |-> Fresh] /\ request = [b \in Tabs |-> Nothing]
  BY DEF Init
<1>3. \A u \in Users : Cardinality(UnderWay(u)) = 0
  <2>1. \A u \in Users : UnderWay(u) = {}
    BY <1>2 DEF UnderWay, Nothing
  <2> QED
    BY <2>1, FS_EmptySet
<1>4. Cardinality(Tabs) \in Nat
  BY SessionsAssumption, FS_CardinalityType
<1>5. FailuresBounded
  BY <1>1, <1>2, <1>3, <1>4, SessionsAssumption DEF FailuresBounded
<1>6. LockEndsInTime
  BY <1>1, <1>2 DEF LockEndsInTime
<1> QED
  BY <1>1, <1>2, <1>5, <1>6 DEF LimiterInv

\* However many attempts run at once, the failures counted against an address
\* and the attempts that still may fail never pass the threshold by more than
\* one for each request; and an address that is locked is open again one
\* window and one cool-down after its last failure (auth.go:481, auth.go:486).
THEOREM LimiterStopsGuessing == Spec => []LimiterHolds
<1>1. Inv /\ LimiterInv => LimiterHolds
  <2> SUFFICES ASSUME Inv, LimiterInv PROVE LimiterHolds
    OBVIOUS
  <2>1. 0..now \subseteq 0..MaxTime
    BY SessionsAssumption DEF Inv, TypeOK
  <2>2. Seq(0..now) \subseteq Seq(0..MaxTime)
    BY <2>1, WiderSeq
  <2>3. limiter \in [Users -> [failures: Seq(0..MaxTime), lockedUntil: Nat, windows: Nat]]
    BY <2>2 DEF LimiterInv
  <2> QED
    BY <2>3 DEF LimiterInv, LimiterHolds
<1>2. Inv /\ LimiterInv /\ [Next]_vars => LimiterInv'
  BY NextLimits
<1>3. Spec => []LimiterInv
  BY <1>2, InitLimits, SessionsInvariant, PTL DEF Spec
<1> QED
  BY <1>1, <1>3, SessionsInvariant, PTL

-----------------------------------------------------------------------------
(* Which requests and browsers know the open sessions.                     *)

\* The stages of requests of every kind.
Quiet == {"expire", "refresh", "csrf", "logout", "respond"}

\* The session that a request came with is no longer one to be kept.
Gone(r, table) == r.presents = 0 \/ table[r.presents].revoked

\* What a request under way, with cookie k in its browser, knows of its
\* sessions while nothing fails and no other request of the browser sets the
\* cookie: it works with the session it came with or with none, and before
\* another session takes its place in the cookie that one is gone.
Knows(r, k, table) ==
  /\ r.session \in {0, r.presents} /\ k \in {0, r.presents}
  /\ k # r.presents => Gone(r, table)
  /\ r.session = 0 /\ r.stage \notin {"expire", "refresh"} => Gone(r, table)
  /\ r.answer # Keep /\ r.stage # "rotate" => Gone(r, table)
  /\ r.kind = "change" /\ r.stage \in {"session", "success"} => Gone(r, table)
  /\ r.kind \in SetsCookie \/ r.stage \in Quiet
  /\ r.kind = "change" => r.stage \notin {"lookup", "upgrade", "create"}
  /\ r.answer \notin {0, Keep} =>
       /\ r.kind \in SetsCookie
       /\ r.stage \in {"rotate", "respond"} \/ (r.stage = "success" /\ r.kind = "change")

\* A request that may set the cookie is the only one of its browser.
Alone == \A b, c \in Tabs :
  b # c /\ browser[b] = browser[c] /\ request[b].stage # "idle" /\ request[c].stage # "idle"
    => request[b].kind \notin SetsCookie

AllKnow == \A b \in Tabs : IF request[b].stage = "idle" THEN request[b] = Nothing
                           ELSE Knows(request[b], cookie[browser[b]], sessions)

Undisturbed == faults = 0 /\ ~overlap

\* A session that somebody can still give up or present.
Held(s) == \/ \E c \in Browsers : s = cookie[c]
           \/ \E b \in Tabs : s \in {request[b].answer, request[b].session, request[b].presents}

Tracked == Undisturbed => Alone /\ AllKnow /\ \A s \in DOMAIN sessions : sessions[s].revoked \/ Held(s)

LEMMA HeldIsKept == Tracked => NoSessionLeftBehind
  BY DEF Tracked, Undisturbed, Held, NoSessionLeftBehind

\* What a request knows stays true while the table grows.
LEMMA KnowsKeeps ==
  ASSUME Inv, Grown, NEW r, r.presents \in 0..Len(sessions), NEW k, Knows(r, k, sessions)
  PROVE  Knows(r, k, sessions')
<1>1. Gone(r, sessions) => Gone(r, sessions')
  <2>1. ASSUME r.presents # 0, sessions[r.presents].revoked
        PROVE  sessions'[r.presents].revoked
    <3>1. r.presents \in DOMAIN sessions
      BY <2>1, TableTypes DEF Inv
    <3> QED
      BY <2>1, <3>1 DEF Grown
  <2> QED
    BY <2>1 DEF Gone
<1> QED
  BY <1>1, Zenon DEF Knows

\* One request moves on.
LEMMA TrackedMove ==
  ASSUME Inv, Inv', Grown, Undisturbed, Undisturbed', Alone, AllKnow,
         \A s \in DOMAIN sessions : sessions[s].revoked \/ Held(s),
         UNCHANGED browser, NEW b \in Tabs, NEW r, Move(b, r), r.stage # "idle",
         Knows(r, cookie[browser[b]], sessions'),
         \/ request[b].stage # "idle" /\ r.kind = request[b].kind
         \/ request[b].stage = "idle" /\ ~Beside(b, r.kind),
         \A s \in DOMAIN sessions' :
           s \notin DOMAIN sessions \/ s \in {request[b].answer, request[b].session, request[b].presents}
             => s \in {r.answer, r.session, r.presents} \/ sessions'[s].revoked
  PROVE  Tracked'
<1> DEFINE k == cookie[browser[b]]
<1>1. PICK w : w = browser[b]
  OBVIOUS
<1>2. w \in Browsers /\ cookie \in [Browsers -> 0..Len(sessions)] /\ browser \in [Tabs -> Browsers]
      /\ request \in [Tabs -> Request]
  BY <1>1 DEF Inv, TypeOK
<1>3. /\ Len(sessions) \in Nat /\ Len(sessions') \in Nat /\ Len(sessions) <= Len(sessions') /\ Len(sessions') <= MaxSessions
      /\ DOMAIN sessions = 1..Len(sessions) /\ DOMAIN sessions' = 1..Len(sessions')
  BY TableTypes, LenProperties DEF Inv, Grown
<1>4. \A s \in DOMAIN sessions' : s # Keep /\ s # 0
  BY <1>3, SessionsAssumption DEF Keep
<1>5. ASSUME NEW c \in Tabs, c # b, browser[c] = w, request[c].stage # "idle"
      PROVE  request[c].kind \notin SetsCookie /\ r.kind \notin SetsCookie
  BY <1>1, <1>5 DEF Alone, Beside
<1>6. \A s \in DOMAIN sessions : sessions[s].revoked => sessions'[s].revoked
  BY DEF Grown
<1>7. \A c \in Tabs : request[c].presents \in 0..Len(sessions)
  BY RequestFacts
<1>8. \A c \in Tabs : request[c].stage # "idle" => Knows(request[c], cookie[browser[c]], sessions')
  BY <1>7, KnowsKeeps DEF AllKnow
<1>9. CASE r.stage = "respond"
  <2>1. PICK n : n = IF r.answer = Keep THEN cookie[w] ELSE r.answer
    OBVIOUS
  <2>2. request' = [request EXCEPT ![b] = Nothing] /\ cookie' = [cookie EXCEPT ![w] = n]
    BY <1>1, <1>9, <2>1 DEF Move
  <2>3. /\ request'[b] = Nothing /\ cookie'[w] = n
        /\ \A c \in Tabs : c # b => request'[c] = request[c]
        /\ \A c \in Browsers : c # w => cookie'[c] = cookie[c]
    BY <1>2, <2>2
  <2>4. r.answer # Keep => Gone(r, sessions')
    BY <1>9 DEF Knows
  <2>5. cookie[w] \in {0, r.presents} /\ (cookie[w] # r.presents => Gone(r, sessions')) /\ r.session \in {0, r.presents}
    BY <1>1 DEF Knows
  <2>6. ASSUME NEW s \in DOMAIN sessions', ~sessions'[s].revoked, s \in {r.answer, r.session, r.presents, cookie[w]}
        PROVE  s = n
    <3>1. CASE s = r.answer
      BY <1>4, <2>1, <3>1
    <3>2. CASE s \in {r.session, r.presents, cookie[w]}
      <4>1. s = r.presents
        BY <1>4, <2>5, <3>2
      <4>2. ~Gone(r, sessions')
        BY <1>4, <2>6, <4>1 DEF Gone
      <4> QED
        BY <2>1, <2>4, <2>5, <4>1, <4>2
    <3> QED
      BY <2>6, <3>1, <3>2
  <2>7. ASSUME NEW s \in DOMAIN sessions', ~sessions'[s].revoked
        PROVE  Held(s)'
    <3>1. CASE s \in {r.answer, r.session, r.presents, cookie[w]}
      BY <1>2, <2>3, <2>6, <2>7, <3>1 DEF Held
    <3>2. CASE s \notin {r.answer, r.session, r.presents, cookie[w]}
      <4>1. s \in DOMAIN sessions /\ s \notin {request[b].answer, request[b].session, request[b].presents}
        BY <2>7, <3>2
      <4>2. Held(s)
        BY <1>6, <2>7, <4>1
      <4>3. CASE \E c \in Browsers : s = cookie[c]
        BY <2>3, <3>2, <4>3 DEF Held
      <4>4. CASE \E c \in Tabs : s \in {request[c].answer, request[c].session, request[c].presents}
        <5>1. PICK c \in Tabs : s \in {request[c].answer, request[c].session, request[c].presents}
          BY <4>4
        <5>2. c # b /\ request'[c] = request[c]
          BY <2>3, <4>1, <5>1
        <5> QED
          BY <5>1, <5>2 DEF Held
      <4> QED
        BY <4>2, <4>3, <4>4 DEF Held
    <3> QED
      BY <3>1, <3>2
  <2>8. Alone'
    BY <2>3 DEF Alone, Nothing
  <2>9. ASSUME NEW c \in Tabs
        PROVE  IF request'[c].stage = "idle" THEN request'[c] = Nothing
               ELSE Knows(request'[c], cookie'[browser[c]], sessions')
    <3>1. CASE c = b
      BY <2>3, <3>1 DEF Nothing
    <3>2. CASE c # b /\ request[c].stage = "idle"
      BY <2>3, <3>2 DEF AllKnow
    <3>3. CASE c # b /\ request[c].stage # "idle" /\ browser[c] # w
      BY <1>2, <1>8, <2>3, <3>3
    <3>4. CASE c # b /\ request[c].stage # "idle" /\ browser[c] = w
      <4>1. r.answer \in {0, Keep} /\ Knows(request[c], cookie[w], sessions') /\ request'[c] = request[c]
        BY <1>5, <1>8, <2>3, <3>4 DEF Knows
      <4>2. CASE r.answer = Keep
        BY <2>1, <2>3, <3>4, <4>1, <4>2
      <4>3. CASE r.answer = 0
        <5>1. n = 0 /\ Gone(r, sessions')
          BY <2>1, <2>4, <4>1, <4>3, SessionsAssumption DEF Keep
        <5>2. Gone(request[c], sessions')
          BY <2>5, <4>1, <5>1 DEF Knows, Gone
        <5>3. Knows(request[c], 0, sessions')
          BY <4>1, <5>2 DEF Knows
        <5> QED
          BY <2>3, <3>4, <4>1, <5>1, <5>3
      <4> QED
        BY <4>1, <4>2, <4>3
    <3> QED
      BY <3>1, <3>2, <3>3, <3>4
  <2>10. AllKnow'
    BY <2>9 DEF AllKnow
  <2> QED
    BY <2>7, <2>8, <2>10 DEF Tracked
<1>10. CASE r.stage # "respond"
  <2>1. request' = [request EXCEPT ![b] = r] /\ cookie' = cookie
    BY <1>10 DEF Move
  <2>2. request'[b] = r /\ \A c \in Tabs : c # b => request'[c] = request[c]
    BY <1>2, <2>1
  <2>3. ASSUME NEW s \in DOMAIN sessions', ~sessions'[s].revoked
        PROVE  Held(s)'
    <3>1. CASE s \in {r.answer, r.session, r.presents}
      BY <2>2, <3>1 DEF Held
    <3>2. CASE s \notin {r.answer, r.session, r.presents}
      <4>1. s \in DOMAIN sessions /\ s \notin {request[b].answer, request[b].session, request[b].presents}
        BY <2>3, <3>2
      <4>2. Held(s)
        BY <1>6, <2>3, <4>1
      <4>3. CASE \E c \in Browsers : s = cookie[c]
        BY <2>1, <4>3 DEF Held
      <4>4. CASE \E c \in Tabs : s \in {request[c].answer, request[c].session, request[c].presents}
        <5>1. PICK c \in Tabs : s \in {request[c].answer, request[c].session, request[c].presents}
          BY <4>4
        <5>2. c # b /\ request'[c] = request[c]
          BY <2>2, <4>1, <5>1
        <5> QED
          BY <5>1, <5>2 DEF Held
      <4> QED
        BY <4>2, <4>3, <4>4 DEF Held
    <3> QED
      BY <3>1, <3>2
  <2>4. Alone'
    <3> SUFFICES ASSUME NEW c \in Tabs, NEW d \in Tabs, c # d, browser[c] = browser[d],
                        request'[c].stage # "idle", request'[d].stage # "idle"
                 PROVE  request'[c].kind \notin SetsCookie
      BY DEF Alone
    <3>1. CASE c = b
      BY <1>1, <1>5, <2>2, <3>1
    <3>2. CASE d = b
      BY <1>1, <1>5, <2>2, <3>2
    <3>3. CASE c # b /\ d # b
      BY <2>2, <3>3 DEF Alone
    <3> QED
      BY <3>1, <3>2, <3>3
  <2>5. AllKnow'
    <3> SUFFICES ASSUME NEW c \in Tabs
                 PROVE  IF request'[c].stage = "idle" THEN request'[c] = Nothing
                        ELSE Knows(request'[c], cookie[browser[c]], sessions')
      BY <2>1 DEF AllKnow
    <3>1. CASE c = b
      BY <2>2, <3>1
    <3>2. CASE c # b
      BY <1>8, <2>2, <3>2 DEF AllKnow
    <3> QED
      BY <3>1, <3>2
  <2> QED
    BY <2>3, <2>4, <2>5 DEF Tracked
<1> QED
  BY <1>9, <1>10

\* What holds when a request that is under way takes a step and nothing disturbs.
Calm(b) ==
  /\ Inv /\ Inv' /\ Grown /\ Undisturbed /\ Undisturbed' /\ Alone /\ AllKnow
  /\ \A s \in DOMAIN sessions : sessions[s].revoked \/ Held(s)
  /\ UNCHANGED browser

\* The request goes on with the session it came with.
LEMMA TrackedStep ==
  ASSUME NEW b \in Tabs, Calm(b), NEW q, Move(b, q), request[b].stage # "idle", q.stage # "idle",
         DOMAIN sessions' = DOMAIN sessions, q.kind = request[b].kind, q.presents = request[b].presents,
         q.answer = request[b].answer \/ request[b].answer \in {0, Keep},
         Knows(q, cookie[browser[b]], sessions')
  PROVE  Tracked'
<1>1. \A s \in DOMAIN sessions' : s # Keep /\ s # 0
  BY TableTypes, SessionsAssumption DEF Keep, Calm, Inv
<1>2. request[b].session \in {0, request[b].presents}
  BY DEF Calm, AllKnow, Knows
<1>3. \A s \in DOMAIN sessions' :
        s \notin DOMAIN sessions \/ s \in {request[b].answer, request[b].session, request[b].presents}
          => s \in {q.answer, q.session, q.presents} \/ sessions'[s].revoked
  BY <1>1, <1>2
<1> QED
  BY <1>3, TrackedMove DEF Calm

\* The request goes on to another stage, and the table keeps its rows.
LEMMA TrackedGoto ==
  ASSUME NEW b \in Tabs, Calm(b), NEW stage, Goto(b, stage), DOMAIN sessions' = DOMAIN sessions,
         request[b].stage \notin {"idle", "expire", "refresh"}, stage \notin {"idle", "expire", "refresh"},
         \/ request[b].answer \in {0, Keep} \/ stage = "respond",
         \/ request[b].stage # "rotate" \/ Gone(request[b], sessions'),
         \/ request[b].kind # "change" \/ stage \notin {"session", "success"} \/ Gone(request[b], sessions'),
         \/ request[b].kind # "change" \/ stage \notin {"lookup", "upgrade", "create"},
         \/ request[b].stage \notin Quiet \/ stage \in Quiet
  PROVE  Tracked'
<1> DEFINE r == request[b]
           k == cookie[browser[b]]
<1>1. PICK q : q = [r EXCEPT !.stage = stage]
  OBVIOUS
<1>2. r \in Request /\ r.presents \in 0..Len(sessions)
  BY RequestFacts DEF Calm
<1>3. /\ q.stage = stage /\ q.kind = r.kind /\ q.presents = r.presents
      /\ q.session = r.session /\ q.answer = r.answer
  BY <1>1, <1>2 DEF Request
<1>4. Knows(r, k, sessions')
  BY <1>2, KnowsKeeps DEF Calm, AllKnow
<1>5. Gone(q, sessions') <=> Gone(r, sessions')
  BY <1>3 DEF Gone
<1>6. Knows(q, k, sessions')
  BY <1>3, <1>4, <1>5 DEF Knows
<1>7. Move(b, q)
  BY <1>1 DEF Goto
<1> QED
  BY <1>3, <1>6, <1>7, TrackedStep

\* The rows after the statements that leave the length of the table alone.
LEMMA SameDomain ==
  ASSUME Inv, NEW s, NEW t, NEW u
  PROVE  /\ RevokeSession(s) => DOMAIN sessions' = DOMAIN sessions
         /\ RefreshSession(s, t) => DOMAIN sessions' = DOMAIN sessions
         /\ RevokeOtherSessions(u, s) => DOMAIN sessions' = DOMAIN sessions
  BY TableTypes DEF RevokeSession, RefreshSession, RevokeOtherSessions, Inv

\* A session that was revoked is gone for the request that came with it.
LEMMA RevokedIsGone ==
  ASSUME NEW b \in Tabs, Calm(b), request[b].stage \notin {"idle", "expire", "refresh"},
         RevokeSession(request[b].session)
  PROVE  Gone(request[b], sessions')
<1>1. Knows(request[b], cookie[browser[b]], sessions) /\ request[b].presents \in 0..Len(sessions)
  BY RequestFacts DEF Calm, AllKnow
<1>2. CASE request[b].session = 0
  BY <1>1, <1>2, KnowsKeeps DEF Knows, Calm
<1>3. CASE request[b].session # 0
  <2>1. request[b].session = request[b].presents /\ request[b].presents \in DOMAIN sessions
    BY <1>1, <1>3, TableTypes DEF Knows, Calm, Inv
  <2> QED
    BY <2>1, RevokeGrown DEF Gone, Calm
<1> QED
  BY <1>2, <1>3

LEMMA ArriveTracked ==
  ASSUME NEW b \in Tabs, Calm(b), Arrive(b)
  PROVE  Tracked'
<1> DEFINE k == cookie[browser[b]]
<1>1. PICK q \in Request :
        /\ Move(b, q) /\ q.presents = k /\ q.session = 0 /\ q.answer \in {0, Keep}
        /\ overlap' = (overlap \/ Beside(b, q.kind))
        /\ \/ q.stage \in {"refresh", "expire"} /\ q.answer = Keep /\ Works
           \/ /\ q.stage \in {"respond", "csrf", "logout", "owner", "check"}
              /\ q.stage \in {"owner", "check"} => q.kind \in SetsCookie
              /\ Fails \/ (Works /\ (q.presents = 0 \/ sessions[q.presents].revoked))
  BY ArriveMoves DEF Calm
<1>2. ~Fails /\ ~Beside(b, q.kind)
  <2>1. ~Fails
    BY DEF Calm, Undisturbed, Fails
  <2>2. ~overlap'
    BY DEF Calm, Undisturbed
  <2> QED
    BY <1>1, <2>1, <2>2
<1>3. sessions' = sessions /\ request[b].stage = "idle" /\ request[b] = Nothing
  BY DEF Arrive, tables, At, Calm, AllKnow
<1>4. Knows(q, k, sessions')
  BY <1>1, <1>2, <1>3 DEF Knows, Gone, Quiet
<1>5. \A s \in DOMAIN sessions' : s # Keep /\ s # 0
  BY <1>3, TableTypes, SessionsAssumption DEF Keep, Calm, Inv
<1>6. Nothing.answer = Keep /\ Nothing.session = 0 /\ Nothing.presents = 0
  BY DEF Nothing
<1>7. \A s \in DOMAIN sessions' :
        s \notin DOMAIN sessions \/ s \in {request[b].answer, request[b].session, request[b].presents}
          => s \in {q.answer, q.session, q.presents} \/ sessions'[s].revoked
  BY <1>3, <1>5, <1>6
<1>8. q.stage # "idle"
  BY <1>1
<1> QED
  BY <1>1, <1>2, <1>3, <1>4, <1>7, <1>8, TrackedMove DEF Calm

LEMMA ExpireTracked ==
  ASSUME NEW b \in Tabs, Calm(b), ExpireSession(b)
  PROVE  Tracked'
<1> DEFINE r == request[b]
<1>1. /\ r.stage = "expire" /\ RevokeSession(r.presents) /\ Enter(b, r, 0, 0)
  BY DEF ExpireSession, At, Calm, Undisturbed, Fails
<1>2. r \in Request /\ 0 \in 0..MaxSessions /\ r.presents \in DOMAIN sessions
  BY <1>1, RequestFacts, TableTypes, SessionsAssumption DEF Calm, RequestOK, Inv
<1>3. PICK q : /\ Move(b, q) /\ q.kind = r.kind /\ q.presents = r.presents /\ q.session = 0 /\ q.answer = 0
               /\ q.stage \in {"respond", "csrf", "logout", "owner", "check"}
               /\ q.stage \in {"owner", "check"} => q.kind \in SetsCookie
  BY <1>1, <1>2, EnterMoves
<1>4. Knows(r, cookie[browser[b]], sessions)
  BY <1>1 DEF Calm, AllKnow
<1>5. Gone(q, sessions')
  BY <1>1, <1>2, <1>3, RevokeGrown DEF Gone, Calm
<1>6. Knows(q, cookie[browser[b]], sessions')
  BY <1>3, <1>4, <1>5 DEF Knows, Quiet
<1>7. r.answer \in {0, Keep}
  BY <1>1, <1>4 DEF Knows
<1>8. DOMAIN sessions' = DOMAIN sessions
  BY <1>1, SameDomain DEF Calm
<1> QED
  BY <1>1, <1>3, <1>6, <1>7, <1>8, TrackedStep

LEMMA KeepAliveTracked ==
  ASSUME NEW b \in Tabs, Calm(b), KeepAlive(b)
  PROVE  Tracked'
<1> DEFINE r == request[b]
           k == cookie[browser[b]]
<1>1. PICK t : r.stage = "refresh" /\ RefreshSession(r.presents, t) /\ Enter(b, r, r.presents, Keep)
  BY DEF KeepAlive, At, Calm, Undisturbed, Fails
<1>2. r \in Request /\ r.presents \in 0..MaxSessions /\ r.presents # 0 /\ r.presents \in 0..Len(sessions)
  BY <1>1, RequestFacts, TableTypes DEF Calm, RequestOK, Request
<1>3. PICK q : /\ Move(b, q) /\ q.kind = r.kind /\ q.presents = r.presents /\ q.session = r.presents
               /\ q.answer = Keep /\ q.stage \in {"respond", "csrf", "logout", "owner", "check"}
               /\ q.stage \in {"owner", "check"} => q.kind \in SetsCookie
  BY <1>1, <1>2, EnterMoves
<1>4. Knows(r, k, sessions) /\ Knows(r, k, sessions')
  BY <1>1, <1>2, KnowsKeeps DEF Calm, AllKnow
<1>5. Gone(q, sessions') <=> Gone(r, sessions')
  BY <1>3 DEF Gone
<1>6. Knows(q, k, sessions')
  BY <1>2, <1>3, <1>4, <1>5 DEF Knows, Quiet
<1>7. r.answer \in {0, Keep}
  BY <1>1, <1>4 DEF Knows
<1>8. DOMAIN sessions' = DOMAIN sessions
  BY <1>1, SameDomain DEF Calm
<1> QED
  BY <1>1, <1>3, <1>6, <1>7, <1>8, TrackedStep

LEMMA LogoutTracked ==
  ASSUME NEW b \in Tabs, Calm(b), Logout(b)
  PROVE  Tracked'
<1> DEFINE r == request[b]
           k == cookie[browser[b]]
<1>1. r.stage = "logout" /\ RevokeSession(r.session) /\ Move(b, [r EXCEPT !.stage = "respond", !.answer = 0])
  BY DEF Logout, At, Calm, Undisturbed, Fails
<1>2. PICK q : q = [r EXCEPT !.stage = "respond", !.answer = 0]
  OBVIOUS
<1>3. r \in Request /\ r.presents \in 0..Len(sessions)
  BY RequestFacts DEF Calm
<1>4. q.stage = "respond" /\ q.answer = 0 /\ q.kind = r.kind /\ q.presents = r.presents /\ q.session = r.session
  BY <1>2, <1>3 DEF Request
<1>5. Knows(r, k, sessions) /\ Knows(r, k, sessions')
  BY <1>1, <1>3, KnowsKeeps DEF Calm, AllKnow
<1>6. Gone(r, sessions') /\ Gone(q, sessions')
  BY <1>1, <1>4, RevokedIsGone DEF Gone
<1>7. Knows(q, k, sessions')
  BY <1>4, <1>5, <1>6 DEF Knows, Quiet
<1>8. r.answer \in {0, Keep}
  BY <1>1, <1>5 DEF Knows
<1>9. DOMAIN sessions' = DOMAIN sessions
  BY <1>1, SameDomain DEF Calm
<1> QED
  BY <1>1, <1>2, <1>4, <1>7, <1>8, <1>9, TrackedStep

\* A new session is the answer of the request that made it.
LEMMA NewSessionTracked ==
  ASSUME NEW b \in Tabs, Calm(b), NewSession(b)
  PROVE  Tracked'
<1> DEFINE r == request[b]
           k == cookie[browser[b]]
           stage == IF r.kind = "change" THEN "success" ELSE "rotate"
<1>1. /\ r.stage = "session" /\ Move(b, [r EXCEPT !.answer = Len(sessions) + 1, !.stage = stage])
      /\ Len(sessions) < MaxSessions
      /\ sessions' = Append(sessions, [user |-> r.user, revoked |-> FALSE,
                        idle |-> now + IdleTimeout, absolute |-> now + AbsoluteTimeout])
  BY DEF NewSession, At, Calm, Undisturbed, Fails
<1>2. PICK q : q = [r EXCEPT !.answer = Len(sessions) + 1, !.stage = stage]
  OBVIOUS
<1>3. r \in Request /\ r.presents \in 0..Len(sessions) /\ r.user \in Users
  BY RequestFacts DEF Calm
<1>4. /\ q.stage = stage /\ q.answer = Len(sessions) + 1 /\ q.kind = r.kind
      /\ q.presents = r.presents /\ q.session = r.session
  BY <1>2, <1>3 DEF Request
<1>5. Knows(r, k, sessions) /\ Knows(r, k, sessions')
  BY <1>1, <1>3, KnowsKeeps DEF Calm, AllKnow
<1>6. Gone(q, sessions') <=> Gone(r, sessions')
  BY <1>4 DEF Gone
<1>7. Len(sessions') = Len(sessions) + 1 /\ Len(sessions) \in Nat /\ MaxSessions \in Nat
      /\ DOMAIN sessions = 1..Len(sessions) /\ DOMAIN sessions' = 1..(Len(sessions) + 1)
  <2>1. Len(sessions') = Len(sessions) + 1 /\ sessions' \in Seq(Session)
    BY <1>1, <1>3, AppendGrown DEF Calm, Grown
  <2> QED
    BY <2>1, TableTypes, LenProperties DEF Calm, Inv
<1>8. r.kind \in SetsCookie
  BY <1>1, <1>5 DEF Knows, Quiet
<1>9. Knows(q, k, sessions')
  BY <1>1, <1>4, <1>5, <1>6, <1>8 DEF Knows
<1>10. r.answer \in {0, Keep} /\ r.session \in {0, r.presents}
  BY <1>1, <1>5 DEF Knows
<1>11. \A s \in DOMAIN sessions' : s # Keep /\ s # 0
  BY <1>1, <1>7 DEF Keep
<1>12. \A s \in DOMAIN sessions' :
        s \notin DOMAIN sessions \/ s \in {r.answer, r.session, r.presents}
          => s \in {q.answer, q.session, q.presents} \/ sessions'[s].revoked
  BY <1>4, <1>7, <1>10, <1>11
<1>13. q.stage # "idle" /\ r.stage # "idle"
  BY <1>1, <1>4
<1>14. Move(b, q)
  BY <1>1, <1>2
<1> HIDE DEF k, stage
<1> QED
  BY <1>4, <1>9, <1>12, <1>13, <1>14, TrackedMove DEF Calm, k

\* The steps that only go on to another stage.
LEMMA GotoTracked ==
  ASSUME NEW b \in Tabs, Calm(b),
         \/ RefreshCSRF(b) \/ Check(b) \/ Failure(b) \/ Success(b) \/ Lookup(b) \/ Upgrade(b)
         \/ CreateUser(b) \/ Rotate(b) \/ UpdatePassword(b) \/ RevokeOwn(b)
  PROVE  Tracked'
<1> DEFINE r == request[b]
<1>1. ~Fails
  BY DEF Calm, Undisturbed, Fails
<1>2. r.stage # "idle" => Knows(r, cookie[browser[b]], sessions)
  BY DEF Calm, AllKnow
<1>3. r.kind \in Kinds
  BY RequestFacts DEF Calm
<1>4. CASE RefreshCSRF(b)
  <2>1. DOMAIN sessions' = DOMAIN sessions
    BY <1>4, SameDomain DEF RefreshCSRF, Calm
  <2>2. r.stage = "csrf" /\ Goto(b, "respond")
    BY <1>4 DEF RefreshCSRF, At
  <2> QED
    BY <2>1, <2>2, TrackedGoto DEF Quiet
<1>5. CASE Check(b)
  <2> DEFINE stage == CASE r.kind = "login"    -> "lookup"
                        [] r.kind = "register" -> IF PolicyAllows(r.given) THEN "create" ELSE "failure"
                        [] r.kind = "change"   -> IF r.given = r.hash /\ PolicyAllows(r.next)
                                                  THEN "update" ELSE "failure"
  <2>1. r.stage = "check" /\ sessions' = sessions
    BY <1>5 DEF Check, At, tables
  <2>2. r.kind \in SetsCookie /\ r.answer \in {0, Keep}
    BY <1>2, <2>1 DEF Knows, Quiet
  <2>3. Goto(b, "respond") \/ Goto(b, stage)
    BY <1>5 DEF Check
  <2>4. /\ stage \in {"lookup", "create", "failure", "update"}
        /\ r.kind = "change" => stage \notin {"lookup", "upgrade", "create"}
    BY <2>2 DEF SetsCookie
  <2> HIDE DEF stage
  <2> QED
    BY <2>1, <2>2, <2>3, <2>4, TrackedGoto DEF Quiet
<1>6. CASE Failure(b)
  <2>1. r.stage = "failure" /\ sessions' = sessions /\ Goto(b, "respond")
    BY <1>6 DEF Failure, At, tables
  <2> QED
    BY <2>1, TrackedGoto DEF Quiet
<1>7. CASE Success(b)
  <2>1. r.stage = "success" /\ sessions' = sessions /\ Goto(b, IF r.kind = "change" THEN "respond" ELSE "session")
    BY <1>7 DEF Success, At, tables
  <2>2. r.kind # "change" => r.answer \in {0, Keep}
    BY <1>2, <2>1 DEF Knows
  <2> QED
    BY <2>1, <2>2, TrackedGoto DEF Quiet
<1>8. CASE Lookup(b)
  <2>1. /\ r.stage = "lookup" /\ sessions' = sessions
        /\ \E stage \in {"upgrade", "success", "failure"} : Goto(b, stage)
    BY <1>1, <1>8 DEF Lookup, At, tables
  <2>2. r.kind # "change" /\ r.answer \in {0, Keep}
    BY <1>2, <2>1 DEF Knows
  <2> QED
    BY <2>1, <2>2, TrackedGoto DEF Quiet
<1>9. CASE Upgrade(b)
  <2>1. r.stage = "upgrade" /\ sessions' = sessions /\ Goto(b, "success")
    BY <1>9 DEF Upgrade, At
  <2>2. r.kind # "change" /\ r.answer \in {0, Keep}
    BY <1>2, <2>1 DEF Knows
  <2> QED
    BY <2>1, <2>2, TrackedGoto DEF Quiet
<1>10. CASE CreateUser(b)
  <2>1. r.stage = "create" /\ sessions' = sessions /\ \E stage \in {"success", "failure"} : Goto(b, stage)
    BY <1>10 DEF CreateUser, At
  <2>2. r.kind # "change" /\ r.answer \in {0, Keep}
    BY <1>2, <2>1 DEF Knows
  <2> QED
    BY <2>1, <2>2, TrackedGoto DEF Quiet
<1>11. CASE Rotate(b)
  <2>1. r.stage = "rotate" /\ Goto(b, "respond")
        /\ (RevokeSession(r.session) \/ (r.session = 0 /\ UNCHANGED sessions))
    BY <1>1, <1>11 DEF Rotate, At
  <2>2. DOMAIN sessions' = DOMAIN sessions
    BY <2>1, SameDomain DEF Calm
  <2>3. Gone(r, sessions')
    <3>1. CASE RevokeSession(r.session)
      BY <2>1, <3>1, RevokedIsGone
    <3>2. CASE r.session = 0 /\ UNCHANGED sessions
      BY <1>2, <2>1, <3>2 DEF Knows
    <3> QED
      BY <2>1, <3>1, <3>2
  <2> QED
    BY <2>1, <2>2, <2>3, TrackedGoto DEF Quiet
<1>12. CASE UpdatePassword(b)
  <2>1. r.stage = "update" /\ sessions' = sessions /\ Goto(b, "others")
    BY <1>1, <1>12 DEF UpdatePassword, At
  <2>2. r.answer \in {0, Keep}
    BY <1>2, <2>1 DEF Knows
  <2> QED
    BY <2>1, <2>2, TrackedGoto DEF Quiet
<1>13. CASE RevokeOwn(b)
  <2>1. r.stage = "own" /\ RevokeSession(r.session) /\ Goto(b, "session")
    BY <1>1, <1>13 DEF RevokeOwn, At
  <2>2. DOMAIN sessions' = DOMAIN sessions
    BY <2>1, SameDomain DEF Calm
  <2>3. Gone(r, sessions') /\ r.answer \in {0, Keep}
    BY <1>2, <2>1, RevokedIsGone DEF Knows
  <2> QED
    BY <2>1, <2>2, <2>3, TrackedGoto DEF Quiet
<1> QED
  BY <1>4, <1>5, <1>6, <1>7, <1>8, <1>9, <1>10, <1>11, <1>12, <1>13

\* The steps of a password change that note what they read.
LEMMA ChangeTracked ==
  ASSUME NEW b \in Tabs, Calm(b), FindOwner(b) \/ RevokeOthers(b)
  PROVE  Tracked'
<1> DEFINE r == request[b]
           k == cookie[browser[b]]
<1>1. ~Fails
  BY DEF Calm, Undisturbed, Fails
<1>2. r \in Request /\ r.presents \in 0..Len(sessions)
  BY RequestFacts DEF Calm
<1>3. r.stage # "idle" => Knows(r, k, sessions')
  BY <1>2, KnowsKeeps DEF Calm, AllKnow
<1>4. CASE FindOwner(b)
  <2> DEFINE u == sessions[r.session].user
  <2>1. PICK q : q = [r EXCEPT !.user = u, !.hash = password[u], !.stage = "check"]
    OBVIOUS
  <2>2. r.stage = "owner" /\ sessions' = sessions /\ Move(b, q)
    BY <1>1, <1>4, <2>1 DEF FindOwner, At, tables
  <2>3. /\ q.stage = "check" /\ q.kind = r.kind /\ q.presents = r.presents
        /\ q.session = r.session /\ q.answer = r.answer
    BY <1>2, <2>1 DEF Request
  <2>4. Knows(q, k, sessions')
    BY <1>3, <2>2, <2>3 DEF Knows, Gone, Quiet
  <2> QED
    BY <2>2, <2>3, <2>4, TrackedStep
<1>5. CASE RevokeOthers(b)
  <2>1. PICK q : q = [r EXCEPT !.stage = "own", !.seen = Len(sessions)]
    OBVIOUS
  <2>2. r.stage = "others" /\ RevokeOtherSessions(r.user, r.session) /\ Move(b, q)
    BY <1>1, <1>5, <2>1 DEF RevokeOthers, At
  <2>3. /\ q.stage = "own" /\ q.kind = r.kind /\ q.presents = r.presents
        /\ q.session = r.session /\ q.answer = r.answer
    BY <1>2, <2>1 DEF Request
  <2>4. Knows(q, k, sessions')
    BY <1>3, <2>2, <2>3 DEF Knows, Gone, Quiet
  <2>5. DOMAIN sessions' = DOMAIN sessions
    BY <2>2, SameDomain DEF Calm
  <2> QED
    BY <2>2, <2>3, <2>4, <2>5, TrackedStep
<1> QED
  BY <1>4, <1>5

\* What disturbs is remembered.
LEMMA ServeDisturbs ==
  ASSUME NEW b \in Tabs, Serve(b)
  PROVE  (Fails \/ Works) /\ (overlap => overlap') /\ UNCHANGED browser
<1>1. CASE Arrive(b)
  <2>1. Fails \/ Works
    BY <1>1 DEF Arrive
  <2>2. overlap => overlap'
    BY <1>1 DEF Arrive
  <2> QED
    BY <1>1, <2>1, <2>2 DEF Arrive
<1>2. CASE ExpireSession(b) \/ KeepAlive(b) \/ RefreshCSRF(b) \/ Logout(b) \/ Lookup(b) \/ Upgrade(b)
  BY <1>2 DEF ExpireSession, KeepAlive, RefreshCSRF, Logout, Lookup, Upgrade
<1>3. CASE Check(b) \/ Failure(b) \/ Success(b)
  BY <1>3 DEF Check, Failure, Success, bounds, Works
<1>4. CASE CreateUser(b) \/ NewSession(b) \/ Rotate(b) \/ FindOwner(b)
  BY <1>4 DEF CreateUser, NewSession, Rotate, FindOwner
<1>5. CASE UpdatePassword(b) \/ RevokeOthers(b) \/ RevokeOwn(b)
  BY <1>5 DEF UpdatePassword, RevokeOthers, RevokeOwn
<1> QED
  BY <1>1, <1>2, <1>3, <1>4, <1>5 DEF Serve, Authenticate, Attempt, ChangePassword

LEMMA NextTracked ==
  ASSUME Inv, Inv', Tracked, [Next]_vars
  PROVE  Tracked'
<1>1. CASE UNCHANGED vars \/ Bootstrap \/ Tick
  <2>1. UNCHANGED <<sessions, cookie, browser, request, overlap>>
    BY <1>1 DEF vars, Bootstrap, Tick, tables
  <2>2. UNCHANGED faults
    BY <1>1 DEF vars, Bootstrap, Tick, bounds
  <2> QED
    BY <2>1, <2>2 DEF Tracked, Undisturbed, Alone, AllKnow, Held
<1>2. ASSUME NEW b \in Tabs, Serve(b)
      PROVE  Tracked'
  <2> SUFFICES ASSUME Undisturbed'
               PROVE  Tracked'
    BY DEF Tracked
  <2>1. faults \in Nat
    BY SessionsAssumption DEF Inv, TypeOK
  <2>2. Undisturbed /\ UNCHANGED browser
    BY <1>2, <2>1, ServeDisturbs DEF Undisturbed, Fails, Works
  <2>3. Calm(b)
    BY <2>2, NextGrown DEF Calm, Tracked
  <2> QED
    BY <1>2, <2>3, ArriveTracked, ExpireTracked, KeepAliveTracked, LogoutTracked, NewSessionTracked,
       GotoTracked, ChangeTracked DEF Serve, Authenticate, Attempt, ChangePassword
<1>3. CASE Restart
  <2>1. faults \in Nat
    BY SessionsAssumption DEF Inv, TypeOK
  <2> QED
    BY <1>3, <2>1 DEF Restart, Fails, Tracked, Undisturbed
<1> QED
  BY <1>1, <1>2, <1>3 DEF Next

LEMMA InitTracked == Init => Tracked
<1> SUFFICES ASSUME Init PROVE Tracked
  OBVIOUS
<1>1. DOMAIN sessions = {} /\ \A b \in Tabs : request[b] = Nothing /\ request[b].stage = "idle"
  BY DEF Init, Nothing
<1> QED
  BY <1>1 DEF Tracked, Alone, AllKnow

\* As long as nothing failed and no request that sets the cookie ran beside
\* another one of its browser, every open session is the one that a browser
\* presents or that of a request under way, for any number of browsers and
\* tabs: log-in, rotation, log-out, expiry and password change leave none
\* behind that nobody can close (api_auth.go:270, auth.go:324).
THEOREM NobodyLosesASession == Spec => []NoSessionLeftBehind
<1>1. Inv /\ Inv' /\ Tracked /\ [Next]_vars => Tracked'
  BY NextTracked
<1>2. Spec => []Tracked
  BY <1>1, InitTracked, SessionsInvariant, PTL DEF Spec
<1> QED
  BY <1>2, HeldIsKept, PTL
=============================================================================
