------------------------- MODULE LeagueAnalysisProofs -------------------------
(***************************************************************************)
(* What holds of LeagueAnalysis for any league, any teams, points and      *)
(* requests, and any number of writes between the queries of an analysis:  *)
(* the selection, what "actual" promises, the autopsy that nothing         *)
(* disturbed, and the arithmetic of a comparison.                          *)
(*                                                                         *)
(* The invariant follows an analysis from query to query: the entries      *)
(* still to load and those loaded are parts of the selection that have     *)
(* nothing in common, and make up all of it unless one was left out.  The  *)
(* comparison is a matter of sums, by the lemmas of CollectionTheorems.    *)
(***************************************************************************)
EXTENDS LeagueAnalysis, CollectionTheorems

\* An analysis is a record with these fields.
Fields == {"kind", "query", "members", "selected", "failures", "points", "todo", "now", "loaded",
           "missing", "outcome", "since", "stage"}
IsAnalysis(r) == r = [f \in Fields |-> r[f]]

\* What is read of an entry: its picks; the points; its number and cost.
PointMaps  == UNION {[S -> Int] : S \in SUBSET Players}
States  == {"estimated", "actual", "provisional"}
Picked  == [entry: Entries, team: Teams \cup {NoTeam}]
Scored  == [entry: Entries, team: Teams \cup {NoTeam}, points: PointMaps, state: States, gross: Int]
Weighed == [entry: Entries, team: Teams \cup {NoTeam}, points: PointMaps, state: States, gross: Int,
            number: Nat, cost: Costs]
Loading == {"picks", "facts", "meta", "weigh", "conclude"}

\* The types of an analysis, and what each of its stages has at hand.
Typed(r) ==
  /\ IsAnalysis(r) /\ r.query \in Requests /\ r.kind = r.query.kind
  /\ r.todo \in Seq(Entries) /\ r.loaded \in Seq(Weighed) /\ r.since \in Nat
  /\ r.points.state = "none" \/ r.points \in [of: PointMaps, state: States]
  /\ r.stage \in Loading \cup {"members", "failures", "standings", "points"}
  /\ r.stage \in {"members", "failures", "standings"} => r.kind # "autopsy"
  /\ r.stage \in {"members", "failures", "standings"} => r.points.state = "none"
  /\ r.stage \in {"members", "failures", "standings"} \/ (r.stage = "points" /\ r.kind = "compare")
       => r.loaded = <<>>
  /\ r.stage = "points" => r.kind \in {"compare", "autopsy"} /\ r.points.state = "none"
  /\ r.stage = "failures" => r.kind = "compare"
  /\ r.stage = "standings" => r.kind = "summary"
  /\ r.stage \in {"picks", "facts", "meta"} => r.todo # <<>>
  /\ r.stage = "conclude" => r.todo = <<>>
  /\ r.stage = "facts" => r.now \in Picked /\ r.now.entry = Head(r.todo)
  /\ r.stage = "meta" => r.now \in Scored /\ r.now.entry = Head(r.todo)
  /\ r.stage = "weigh" => r.now \in Weighed
  /\ r.stage \in Loading /\ r.kind = "compare" => r.points.state # "none"
  /\ r.kind = "autopsy" => CASE r.stage = "points" -> r.loaded # <<>>
                             [] r.points.state # "none" -> r.loaded # <<>>
                             [] OTHER -> r.loaded = <<>> /\ r.stage # "conclude"
  /\ r.kind = "summary" => r.points.state = "none"

\* Every team loaded has picks, and the points shown are those of the picks.
Gross(n) == n.gross = GrossPoints(n.team, n.points)
Loaded(r) ==
  /\ \A i \in DOMAIN r.loaded : r.loaded[i].team # NoTeam /\ Gross(r.loaded[i])
  /\ r.stage \in {"meta", "weigh"} /\ r.now.team # NoTeam => Gross(r.now)

\* The selection names an entry once.
Selection(r) == r.selected \in Seq(Entries) /\ IsInjective(r.selected)

EntriesOf(loaded) == {loaded[i].entry : i \in DOMAIN loaded}
Distinct(loaded)  == \A i, j \in DOMAIN loaded : loaded[i].entry = loaded[j].entry => i = j
ToLoad(r) == ToSet(r.todo) \cup (IF r.stage = "weigh" THEN {r.now.entry} ELSE {})
Left(r)   == Len(r.todo) + (IF r.stage = "weigh" THEN 1 ELSE 0)

\* The entries loaded and those to load are different ones of the selection,
\* and all of it when there are as many.
Accounted(r) ==
  r.kind # "autopsy" /\ r.stage \in Loading =>
    /\ EntriesOf(r.loaded) \cup ToLoad(r) \subseteq ToSet(r.selected)
    /\ EntriesOf(r.loaded) \cap ToLoad(r) = {}
    /\ Distinct(r.loaded) /\ IsInjective(r.todo)
    /\ r.stage = "weigh" => r.now.entry \notin ToSet(r.todo)
    /\ Len(r.loaded) + Left(r) <= Len(r.selected)
    /\ Len(r.loaded) + Left(r) = Len(r.selected) => ToSet(r.selected) \subseteq EntriesOf(r.loaded) \cup ToLoad(r)

\* What an outcome says of the points.
Honest(r) ==
  r.stage \in Loading =>
    /\ r.kind = "compare" /\ r.outcome = "actual" => r.points.state = "actual"
    /\ r.kind = "compare" => \A i \in DOMAIN r.loaded : DOMAIN r.loaded[i].team \subseteq DOMAIN r.points.of
    /\ r.kind = "summary" /\ r.outcome = "actual" => \A i \in DOMAIN r.loaded : r.loaded[i].state = "actual"

\* As long as no sync wrote, all points read are the points there are.
Quiet(r) ==
  /\ r.since <= writes
  /\ writes = r.since =>
       /\ \A i \in DOMAIN r.loaded : r.loaded[i].points = PlayerPoints.of
       /\ r.stage \in {"meta", "weigh"} => r.now.points = PlayerPoints.of
       /\ r.points.state # "none" => r.points.of = PlayerPoints.of

Sound(r) == Typed(r) /\ Loaded(r) /\ Selection(r) /\ Accounted(r) /\ Honest(r) /\ Quiet(r)

\* An answer that is called actual leaves no entry out, and an autopsy that
\* misses nothing has points for every pick.
Shown(r) == \A p \in DOMAIN r.loaded[1].team : Known(r.points.of, p)
Whole(r) ==
  /\ r.kind # "autopsy" /\ r.outcome = "actual" => Len(r.loaded) = Len(r.selected)
  /\ r.kind = "autopsy" /\ r.missing = {} => Shown(r)

\* What is stored.
Stored ==
  /\ writes \in 0..MaxWrites /\ failed \subseteq Entries
  /\ \A k \in DOMAIN page : k \in DOMAIN Pages /\ page[k] \in Pages[k]
  /\ team \in [Entries -> [team: Teams \cup {NoTeam}, number: 0..writes]]
  /\ cost \in [Entries -> Costs]
  /\ \A p \in Players : facts[p] = NoPoints \/ facts[p] \in [points: Points, final: BOOLEAN]

\* An answer; one that did not come to its end only names entries.
Settled(r) ==
  \/ r = Idle
  \/ /\ r.kind \in {"compare", "summary", "autopsy"} /\ Selection(r)
     /\ r.stage = "conclude" => Sound(r) /\ Whole(r)

Inv == Stored /\ (request = Idle \/ Sound(request)) /\ Settled(answer)

-----------------------------------------------------------------------------
(* What is stored, and the points a query returns.                         *)

LEMMA InitStored == Init => Stored
<1> SUFFICES ASSUME Init
             PROVE  Stored
  OBVIOUS
<1>1. \A k \in DOMAIN page : k \in DOMAIN Pages /\ page[k] \in Pages[k]
  <2>1. \A k \in DOMAIN Pages : (CHOOSE rows \in Pages[k] : TRUE) \in Pages[k]
    BY LeagueAssumption DEF LeagueAssumption
  <2>2. CASE page = <<>>
    BY <2>2
  <2>3. CASE page = [k \in DOMAIN Pages |-> CHOOSE rows \in Pages[k] : TRUE]
    BY <2>1, <2>3
  <2> QED
    BY <2>2, <2>3 DEF Init
<1>2. \A p \in Players : facts[p] = NoPoints \/ facts[p] \in [points: Points, final: BOOLEAN]
  <2>1. PICK some \in SUBSET Players, final \in BOOLEAN, w \in Points :
          facts = [p \in Players |-> IF p \in some THEN [points |-> w, final |-> final] ELSE NoPoints]
    BY DEF Init
  <2> QED
    BY <2>1
<1>3. cost \in [Entries -> Costs] /\ failed \subseteq Entries
  BY LeagueAssumption DEF LeagueAssumption, Init
<1>4. writes = 0 /\ writes \in 0..MaxWrites /\ 0..writes = {0}
  BY LeagueAssumption DEF LeagueAssumption, Init
<1>5. team \in [Entries -> [team: Teams \cup {NoTeam}, number: 0..writes]]
  BY <1>4 DEF Init
<1> QED
  BY <1>1, <1>2, <1>3, <1>4, <1>5 DEF Stored

LEMMA NextStored ==
  ASSUME Stored, [Next]_vars
  PROVE  Stored'
<1>1. CASE UNCHANGED data
  BY <1>1 DEF Stored, data
<1>2. ASSUME Write
      PROVE  writes' = writes + 1 /\ writes' \in 0..MaxWrites /\ 0..writes \subseteq 0..writes'
  BY <1>2, LeagueAssumption DEF LeagueAssumption, Write, Stored
<1>3. ASSUME Write, UNCHANGED team
      PROVE  team' \in [Entries -> [team: Teams \cup {NoTeam}, number: 0..writes']]
  BY <1>2, <1>3 DEF Stored
<1>4. CASE StorePage
  <2>1. PICK k \in DOMAIN Pages : \E rows \in Pages[k] :
          page' = [i \in DOMAIN page \cup {k} |-> IF i = k THEN rows ELSE page[i]]
          /\ UNCHANGED <<team, cost, failed, facts>>
    BY <1>4 DEF StorePage
  <2>2. \A i \in DOMAIN page' : i \in DOMAIN Pages /\ page'[i] \in Pages[i]
    BY <2>1 DEF Stored
  <2> QED
    BY <1>2, <1>3, <1>4, <2>1, <2>2 DEF StorePage, Stored
<1>5. CASE StorePicks
  <2>1. PICK e \in Entries, t \in Teams :
          /\ team' = [team EXCEPT ![e] = [team |-> t, number |-> @.number + 1]]
          /\ failed' = failed \ {e} /\ UNCHANGED <<page, cost, facts>>
    BY <1>5 DEF StorePicks
  <2>2. writes \in Nat /\ team[e].number \in 0..writes
    BY DEF Stored
  <2>3. [team |-> t, number |-> team[e].number + 1] \in [team: Teams \cup {NoTeam}, number: 0..writes']
    BY <1>2, <1>5, <2>2 DEF StorePicks
  <2>4. \A x \in Entries : team[x] \in [team: Teams \cup {NoTeam}, number: 0..writes']
    BY <1>2, <1>5 DEF StorePicks, Stored
  <2>5. team' \in [Entries -> [team: Teams \cup {NoTeam}, number: 0..writes']]
    BY <2>1, <2>3, <2>4 DEF Stored
  <2> QED
    BY <1>2, <1>5, <2>1, <2>5 DEF StorePicks, Stored
<1>6. CASE PicksFail
  BY <1>2, <1>3, <1>6 DEF PicksFail, Stored
<1>7. CASE StoreCost
  <2>1. cost' \in [Entries -> Costs]
    BY <1>7 DEF StoreCost, Stored
  <2> QED
    BY <1>2, <1>3, <1>7, <2>1 DEF StoreCost, Stored
<1>8. CASE StoreFacts
  BY <1>2, <1>3, <1>8 DEF StoreFacts, Stored
<1> QED
  BY <1>1, <1>4, <1>5, <1>6, <1>7, <1>8 DEF Next, vars, Ask, Analyse, Sync, ReadMembers, ReadFailures,
     ReadPoints, ReadStandings, ReadPicks, ReadFacts, ReadMeta, Weigh, Conclude

\* A write counts, and a request that is not served stays as it is.
LEMMA SyncWrites ==
  ASSUME Sync
  PROVE  writes' = writes + 1 /\ UNCHANGED <<request, answer>>
BY DEF Sync, StorePage, StorePicks, PicksFail, StoreCost, StoreFacts, Write

LEMMA PlayerPointsTyped ==
  ASSUME Stored
  PROVE  /\ PlayerPoints = [of |-> PlayerPoints.of, state |-> PlayerPoints.state]
         /\ PlayerPoints.of \in PointMaps /\ PlayerPoints.state \in States
<1> DEFINE found == {p \in Players : facts[p] # NoPoints}
<1>1. \A p \in found : facts[p].points \in Int
  BY LeagueAssumption DEF LeagueAssumption, Stored
<1>2. [p \in found |-> facts[p].points] \in PointMaps
  <2>1. [p \in found |-> facts[p].points] \in [found -> Int] /\ found \in SUBSET Players
    BY <1>1
  <2> HIDE DEF found
  <2> QED
    BY <2>1 DEF PointMaps
<1>3. Form \in PointMaps
  BY LeagueAssumption DEF LeagueAssumption, PointMaps
<1>4. PlayerPoints = IF found = {} THEN [of |-> Form, state |-> "estimated"]
        ELSE [of |-> [p \in found |-> facts[p].points],
              state |-> IF \A p \in found : facts[p].final THEN "actual" ELSE "provisional"]
  BY DEF PlayerPoints
<1> HIDE DEF found
<1> QED
  BY <1>2, <1>3, <1>4 DEF States

LEMMA WorthInt ==
  ASSUME NEW points \in PointMaps, NEW p
  PROVE  Worth(points, p) \in Int
BY DEF PointMaps, Worth, Known

LEMMA TeamFacts ==
  ASSUME NEW t \in Teams
  PROVE  /\ IsFiniteSet(DOMAIN t) /\ DOMAIN t \subseteq Players
         /\ \A p \in DOMAIN t : t[p].multiplier \in Int
BY LeagueAssumption DEF LeagueAssumption

\* The points of some players of a team are an integer.
LEMMA EffectiveInt ==
  ASSUME NEW t \in Teams, NEW points \in PointMaps, NEW S \in SUBSET (DOMAIN t)
  PROVE  Effective(t, points, S) \in Int
<1> DEFINE f == [p \in S |-> EffectivePoints(t, points, p)]
<1>1. IsFiniteSet(S)
  BY TeamFacts, FS_Subset
<1>2. ASSUME NEW p \in S
      PROVE  f[p] \in Int
  <2>1. Worth(points, p) \in Int /\ t[p].multiplier \in Int
    BY WorthInt, TeamFacts
  <2>2. PICK a \in Int, b \in Int : a = Worth(points, p) /\ b = t[p].multiplier
    BY <2>1
  <2>3. a * b \in Int
    OBVIOUS
  <2> QED
    BY <2>2, <2>3 DEF EffectivePoints
<1>3. SumFunctionOnSet(f, S) \in Int
  <2> HIDE DEF f
  <2> QED
    BY <1>1, <1>2, SumType
<1>4. DOMAIN f = S
  OBVIOUS
<1> QED
  BY <1>3, <1>4 DEF Effective, SumFunction

-----------------------------------------------------------------------------
(* Sequences of entries.                                                   *)

LEMMA TailFacts ==
  ASSUME NEW s \in Seq(Entries), s # <<>>
  PROVE  /\ Tail(s) \in Seq(Entries) /\ Head(s) \in Entries /\ Len(s) = Len(Tail(s)) + 1
         /\ ToSet(s) = {Head(s)} \cup ToSet(Tail(s))
         /\ IsInjective(s) => IsInjective(Tail(s)) /\ Head(s) \notin ToSet(Tail(s))
<1> DEFINE t == Tail(s)
<1>1. /\ Len(s) \in Nat /\ Len(s) # 0 /\ DOMAIN s = 1..Len(s) /\ \A i \in 1..Len(s) : s[i] \in Entries
  BY EmptySeq, LenProperties
<1>2. t \in Seq(Entries) /\ Len(t) = Len(s) - 1 /\ DOMAIN t = 1..Len(t) /\ Head(s) = s[1]
      /\ \A i \in 1..Len(t) : t[i] = s[i + 1]
  BY <1>1, HeadTailProperties
<1>3. \A i \in 2..Len(s) : i - 1 \in 1..Len(t) /\ t[i - 1] = s[i]
  BY <1>1, <1>2
<1>4. \A i \in 1..Len(t) : i + 1 \in 2..Len(s) /\ i + 1 \in 1..Len(s)
  BY <1>1, <1>2
<1> HIDE DEF t
<1>5. {s[i] : i \in DOMAIN s} = {s[1]} \cup {t[i] : i \in DOMAIN t}
  <2>1. ASSUME NEW i \in DOMAIN s
        PROVE  s[i] \in {s[1]} \cup {t[j] : j \in DOMAIN t}
    <3>1. i = 1 \/ i \in 2..Len(s)
      BY <1>1
    <3> QED
      BY <1>2, <1>3, <3>1
  <2>2. ASSUME NEW i \in DOMAIN t
        PROVE  t[i] \in {s[j] : j \in DOMAIN s}
    BY <1>1, <1>2, <1>4
  <2>3. 1 \in DOMAIN s
    BY <1>1
  <2> QED
    BY <2>1, <2>2, <2>3
<1>6. ASSUME IsInjective(s)
      PROVE  IsInjective(t) /\ \A i \in DOMAIN t : t[i] # s[1]
  <2>1. \A i, j \in DOMAIN s : s[i] = s[j] => i = j
    BY <1>6 DEF IsInjective
  <2>2. \A i, j \in 1..Len(t) : t[i] = t[j] => i = j
    <3> SUFFICES ASSUME NEW i \in 1..Len(t), NEW j \in 1..Len(t), t[i] = t[j]
                 PROVE  i = j
      OBVIOUS
    <3>1. s[i + 1] = s[j + 1] /\ i + 1 \in DOMAIN s /\ j + 1 \in DOMAIN s
      BY <1>1, <1>2, <1>4
    <3> QED
      BY <2>1, <3>1
  <2>3. \A i \in 1..Len(t) : t[i] # s[1]
    <3> SUFFICES ASSUME NEW i \in 1..Len(t), t[i] = s[1]
                 PROVE  FALSE
      OBVIOUS
    <3>1. s[i + 1] = s[1] /\ i + 1 \in DOMAIN s /\ 1 \in DOMAIN s /\ i + 1 # 1
      BY <1>1, <1>2, <1>4
    <3> QED
      BY <2>1, <3>1
  <2> QED
    BY <1>2, <2>2, <2>3 DEF IsInjective
<1>7. Head(s) \in Entries /\ Len(s) = Len(t) + 1
  BY <1>1, <1>2
<1> QED
  BY <1>2, <1>5, <1>6, <1>7 DEF t, ToSet

-----------------------------------------------------------------------------
(* The selection.                                                          *)

LEMMA RowsFinite ==
  ASSUME Stored
  PROVE  IsFiniteSet(Rows(page)) /\ Rows(page) \subseteq [entry: Entries, rank: Nat]
<1> DEFINE of(k) == {[entry |-> e, rank |-> page[k][e]] : e \in DOMAIN page[k]}
           all == [k \in DOMAIN page |-> of(k)]
<1>1. ASSUME NEW k \in DOMAIN page
      PROVE  /\ DOMAIN page[k] \subseteq Entries /\ IsFiniteSet(DOMAIN page[k])
             /\ \A e \in DOMAIN page[k] : page[k][e] \in Nat
  BY LeagueAssumption DEF LeagueAssumption, Stored
<1>2. ASSUME NEW k \in DOMAIN page
      PROVE  IsFiniteSet(of(k)) /\ of(k) \subseteq [entry: Entries, rank: Nat]
  <2> DEFINE row == [e \in DOMAIN page[k] |-> [entry |-> e, rank |-> page[k][e]]]
  <2>1. of(k) = {row[e] : e \in DOMAIN page[k]}
    OBVIOUS
  <2>2. IsFiniteSet({row[e] : e \in DOMAIN page[k]})
    <3> HIDE DEF row
    <3> QED
      BY <1>1, FiniteImage
  <2>3. of(k) \subseteq [entry: Entries, rank: Nat]
    BY <1>1
  <2> QED
    BY <2>1, <2>2, <2>3
<1>3. IsFiniteSet(DOMAIN page)
  <2>1. DOMAIN page \in SUBSET DOMAIN Pages
    BY DEF Stored
  <2> QED
    BY <2>1, LeagueAssumption, FS_Subset DEF LeagueAssumption
<1>4. {all[k] : k \in DOMAIN page} = {of(k) : k \in DOMAIN page}
  OBVIOUS
<1>5. IsFiniteSet({all[k] : k \in DOMAIN page})
  <2> HIDE DEF all
  <2> QED
    BY <1>3, FiniteImage
<1>6. IsFiniteSet({of(k) : k \in DOMAIN page})
  BY <1>4, <1>5
<1>7. \A T \in {of(k) : k \in DOMAIN page} : IsFiniteSet(T) /\ T \subseteq [entry: Entries, rank: Nat]
  <2> HIDE DEF of
  <2> QED
    BY <1>2
<1>8. Rows(page) = UNION {of(k) : k \in DOMAIN page}
  BY DEF Rows
<1> QED
  <2> DEFINE parts == {of(k) : k \in DOMAIN page}
  <2>1. IsFiniteSet(parts) /\ Rows(page) = UNION parts
        /\ \A T \in parts : IsFiniteSet(T) /\ T \subseteq [entry: Entries, rank: Nat]
    BY <1>6, <1>7, <1>8
  <2> HIDE DEF parts
  <2>2. IsFiniteSet(UNION parts)
    BY <2>1, FS_UNION
  <2>3. UNION parts \subseteq [entry: Entries, rank: Nat]
    BY <2>1
  <2> QED
    BY <2>1, <2>2, <2>3

\* Each entry has one row among the members.
OneEach(members) ==
  /\ members \in Seq([entry: Entries, rank: Nat])
  /\ \A i, j \in DOMAIN members : members[i].entry = members[j].entry => i = j

LEMMA MembersOnce ==
  ASSUME Stored
  PROVE  OneEach(Members(page))
<1> DEFINE S == {r \in Rows(page) : \A o \in Rows(page) : o.entry = r.entry => r.rank <= o.rank}
           R == {w \in S \X S : Before(w[1], w[2])}
           N == Cardinality(S)
           rank == [p \in S |-> Cardinality({q \in S : <<q, p>> \in R})]
           at(i) == CHOOSE p \in S : Cardinality({q \in S : Before(q, p)}) = i
           M == [i \in 1..N |-> at(i)]
<1>1. S \in SUBSET Rows(page) /\ S \subseteq [entry: Entries, rank: Nat]
  BY RowsFinite
<1>2. IsFiniteSet(S) /\ N \in Nat
  <2> HIDE DEF S
  <2> QED
    BY <1>1, RowsFinite, FS_Subset, FS_CardinalityType
<1>3. \A p \in S : p = [entry |-> p.entry, rank |-> p.rank] /\ p.entry \in Nat /\ p.rank \in Nat
                   /\ p.entry \in Entries
  BY <1>1, LeagueAssumption DEF LeagueAssumption
<1>4. \A p, q \in S : <<q, p>> \in R <=> Before(q, p)
  <2> HIDE DEF S
  <2> QED
    OBVIOUS
<1>5. \A p, q \in S : p.entry = q.entry => p = q
  <2>1. ASSUME NEW p \in S, NEW q \in S, p.entry = q.entry
        PROVE  p = q
    <3>1. p.rank <= q.rank /\ q.rank <= p.rank
      BY <2>1
    <3> HIDE DEF S
    <3> QED
      BY <1>3, <2>1, <3>1
  <2> QED
    BY <2>1
<1> HIDE DEF S
<1>6. /\ \A p \in S : <<p, p>> \in R
      /\ \A p, q \in S : <<p, q>> \in R \/ <<q, p>> \in R
  BY <1>3, <1>4 DEF Before
<1>7. \A p, q \in S : <<p, q>> \in R /\ <<q, p>> \in R => p = q
  BY <1>3, <1>4, <1>5 DEF Before
<1>8. \A p, q, r \in S : <<p, q>> \in R /\ <<q, r>> \in R => <<p, r>> \in R
  BY <1>3, <1>4 DEF Before
<1>9. rank \in Bijection(S, 1..N)
  <2> HIDE DEF R
  <2> QED
    BY <1>2, <1>6, <1>7, <1>8, EveryPlaceIsTaken
<1>10. \A p \in S : rank[p] = Cardinality({q \in S : Before(q, p)})
  <2>1. \A p \in S : {q \in S : <<q, p>> \in R} = {q \in S : Before(q, p)}
    BY <1>4
  <2> HIDE DEF R
  <2> QED
    BY <2>1
<1> HIDE DEF R, rank, N
<1>11. ASSUME NEW i \in 1..N
       PROVE  M[i] \in S /\ rank[M[i]] = i
  <2>1. \E p \in S : rank[p] = i
    BY <1>9 DEF Bijection, Surjection
  <2>2. \E p \in S : Cardinality({q \in S : Before(q, p)}) = i
    BY <1>10, <2>1
  <2>3. at(i) \in S /\ Cardinality({q \in S : Before(q, at(i))}) = i
    BY <2>2
  <2>4. M[i] = at(i)
    <3> HIDE DEF at
    <3> QED
      OBVIOUS
  <2> HIDE DEF M, at
  <2> QED
    BY <1>10, <2>3, <2>4
<1>12. Members(page) = M
  BY DEF Members, Ordered, S, N
<1>13. DOMAIN M = 1..N /\ M = [i \in 1..N |-> M[i]]
  <2> HIDE DEF at
  <2> QED
    OBVIOUS
<1> HIDE DEF M
<1>14. M \in Seq([entry: Entries, rank: Nat])
  <2>1. \A i \in 1..N : M[i] \in [entry: Entries, rank: Nat]
    BY <1>1, <1>11
  <2>2. M \in [1..N -> [entry: Entries, rank: Nat]]
    BY <1>13, <2>1
  <2>3. N \in Nat
    BY <1>2 DEF N
  <2> QED
    BY <2>2, <2>3, SeqDef
<1>15. \A i, j \in DOMAIN M : M[i].entry = M[j].entry => i = j
  <2>1. ASSUME NEW i \in 1..N, NEW j \in 1..N, M[i].entry = M[j].entry
        PROVE  i = j
    <3>1. M[i] = M[j]
      BY <1>5, <1>11, <2>1
    <3> QED
      BY <1>11, <3>1
  <2> QED
    BY <1>13, <2>1
<1> QED
  BY <1>12, <1>14, <1>15 DEF OneEach

\* A part of the members names each of them once.
LEMMA SelectedOneEach ==
  ASSUME NEW members, OneEach(members), NEW I, NEW limit \in Nat, NEW chosen,
         chosen = Subsequence(members, I),
         NEW s, s = [i \in 1..Min({Len(chosen), limit}) |-> chosen[i].entry]
  PROVE  s \in Seq(Entries) /\ IsInjective(s)
<1>1. members \in Seq([entry: Entries, rank: Nat])
  BY DEF OneEach
<1>2. /\ chosen \in Seq([entry: Entries, rank: Nat])
      /\ IsPicked(chosen, members, I, Len(members))
  BY <1>1, SubsequenceFacts
<1>3. PICK at \in [1..Len(chosen) -> 1..Len(members)] :
        /\ \A k \in 1..Len(chosen) : at[k] \in I /\ chosen[k] = members[at[k]]
        /\ \A k, l \in 1..Len(chosen) : k < l => at[k] < at[l]
  BY <1>2 DEF IsPicked
<1>4. Len(chosen) \in Nat /\ Len(members) \in Nat /\ DOMAIN members = 1..Len(members)
      /\ \A k \in 1..Len(chosen) : chosen[k] \in [entry: Entries, rank: Nat]
  BY <1>1, <1>2, LenProperties
<1>5. ASSUME NEW k \in 1..Len(chosen), NEW l \in 1..Len(chosen), chosen[k].entry = chosen[l].entry
      PROVE  k = l
  <2>1. at[k] = at[l]
    <3>1. at[k] \in DOMAIN members /\ at[l] \in DOMAIN members
      BY <1>4
    <3>2. members[at[k]].entry = members[at[l]].entry
      BY <1>3, <1>5
    <3> QED
      BY <3>1, <3>2 DEF OneEach
  <2>2. at[k] \in Int /\ at[l] \in Int /\ k \in Int /\ l \in Int
    BY <1>3, <1>4
  <2>3. ~ (k < l) /\ ~ (l < k)
    BY <1>3, <2>1, <2>2
  <2> QED
    BY <2>2, <2>3
<1>6. PICK m : m = Min({Len(chosen), limit})
  OBVIOUS
<1>7. m \in Nat /\ m <= Len(chosen)
  <2>1. \E x \in {Len(chosen), limit} : \A y \in {Len(chosen), limit} : x <= y
    BY <1>4
  <2>2. m = CHOOSE x \in {Len(chosen), limit} : \A y \in {Len(chosen), limit} : x <= y
    BY <1>6 DEF Min
  <2>3. m \in {Len(chosen), limit} /\ \A y \in {Len(chosen), limit} : m <= y
    BY <2>1, <2>2
  <2> QED
    BY <1>4, <2>3
<1>8. s = [i \in 1..m |-> chosen[i].entry]
  BY <1>6
<1>9. DOMAIN s = 1..m /\ \A i \in 1..m : i \in 1..Len(chosen) /\ s[i] = chosen[i].entry /\ s[i] \in Entries
  <2>1. \A i \in 1..m : i \in 1..Len(chosen)
    BY <1>4, <1>7
  <2>2. \A i \in 1..m : chosen[i].entry \in Entries
    BY <1>4, <2>1
  <2> QED
    BY <1>8, <2>1, <2>2
<1>10. s \in Seq(Entries)
  <2>1. s \in [1..m -> Entries]
    BY <1>8, <1>9
  <2> QED
    BY <1>7, <2>1, SeqDef
<1>11. IsInjective(s)
  BY <1>5, <1>9 DEF IsInjective
<1> QED
  BY <1>10, <1>11

LEMMA SelectionFacts ==
  ASSUME Stored, NEW q \in Requests, NEW s,
         s = SelectLeagueMembers(Members(page), q.explicit, q.from, q.to, q.limit)
  PROVE  s \in Seq(Entries) /\ IsInjective(s)
<1>1. PICK members : members = Members(page)
  OBVIOUS
<1>2. AtMost(q.limit) \in Nat
  BY LeagueAssumption DEF AtMost
<1>3. \E I : LET chosen == Subsequence(members, I)
             IN s = [i \in 1..Min({Len(chosen), AtMost(q.limit)}) |-> chosen[i].entry]
  BY <1>1 DEF SelectLeagueMembers
<1>4. PICK I, chosen : /\ chosen = Subsequence(members, I)
                       /\ s = [i \in 1..Min({Len(chosen), AtMost(q.limit)}) |-> chosen[i].entry]
  BY <1>3
<1> QED
  <2>1. OneEach(members)
    BY <1>1, MembersOnce
  <2> QED
    BY <1>2, <1>4, <2>1, SelectedOneEach

-----------------------------------------------------------------------------
(* The queries of an analysis.                                             *)

\* s is r but for some fields.
Same(s, r, fields) == IsAnalysis(s) /\ \A f \in Fields \ fields : s[f] = r[f]

LEMMA AskSound ==
  ASSUME NEW q \in Requests, Stored, NEW r,
         r = [kind |-> q.kind, query |-> q, members |-> <<>>, selected |-> <<>>,
              failures |-> {}, points |-> [of |-> <<>>, state |-> "none"],
              todo |-> IF q.kind = "autopsy" THEN q.entries ELSE <<>>,
              now |-> Idle, loaded |-> <<>>, missing |-> {}, outcome |-> "actual", since |-> writes,
              stage |-> IF q.kind = "autopsy" THEN "picks" ELSE "members"]
  PROVE  Sound(r)
<1>1. /\ q.kind \in {"compare", "summary", "autopsy"}
      /\ q.kind = "autopsy" => q.entries # <<>> /\ q.entries \in Seq(Entries)
  BY LeagueAssumption DEF LeagueAssumption
<1>2. IsAnalysis(r)
  BY DEF IsAnalysis, Fields
<1>3. <<>> \in Seq(Entries) /\ <<>> \in Seq(Weighed) /\ DOMAIN <<>> = {} /\ writes \in Nat
  BY DEF Stored
<1>4. Typed(r)
  BY <1>1, <1>2, <1>3 DEF Typed, Loading
<1>5. Loaded(r) /\ Selection(r) /\ Accounted(r) /\ Honest(r)
  BY <1>1, <1>3 DEF Loaded, Selection, Accounted, Honest, Loading, IsInjective
<1>6. Quiet(r)
  BY <1>1, <1>3 DEF Quiet
<1> QED
  BY <1>4, <1>5, <1>6 DEF Sound

LEMMA MembersSound ==
  ASSUME Stored, NEW r, Sound(r), r.stage = "members", NEW members, NEW missing, NEW stage, NEW s, NEW selected,
         selected \in Seq(Entries), IsInjective(selected),
         stage \in {"failures", "standings"},
         stage = "failures" => r.kind = "compare", stage = "standings" => r.kind = "summary",
         s = [r EXCEPT !.members = members, !.selected = selected, !.missing = missing, !.stage = stage]
  PROVE  Sound(s)
<1>1. /\ Same(s, r, {"members", "selected", "missing", "stage"})
      /\ s.selected = selected /\ s.stage = stage
  BY DEF Sound, Typed, IsAnalysis, Fields, Same
<1>2. /\ s.kind = r.kind /\ s.query = r.query /\ s.points = r.points /\ s.todo = r.todo /\ s.now = r.now
      /\ s.loaded = r.loaded /\ s.outcome = r.outcome /\ s.since = r.since
  BY <1>1 DEF Same, Fields
<1>3. Typed(s)
  BY <1>1, <1>2 DEF Sound, Typed, Same, Loading
<1>4. Loaded(s) /\ Selection(s) /\ Accounted(s) /\ Honest(s)
  BY <1>1, <1>2 DEF Sound, Loaded, Selection, Accounted, Honest, Loading
<1>5. Quiet(s)
  BY <1>1, <1>2 DEF Sound, Quiet
<1> QED
  BY <1>3, <1>4, <1>5 DEF Sound

LEMMA FailuresSound ==
  ASSUME Stored, NEW r, Sound(r), r.stage = "failures", NEW failures, NEW missing, NEW s,
         s = [r EXCEPT !.failures = failures, !.missing = missing, !.stage = "points"]
  PROVE  Sound(s)
<1>1. Same(s, r, {"failures", "missing", "stage"}) /\ s.stage = "points"
  BY DEF Sound, Typed, IsAnalysis, Fields, Same
<1>2. /\ s.kind = r.kind /\ s.query = r.query /\ s.points = r.points /\ s.todo = r.todo /\ s.now = r.now
      /\ s.loaded = r.loaded /\ s.outcome = r.outcome /\ s.since = r.since /\ s.selected = r.selected
  BY <1>1 DEF Same, Fields
<1>3. s.kind = "compare" /\ s.points.state = "none"
  BY <1>2 DEF Sound, Typed
<1>4. Typed(s)
  BY <1>1, <1>2, <1>3 DEF Sound, Typed, Same, Loading
<1>5. Loaded(s) /\ Selection(s) /\ Accounted(s) /\ Honest(s)
  BY <1>1, <1>2 DEF Sound, Loaded, Selection, Accounted, Honest, Loading
<1>6. Quiet(s)
  BY <1>1, <1>2 DEF Sound, Quiet
<1> QED
  BY <1>4, <1>5, <1>6 DEF Sound

\* The points of a comparison are read: everything selected is to be loaded.
LEMMA ComparisonStarts ==
  ASSUME Stored, NEW r, Sound(r), r.stage = "points", r.kind = "compare", NEW s,
         s = Load([r EXCEPT !.points = PlayerPoints, !.outcome = PlayerPoints.state, !.todo = r.selected])
  PROVE  Sound(s)
<1>1. PICK p \in [of: PointMaps, state: States] : p = PlayerPoints
  BY PlayerPointsTyped
<1>2. s = [r EXCEPT !.points = p, !.outcome = p.state, !.todo = r.selected,
             !.stage = IF r.selected = <<>> THEN "conclude" ELSE "picks"]
  BY <1>1 DEF Load, Sound, Typed, IsAnalysis, Fields
<1>3. /\ Same(s, r, {"points", "outcome", "todo", "stage"}) /\ s.points = p /\ s.outcome = p.state
      /\ s.todo = r.selected /\ s.stage = IF r.selected = <<>> THEN "conclude" ELSE "picks"
  BY <1>2 DEF Sound, Typed, IsAnalysis, Fields, Same
<1>4. /\ s.kind = "compare" /\ s.query = r.query /\ s.now = r.now /\ s.loaded = <<>> /\ s.since = r.since
      /\ s.selected = r.selected /\ r.selected \in Seq(Entries) /\ p.state # "none" /\ DOMAIN <<>> = {}
  BY <1>3 DEF Same, Fields, Sound, Typed, Selection, States
<1>5. Typed(s)
  BY <1>3, <1>4 DEF Sound, Typed, Same, Loading
<1>6. Loaded(s) /\ Selection(s) /\ Honest(s)
  BY <1>3, <1>4 DEF Sound, Loaded, Selection, Honest
<1>7. Accounted(s)
  <2>1. Len(s.selected) \in Nat /\ IsInjective(s.todo) /\ s.stage # "weigh" /\ Len(s.loaded) = 0
    BY <1>3, <1>4, LenProperties DEF Sound, Selection
  <2>2. ToLoad(s) = ToSet(s.selected) /\ Left(s) = Len(s.selected)
    BY <1>3, <1>4, <2>1 DEF ToLoad, Left
  <2>3. EntriesOf(s.loaded) = {} /\ Distinct(s.loaded)
    BY <1>3, <1>4 DEF EntriesOf, Distinct
  <2>4. /\ EntriesOf(s.loaded) \cup ToLoad(s) = ToSet(s.selected) /\ EntriesOf(s.loaded) \cap ToLoad(s) = {}
        /\ Len(s.loaded) + Left(s) = Len(s.selected)
    BY <2>1, <2>2, <2>3
  <2>5. /\ EntriesOf(s.loaded) \cup ToLoad(s) \subseteq ToSet(s.selected)
        /\ ToSet(s.selected) \subseteq EntriesOf(s.loaded) \cup ToLoad(s)
        /\ Len(s.loaded) + Left(s) <= Len(s.selected)
    BY <2>1, <2>4
  <2> QED
    BY <2>1, <2>3, <2>4, <2>5 DEF Accounted
<1>8. Quiet(s)
  BY <1>1, <1>3, <1>4 DEF Sound, Quiet
<1> QED
  BY <1>5, <1>6, <1>7, <1>8 DEF Sound

\* The members of a summary are read: everything selected is to be loaded.
LEMMA SummaryStarts ==
  ASSUME Stored, NEW r, Sound(r), r.stage = "standings", NEW s,
         s = Load([r EXCEPT !.todo = r.selected])
  PROVE  Sound(s)
<1>1. s = [r EXCEPT !.todo = r.selected, !.stage = IF r.selected = <<>> THEN "conclude" ELSE "picks"]
  BY DEF Load, Sound, Typed, IsAnalysis, Fields
<1>2. /\ Same(s, r, {"todo", "stage"})
      /\ s.todo = r.selected /\ s.stage = IF r.selected = <<>> THEN "conclude" ELSE "picks"
  BY <1>1 DEF Sound, Typed, IsAnalysis, Fields, Same
<1>3. /\ s.kind = "summary" /\ s.query = r.query /\ s.now = r.now /\ s.loaded = <<>> /\ s.since = r.since
      /\ s.selected = r.selected /\ r.selected \in Seq(Entries) /\ s.points = r.points /\ DOMAIN <<>> = {}
      /\ r.points.state = "none"
  BY <1>2 DEF Same, Fields, Sound, Typed, Selection
<1>4. Typed(s)
  BY <1>2, <1>3 DEF Sound, Typed, Same, Loading
<1>5. Loaded(s) /\ Selection(s) /\ Honest(s)
  BY <1>2, <1>3 DEF Sound, Loaded, Selection, Honest
<1>6. Accounted(s)
  <2>1. Len(s.selected) \in Nat /\ IsInjective(s.todo) /\ s.stage # "weigh" /\ Len(s.loaded) = 0
    BY <1>2, <1>3, LenProperties DEF Sound, Selection
  <2>2. ToLoad(s) = ToSet(s.selected) /\ Left(s) = Len(s.selected)
    BY <1>2, <1>3, <2>1 DEF ToLoad, Left
  <2>3. EntriesOf(s.loaded) = {} /\ Distinct(s.loaded)
    BY <1>2, <1>3 DEF EntriesOf, Distinct
  <2>4. /\ EntriesOf(s.loaded) \cup ToLoad(s) = ToSet(s.selected) /\ EntriesOf(s.loaded) \cap ToLoad(s) = {}
        /\ Len(s.loaded) + Left(s) = Len(s.selected)
    BY <2>1, <2>2, <2>3
  <2>5. /\ EntriesOf(s.loaded) \cup ToLoad(s) \subseteq ToSet(s.selected)
        /\ ToSet(s.selected) \subseteq EntriesOf(s.loaded) \cup ToLoad(s)
        /\ Len(s.loaded) + Left(s) <= Len(s.selected)
    BY <2>1, <2>4
  <2> QED
    BY <2>1, <2>3, <2>4, <2>5 DEF Accounted
<1>7. Quiet(s)
  BY <1>2, <1>3 DEF Sound, Quiet
<1> QED
  BY <1>4, <1>5, <1>6, <1>7 DEF Sound

\* The team of an autopsy is loaded and the points are read again: its rival
\* is to be loaded, if there is one.
LEMMA AutopsyGoesOn ==
  ASSUME Stored, NEW r, Sound(r), r.stage = "points", r.kind = "autopsy", NEW s,
         s = Load([r EXCEPT !.points = PlayerPoints, !.todo = Tail(r.query.entries)])
  PROVE  Sound(s)
<1>1. PICK p \in [of: PointMaps, state: States] : p = PlayerPoints
  BY PlayerPointsTyped
<1>2. PICK rest : rest = Tail(r.query.entries)
  OBVIOUS
<1>3. rest \in Seq(Entries)
  <2>1. r.query.entries # <<>> /\ r.query.entries \in Seq(Entries)
    BY LeagueAssumption DEF LeagueAssumption, Sound, Typed
  <2> QED
    BY <1>2, <2>1, HeadTailProperties, EmptySeq
<1>4. s = [r EXCEPT !.points = p, !.todo = rest, !.stage = IF rest = <<>> THEN "conclude" ELSE "picks"]
  BY <1>1, <1>2 DEF Load, Sound, Typed, IsAnalysis, Fields
<1>5. /\ Same(s, r, {"points", "todo", "stage"}) /\ s.points = p
      /\ s.todo = rest /\ s.stage = IF rest = <<>> THEN "conclude" ELSE "picks"
  BY <1>4 DEF Sound, Typed, IsAnalysis, Fields, Same
<1>6. /\ s.kind = "autopsy" /\ s.query = r.query /\ s.now = r.now /\ s.loaded = r.loaded /\ s.since = r.since
      /\ s.selected = r.selected /\ p.state # "none" /\ r.loaded # <<>>
  BY <1>5 DEF Same, Fields, Sound, Typed, States
<1>7. Typed(s)
  BY <1>3, <1>5, <1>6 DEF Sound, Typed, Same, Loading
<1>8. Loaded(s) /\ Selection(s) /\ Honest(s) /\ Accounted(s)
  BY <1>5, <1>6 DEF Sound, Loaded, Selection, Honest, Accounted
<1>9. Quiet(s)
  BY <1>1, <1>5, <1>6 DEF Sound, Quiet
<1> QED
  BY <1>7, <1>8, <1>9 DEF Sound

\* An entry to load is one the source may know.
LEMMA HeadEntry ==
  ASSUME Stored, NEW r, Sound(r), r.stage \in {"picks", "facts", "meta"}
  PROVE  Head(r.todo) \in Entries /\ team[Head(r.todo)].team \in Teams \cup {NoTeam}
         /\ team[Head(r.todo)].number \in Nat /\ cost[Head(r.todo)] \in Costs
<1>1. Head(r.todo) \in Entries
  BY TailFacts DEF Sound, Typed
<1> QED
  BY <1>1 DEF Stored

LEMMA PicksSound ==
  ASSUME Stored, NEW r, Sound(r), r.stage = "picks", NEW s,
         s = [r EXCEPT !.now = [entry |-> Head(r.todo), team |-> team[Head(r.todo)].team], !.stage = "facts"]
  PROVE  Sound(s)
<1>1. PICK n : n = [entry |-> Head(r.todo), team |-> team[Head(r.todo)].team]
  OBVIOUS
<1>2. n \in Picked /\ n.entry = Head(r.todo)
  BY <1>1, HeadEntry DEF Picked
<1>3. Same(s, r, {"now", "stage"}) /\ s.now = n /\ s.stage = "facts"
  BY <1>1 DEF Sound, Typed, IsAnalysis, Fields, Same
<1>4. /\ s.kind = r.kind /\ s.query = r.query /\ s.points = r.points /\ s.todo = r.todo
      /\ s.loaded = r.loaded /\ s.outcome = r.outcome /\ s.since = r.since /\ s.selected = r.selected
  BY <1>3 DEF Same, Fields
<1>5. Typed(s)
  BY <1>2, <1>3, <1>4 DEF Sound, Typed, Same, Loading
<1>6. Loaded(s) /\ Selection(s) /\ Honest(s)
  BY <1>3, <1>4 DEF Sound, Loaded, Selection, Honest, Loading
<1>7. Accounted(s)
  BY <1>3, <1>4 DEF Sound, Accounted, Loading, ToLoad, Left
<1>8. Quiet(s)
  BY <1>3, <1>4 DEF Sound, Quiet
<1> QED
  BY <1>5, <1>6, <1>7, <1>8 DEF Sound

LEMMA FactsSound ==
  ASSUME Stored, NEW r, Sound(r), r.stage = "facts", NEW s, NEW n,
         n = [entry |-> r.now.entry, team |-> r.now.team, points |-> PlayerPoints.of, state |-> PlayerPoints.state,
              gross |-> IF r.now.team = NoTeam THEN 0 ELSE GrossPoints(r.now.team, PlayerPoints.of)],
         s = [r EXCEPT !.stage = "meta", !.now = n]
  PROVE  Sound(s)
<1>1. r.now \in Picked /\ r.now.entry = Head(r.todo)
  BY DEF Sound, Typed
<1>2. n.gross \in Int
  <2>1. CASE r.now.team = NoTeam
    BY <2>1
  <2>2. CASE r.now.team # NoTeam
    <3>1. r.now.team \in Teams
      BY <1>1, <2>2 DEF Picked
    <3>2. GrossPoints(r.now.team, PlayerPoints.of) \in Int
      BY <3>1, PlayerPointsTyped, EffectiveInt DEF GrossPoints
    <3> QED
      BY <2>2, <3>2
  <2> QED
    BY <2>1, <2>2
<1>3. n \in Scored /\ n.entry = Head(r.todo) /\ n.points = PlayerPoints.of /\ (n.team # NoTeam => Gross(n))
  BY <1>1, <1>2, PlayerPointsTyped DEF Scored, Picked, Gross
<1>4. Same(s, r, {"now", "stage"}) /\ s.now = n /\ s.stage = "meta"
  BY DEF Sound, Typed, IsAnalysis, Fields, Same
<1>5. /\ s.kind = r.kind /\ s.query = r.query /\ s.points = r.points /\ s.todo = r.todo
      /\ s.loaded = r.loaded /\ s.outcome = r.outcome /\ s.since = r.since /\ s.selected = r.selected
  BY <1>4 DEF Same, Fields
<1>6. Typed(s)
  BY <1>3, <1>4, <1>5 DEF Sound, Typed, Same, Loading
<1>7. Loaded(s) /\ Selection(s) /\ Honest(s)
  BY <1>3, <1>4, <1>5 DEF Sound, Loaded, Selection, Honest, Loading
<1>8. Accounted(s)
  BY <1>4, <1>5 DEF Sound, Accounted, Loading, ToLoad, Left
<1>9. Quiet(s)
  BY <1>3, <1>4, <1>5 DEF Sound, Quiet
<1> QED
  BY <1>6, <1>7, <1>8, <1>9 DEF Sound

LEMMA MetaSound ==
  ASSUME Stored, NEW r, Sound(r), r.stage = "meta", NEW s, NEW n, NEW e, e = r.now.entry,
         n = [entry |-> e, team |-> r.now.team, points |-> r.now.points, state |-> r.now.state,
              gross |-> r.now.gross, number |-> team[e].number, cost |-> cost[e]],
         s = [r EXCEPT !.stage = "weigh", !.todo = Tail(r.todo), !.now = n]
  PROVE  Sound(s)
<1>1. r.now \in Scored /\ e = Head(r.todo) /\ r.todo \in Seq(Entries) /\ r.todo # <<>>
  BY DEF Sound, Typed
<1>2. n \in Weighed /\ n.entry = e /\ n.points = r.now.points /\ n.team = r.now.team /\ n.gross = r.now.gross
  BY <1>1, HeadEntry DEF Scored, Weighed
<1>3. PICK rest : rest = Tail(r.todo)
  OBVIOUS
<1>4. /\ rest \in Seq(Entries) /\ Len(r.todo) = Len(rest) + 1 /\ Len(rest) \in Nat
      /\ ToSet(r.todo) = {e} \cup ToSet(rest)
      /\ IsInjective(r.todo) => IsInjective(rest) /\ e \notin ToSet(rest)
  BY <1>1, <1>3, TailFacts, LenProperties
<1>5. Same(s, r, {"now", "stage", "todo"}) /\ s.now = n /\ s.stage = "weigh" /\ s.todo = rest
  BY <1>3 DEF Sound, Typed, IsAnalysis, Fields, Same
<1>6. /\ s.kind = r.kind /\ s.query = r.query /\ s.points = r.points
      /\ s.loaded = r.loaded /\ s.outcome = r.outcome /\ s.since = r.since /\ s.selected = r.selected
  BY <1>5 DEF Same, Fields
<1>7. Typed(s)
  BY <1>2, <1>4, <1>5, <1>6 DEF Sound, Typed, Same, Loading
<1>8. Loaded(s) /\ Selection(s) /\ Honest(s)
  BY <1>2, <1>5, <1>6 DEF Sound, Loaded, Selection, Honest, Loading, Gross
<1>9. Accounted(s)
  <2> SUFFICES ASSUME s.kind # "autopsy"
               PROVE  Accounted(s)
    BY DEF Accounted
  <2>1. Left(s) = Left(r)
    BY <1>4, <1>5, <1>6 DEF Left
  <2>2. ToLoad(s) = ToLoad(r)
    BY <1>2, <1>4, <1>5, <1>6 DEF ToLoad
  <2>3. IsInjective(r.todo)
    BY <1>6 DEF Sound, Accounted, Loading
  <2> QED
    BY <1>2, <1>4, <1>5, <1>6, <2>1, <2>2, <2>3 DEF Sound, Accounted, Loading
<1>10. Quiet(s)
  BY <1>2, <1>5, <1>6 DEF Sound, Quiet
<1> QED
  BY <1>7, <1>8, <1>9, <1>10 DEF Sound

\* One more entry among those loaded.
With(loaded, n, more) ==
  /\ more \in Seq(Weighed) /\ more # <<>> /\ Len(more) = Len(loaded) + 1
  /\ EntriesOf(more) = EntriesOf(loaded) \cup {n.entry}
  /\ Distinct(loaded) /\ n.entry \notin EntriesOf(loaded) => Distinct(more)
  /\ \A i \in DOMAIN more : more[i] = n \/ (i \in DOMAIN loaded /\ more[i] = loaded[i])

LEMMA OneMore ==
  ASSUME NEW loaded \in Seq(Weighed), NEW n \in Weighed, NEW more, more = Append(loaded, n)
  PROVE  With(loaded, n, more)
<1> DEFINE L == Len(loaded)
<1>1. L \in Nat /\ DOMAIN loaded = 1..L
  BY LenProperties
<1>2. /\ more \in Seq(Weighed) /\ Len(more) = L + 1 /\ more[L + 1] = n /\ DOMAIN more = 1..(L + 1)
      /\ \A i \in 1..L : more[i] = loaded[i]
  BY AppendProperties, LenProperties
<1>3. \A i \in 1..(L + 1) : i = L + 1 \/ i \in 1..L
  BY <1>1
<1>4. more # <<>>
  BY <1>1, <1>2, EmptySeq
<1> HIDE DEF L
<1>5. \A i \in DOMAIN more : more[i] = n \/ (i \in DOMAIN loaded /\ more[i] = loaded[i])
  BY <1>1, <1>2, <1>3
<1>6. EntriesOf(more) = EntriesOf(loaded) \cup {n.entry}
  <2>1. \A i \in DOMAIN more : more[i].entry \in EntriesOf(loaded) \cup {n.entry}
    BY <1>5 DEF EntriesOf
  <2>2. \A i \in DOMAIN loaded : i \in DOMAIN more /\ more[i].entry = loaded[i].entry
    BY <1>1, <1>2
  <2>3. L + 1 \in DOMAIN more /\ more[L + 1].entry = n.entry
    BY <1>1, <1>2
  <2> QED
    BY <2>1, <2>2, <2>3 DEF EntriesOf
<1>7. ASSUME Distinct(loaded), n.entry \notin EntriesOf(loaded)
      PROVE  Distinct(more)
  <2> SUFFICES ASSUME NEW i \in DOMAIN more, NEW j \in DOMAIN more, more[i].entry = more[j].entry
               PROVE  i = j
    BY DEF Distinct
  <2>1. \A k \in 1..L : more[k].entry = loaded[k].entry /\ loaded[k].entry # n.entry
    BY <1>1, <1>2, <1>7 DEF EntriesOf
  <2>2. CASE i = L + 1 \/ j = L + 1
    BY <1>2, <1>3, <2>1, <2>2
  <2>3. CASE i \in 1..L /\ j \in 1..L
    BY <1>1, <1>7, <2>1, <2>3 DEF Distinct
  <2> QED
    BY <1>2, <1>3, <2>2, <2>3
<1> QED
  BY <1>2, <1>4, <1>5, <1>6, <1>7 DEF L, With

\* An entry that counts has picks, each of them with points in a comparison.
LEMMA NothingLacks ==
  ASSUME NEW r, Sound(r), r.stage = "weigh", Lacks(r) = {}
  PROVE  /\ r.now.team # NoTeam
         /\ r.kind = "compare" => DOMAIN r.now.team \subseteq DOMAIN r.points.of
<1>1. r.now.team # NoTeam
  BY DEF Lacks
<1>2. ASSUME r.kind = "compare", NEW p \in DOMAIN r.now.team, p \notin DOMAIN r.points.of
      PROVE  FALSE
  <2>1. p \in {x \in DOMAIN r.now.team : ~ Known(r.points.of, x)}
    BY <1>2 DEF Known
  <2>2. <<"player", r.now.entry, p>> \in Lacks(r)
    BY <1>1, <1>2, <2>1 DEF Lacks
  <2> QED
    BY <2>2
<1> QED
  BY <1>1, <1>2

\* What is kept of an entry that was weighed.
Kept(r, loaded) ==
  /\ loaded \in Seq(Weighed) /\ Len(loaded) \in Nat /\ Len(r.loaded) \in Nat
  /\ r.loaded # <<>> => loaded # <<>>
  /\ Lacks(r) = {} => /\ Len(loaded) = Len(r.loaded) + 1
                      /\ EntriesOf(loaded) = EntriesOf(r.loaded) \cup {r.now.entry}
  /\ Lacks(r) # {} => loaded = r.loaded
  /\ Distinct(r.loaded) /\ r.now.entry \notin EntriesOf(r.loaded) => Distinct(loaded)
  /\ \A i \in DOMAIN loaded : \/ i \in DOMAIN r.loaded /\ loaded[i] = r.loaded[i]
                              \/ Lacks(r) = {} /\ loaded[i] = r.now

LEMMA WeighedIn ==
  ASSUME NEW r, Sound(r), r.stage = "weigh", NEW loaded,
         loaded = IF Lacks(r) = {} THEN Append(r.loaded, r.now) ELSE r.loaded
  PROVE  Kept(r, loaded)
<1>1. PICK old \in Seq(Weighed), n \in Weighed : old = r.loaded /\ n = r.now
  BY DEF Sound, Typed
<1>2. Len(old) \in Nat
  BY LenProperties
<1>3. CASE Lacks(r) = {}
  <2>1. loaded = Append(old, n)
    BY <1>1, <1>3
  <2>2. With(old, n, loaded)
    BY <2>1, OneMore
  <2>3. Len(loaded) \in Nat
    BY <1>2, <2>2 DEF With
  <2> QED
    BY <1>1, <1>2, <1>3, <2>2, <2>3 DEF Kept, With
<1>4. CASE Lacks(r) # {}
  BY <1>1, <1>2, <1>4 DEF Kept
<1> QED
  BY <1>3, <1>4

\* The outcome counts the entry that was weighed.
Weighs(r, outcome) ==
  /\ outcome = "actual" => r.outcome = "actual"
  /\ outcome = "actual" /\ r.kind = "summary" /\ r.now.team # NoTeam => r.now.state = "actual"

LEMMA WeighAccounts ==
  ASSUME NEW r, Sound(r), r.stage = "weigh", NEW loaded, Kept(r, loaded), NEW s,
         s.kind = r.kind, s.todo = r.todo, s.selected = r.selected, s.loaded = loaded,
         s.stage # "weigh"
  PROVE  Accounted(s)
<1> SUFFICES ASSUME s.kind # "autopsy"
             PROVE  Accounted(s)
  BY DEF Accounted
<1>1. /\ EntriesOf(r.loaded) \cup ToLoad(r) \subseteq ToSet(r.selected)
      /\ EntriesOf(r.loaded) \cap ToLoad(r) = {}
      /\ Distinct(r.loaded) /\ IsInjective(r.todo) /\ r.now.entry \notin ToSet(r.todo)
      /\ Len(r.loaded) + Left(r) <= Len(r.selected)
      /\ Len(r.loaded) + Left(r) = Len(r.selected)
           => ToSet(r.selected) \subseteq EntriesOf(r.loaded) \cup ToLoad(r)
  BY DEF Sound, Accounted, Loading
<1>2. PICK old, new \in Nat, left, all \in Nat :
        old = Len(r.loaded) /\ new = Len(loaded) /\ left = Len(r.todo) /\ all = Len(r.selected)
        /\ old \in Nat /\ left \in Nat
  BY LenProperties DEF Sound, Typed, Selection, Kept
<1>3. ToLoad(r) = ToSet(r.todo) \cup {r.now.entry} /\ Left(r) = left + 1
  BY <1>2 DEF ToLoad, Left
<1>4. ToLoad(s) = ToSet(r.todo) /\ Left(s) = left
  BY <1>2 DEF ToLoad, Left
<1>5. old + (left + 1) <= all
  BY <1>1, <1>2, <1>3
<1>6. CASE Lacks(r) = {}
  <2>0. new = old + 1
    BY <1>2, <1>6 DEF Kept
  <2>1. Distinct(loaded) /\ EntriesOf(loaded) = EntriesOf(r.loaded) \cup {r.now.entry}
    BY <1>1, <1>2, <1>3, <1>6 DEF Kept
  <2>2. /\ EntriesOf(loaded) \cup ToLoad(s) \subseteq ToSet(r.selected)
        /\ EntriesOf(loaded) \cap ToLoad(s) = {}
        /\ EntriesOf(loaded) \cup ToLoad(s) = EntriesOf(r.loaded) \cup ToLoad(r)
    BY <1>1, <1>3, <1>4, <2>1
  <2>3. new + left = old + (left + 1)
    BY <2>0
  <2>4. Len(loaded) + Left(s) <= all
        /\ (Len(loaded) + Left(s) = all => ToSet(r.selected) \subseteq EntriesOf(loaded) \cup ToLoad(s))
    BY <1>1, <1>2, <1>3, <1>4, <1>5, <2>2, <2>3
  <2> QED
    BY <1>1, <1>2, <2>1, <2>2, <2>4 DEF Accounted
<1>7. CASE Lacks(r) # {}
  <2>0. new = old
    BY <1>2, <1>7 DEF Kept
  <2>1. loaded = r.loaded
    BY <1>7 DEF Kept
  <2>2. /\ EntriesOf(loaded) \cup ToLoad(s) \subseteq ToSet(r.selected)
        /\ EntriesOf(loaded) \cap ToLoad(s) = {}
    BY <1>1, <1>3, <1>4, <2>1
  <2>3. new + left <= all /\ new + left # all
    BY <1>5, <2>0
  <2>4. Len(loaded) + Left(s) <= all /\ Len(loaded) + Left(s) # all
    BY <1>2, <1>4, <2>3
  <2> QED
    BY <1>1, <1>2, <2>1, <2>2, <2>4 DEF Accounted
<1> QED
  BY <1>6, <1>7

LEMMA WeighKeeps ==
  ASSUME Stored, NEW r, Sound(r), r.stage = "weigh", NEW loaded, Kept(r, loaded), NEW s,
         r.kind = "autopsy" => r.points.state # "none",
         Same(s, r, {"missing", "outcome", "now", "loaded", "stage"}), Weighs(r, s.outcome),
         s.loaded = loaded, s.stage = IF r.todo = <<>> THEN "conclude" ELSE "picks"
  PROVE  Sound(s)
<1>1. /\ s.kind = r.kind /\ s.query = r.query /\ s.points = r.points /\ s.todo = r.todo
      /\ s.since = r.since /\ s.selected = r.selected
  BY DEF Same, Fields
<1>2. /\ loaded \in Seq(Weighed) /\ (r.loaded # <<>> => loaded # <<>>)
      /\ \A i \in DOMAIN loaded : \/ i \in DOMAIN r.loaded /\ loaded[i] = r.loaded[i]
                                  \/ Lacks(r) = {} /\ loaded[i] = r.now
  BY DEF Kept
<1>3. Typed(s)
  BY <1>1, <1>2 DEF Sound, Typed, Same, Loading
<1>4. Loaded(s) /\ Selection(s)
  BY <1>1, <1>2, NothingLacks DEF Sound, Loaded, Selection
<1>5. Honest(s)
  BY <1>1, <1>2, NothingLacks DEF Sound, Honest, Loading, Weighs
<1>6. Accounted(s)
  BY <1>1, WeighAccounts
<1>7. Quiet(s)
  BY <1>1, <1>2 DEF Sound, Quiet
<1> QED
  BY <1>3, <1>4, <1>5, <1>6, <1>7 DEF Sound

LEMMA WeighSound ==
  ASSUME Stored, NEW r, Sound(r), r.stage = "weigh", r.kind = "autopsy" => r.points.state # "none",
         NEW missing, NEW outcome, NEW loaded, NEW s, Kept(r, loaded), Weighs(r, outcome),
         s = Load([r EXCEPT !.missing = missing, !.outcome = outcome, !.now = Idle, !.loaded = loaded])
  PROVE  Sound(s)
<1>1. s = [r EXCEPT !.missing = missing, !.outcome = outcome, !.now = Idle, !.loaded = loaded,
                    !.stage = IF r.todo = <<>> THEN "conclude" ELSE "picks"]
  BY DEF Load, Sound, Typed, IsAnalysis, Fields
<1>2. /\ Same(s, r, {"missing", "outcome", "now", "loaded", "stage"}) /\ s.outcome = outcome
      /\ s.loaded = loaded /\ s.stage = IF r.todo = <<>> THEN "conclude" ELSE "picks"
  BY <1>1 DEF Sound, Typed, IsAnalysis, Fields, Same
<1> QED
  BY <1>2, WeighKeeps

\* The team of an autopsy has been loaded; its points are read again.
LEMMA AutopsySound ==
  ASSUME Stored, NEW r, Sound(r), r.stage = "weigh", r.kind = "autopsy", r.points.state = "none",
         Lacks(r) = {}, NEW missing, NEW outcome, NEW s,
         s = [r EXCEPT !.missing = missing, !.outcome = outcome, !.now = Idle,
                       !.loaded = Append(r.loaded, r.now), !.stage = "points"]
  PROVE  Sound(s)
<1>1. PICK loaded : loaded = Append(r.loaded, r.now)
  OBVIOUS
<1>2. /\ Same(s, r, {"missing", "outcome", "now", "loaded", "stage"}) /\ s.stage = "points"
      /\ s.loaded = loaded
  BY <1>1 DEF Sound, Typed, IsAnalysis, Fields, Same
<1>3. /\ s.kind = r.kind /\ s.query = r.query /\ s.points = r.points /\ s.todo = r.todo
      /\ s.since = r.since /\ s.selected = r.selected
  BY <1>2 DEF Same, Fields
<1>4. r.loaded \in Seq(Weighed) /\ r.now \in Weighed
  BY DEF Sound, Typed
<1>5. /\ loaded \in Seq(Weighed) /\ loaded # <<>>
      /\ \A i \in DOMAIN loaded : loaded[i] = r.now \/ (i \in DOMAIN r.loaded /\ loaded[i] = r.loaded[i])
  <2>1. With(r.loaded, r.now, loaded)
    BY <1>1, <1>4, OneMore
  <2> QED
    BY <2>1 DEF With
<1>6. Typed(s)
  BY <1>2, <1>3, <1>5 DEF Sound, Typed, Same, Loading
<1>7. Loaded(s) /\ Selection(s)
  BY <1>2, <1>3, <1>5, NothingLacks DEF Sound, Loaded, Selection
<1>8. Honest(s) /\ Accounted(s)
  BY <1>2, <1>3 DEF Honest, Accounted, Loading
<1>9. Quiet(s)
  BY <1>2, <1>3, <1>5 DEF Sound, Quiet
<1> QED
  BY <1>6, <1>7, <1>8, <1>9 DEF Sound

\* The end of an analysis.
LEMMA ConcludeSettles ==
  ASSUME Stored, NEW r, Sound(r), r.stage = "conclude", NEW missing, NEW outcome, NEW s,
         outcome = "actual" => r.outcome = "actual" /\ (r.kind # "autopsy" => ~ (Len(r.loaded) < Len(r.selected))),
         r.kind = "autopsy" /\ missing = {} => Shown(r),
         s = [r EXCEPT !.missing = missing, !.outcome = outcome]
  PROVE  Settled(s)
<1>1. Same(s, r, {"missing", "outcome"}) /\ s.outcome = outcome /\ s.missing = missing
  BY DEF Sound, Typed, IsAnalysis, Fields, Same
<1>2. /\ s.kind = r.kind /\ s.query = r.query /\ s.points = r.points /\ s.todo = r.todo /\ s.loaded = r.loaded
      /\ s.since = r.since /\ s.selected = r.selected /\ s.now = r.now /\ s.stage = "conclude"
  BY <1>1 DEF Same, Fields
<1>3. Typed(s)
  BY <1>1, <1>2 DEF Sound, Typed, Same, Loading
<1>4. Loaded(s) /\ Selection(s)
  BY <1>2 DEF Sound, Loaded, Selection
<1>5. Honest(s)
  BY <1>1, <1>2 DEF Sound, Honest
<1>6. Accounted(s)
  BY <1>2 DEF Sound, Accounted, Loading, ToLoad, Left
<1>7. Quiet(s)
  BY <1>2 DEF Sound, Quiet
<1>8. Whole(s)
  <2>0. s.kind = "autopsy" /\ s.missing = {} => Shown(s)
    BY <1>1, <1>2 DEF Shown
  <2> SUFFICES ASSUME s.kind # "autopsy", s.outcome = "actual"
               PROVE  Len(s.loaded) = Len(s.selected)
    BY <2>0 DEF Whole
  <2>1. PICK a \in Nat, b \in Nat : a = Len(s.loaded) /\ b = Len(s.selected)
    BY <1>2, LenProperties DEF Sound, Typed, Selection
  <2>2. ~ (a < b)
    BY <1>1, <1>2, <2>1
  <2>3. r.todo = <<>> /\ Left(r) = 0
    <3>1. r.todo = <<>>
      BY DEF Sound, Typed
    <3> QED
      BY <3>1 DEF Left
  <2>4. Len(r.loaded) + Left(r) <= Len(r.selected)
    BY <1>2 DEF Sound, Accounted, Loading
  <2>5. a + 0 <= b
    BY <1>2, <2>1, <2>3, <2>4
  <2>6. a = b
    BY <2>2, <2>5
  <2> QED
    BY <2>1, <2>6
<1>9. s.kind \in {"compare", "summary", "autopsy"}
  BY <1>2, LeagueAssumption DEF LeagueAssumption, Sound, Typed
<1> QED
  BY <1>3, <1>4, <1>5, <1>6, <1>7, <1>8, <1>9 DEF Sound, Settled

-----------------------------------------------------------------------------
(* The invariant.                                                          *)

LEMMA SoundKept ==
  ASSUME UNCHANGED data, NEW CONSTANT r
  PROVE  Sound(r)' <=> Sound(r)
BY DEF data, Sound, Quiet, PlayerPoints

LEMMA SettledKept ==
  ASSUME UNCHANGED data, NEW CONSTANT r, Settled(r)
  PROVE  Settled(r)'
BY SoundKept DEF Settled

\* A write between two queries ends the quiet, and changes nothing else.
LEMMA SoundDisturbed ==
  ASSUME Stored, writes' = writes + 1, NEW CONSTANT r, Sound(r)
  PROVE  Sound(r)'
<1>1. r.since \in Nat /\ writes \in Nat /\ r.since <= writes
  BY DEF Sound, Typed, Quiet, Stored
<1>2. r.since <= writes' /\ writes' # r.since
  BY <1>1
<1>3. Quiet(r)'
  BY <1>2 DEF Quiet
<1> QED
  BY <1>3 DEF Sound

LEMMA Continues ==
  ASSUME Inv, Stored', UNCHANGED data, NEW CONSTANT s, Sound(s), request' = s, answer' = answer
  PROVE  Inv'
<1>1. Sound(s)'
  BY SoundKept
<1>2. Sound(request)'
  BY <1>1
<1>3. PICK a : a = answer
  OBVIOUS
<1>4. Settled(a)'
  BY <1>3, SettledKept DEF Inv
<1>5. Settled(answer)'
  BY <1>3, <1>4
<1> QED
  BY <1>2, <1>5 DEF Inv

LEMMA Answers ==
  ASSUME Inv, Stored', UNCHANGED data, NEW CONSTANT s, Settled(s), request' = Idle, answer' = s
  PROVE  Inv'
<1>1. Settled(s)'
  BY SettledKept
<1> QED
  BY <1>1 DEF Inv

LEMMA InitInv == Init => Inv
<1> SUFFICES ASSUME Init
             PROVE  Inv
  OBVIOUS
<1> QED
  BY InitStored DEF Init, Inv, Settled

LEMMA SyncInv ==
  ASSUME Inv, Stored', Sync
  PROVE  Inv'
<1>1. writes' = writes + 1 /\ UNCHANGED <<request, answer>>
  BY SyncWrites
<1>2. PICK r, a : r = request /\ a = answer
  OBVIOUS
<1>3. Sound(r) => Sound(r)'
  BY <1>1, SoundDisturbed DEF Inv
<1>4. Settled(a) => Settled(a)'
  <2>1. Sound(a) => Sound(a)'
    BY <1>1, SoundDisturbed DEF Inv
  <2> QED
    BY <2>1 DEF Settled
<1>5. (request = Idle \/ Sound(request))' /\ Settled(answer)'
  BY <1>1, <1>2, <1>3, <1>4 DEF Inv
<1> QED
  BY <1>5 DEF Inv

LEMMA AskInv ==
  ASSUME Inv, Stored', Ask
  PROVE  Inv'
<1>1. PICK q \in Requests :
        request' = [kind |-> q.kind, query |-> q, members |-> <<>>, selected |-> <<>>,
                    failures |-> {}, points |-> [of |-> <<>>, state |-> "none"],
                    todo |-> IF q.kind = "autopsy" THEN q.entries ELSE <<>>,
                    now |-> Idle, loaded |-> <<>>, missing |-> {}, outcome |-> "actual", since |-> writes,
                    stage |-> IF q.kind = "autopsy" THEN "picks" ELSE "members"]
  BY DEF Ask
<1>2. PICK s : s = request'
  OBVIOUS
<1>3. Sound(s)
  BY <1>1, <1>2, AskSound DEF Inv
<1>4. Sound(s)'
  BY <1>3, SoundKept DEF Ask
<1>5. answer' = Idle
  BY DEF Ask
<1> QED
  BY <1>2, <1>4, <1>5 DEF Inv, Settled

\* The analysis under way.
LEMMA UnderWay ==
  ASSUME Inv, NEW stage, At(stage)
  PROVE  Sound(request) /\ Stored /\ request.stage = stage
BY DEF Inv, At, Idle

\* An answer that comes before its end only names entries.
LEMMA EarlyAnswer ==
  ASSUME NEW r, Sound(r), NEW s, s.kind = r.kind, s.selected = r.selected, s.stage # "conclude"
  PROVE  Settled(s)
BY LeagueAssumption DEF LeagueAssumption, Sound, Typed, Selection, Settled

LEMMA ReadMembersInv == ASSUME Inv, Stored', ReadMembers PROVE Inv'
<1> DEFINE q == request.query
<1>1. PICK r : r = request
  OBVIOUS
<1>2. Sound(r) /\ Stored /\ r.stage = "members"
  BY <1>1, UnderWay DEF ReadMembers
<1>3. PICK members, selected : /\ members = Members(page)
                               /\ selected = SelectLeagueMembers(members, q.explicit, q.from, q.to, q.limit)
  OBVIOUS
<1>4. selected \in Seq(Entries) /\ IsInjective(selected)
  BY <1>1, <1>2, <1>3, SelectionFacts DEF Sound, Typed
<1>5. r.kind # "autopsy" /\ (r.kind # "compare" => r.kind = "summary")
  BY <1>2, LeagueAssumption DEF LeagueAssumption, Sound, Typed
<1>6. PICK missing, stage :
        /\ request' = [[r EXCEPT !.members = members, !.selected = selected, !.missing = missing]
                         EXCEPT !.stage = stage]
        /\ answer' = answer
        /\ stage = IF r.kind = "compare" THEN "failures" ELSE "standings"
  BY <1>1, <1>3 DEF ReadMembers, Continue
<1>7. PICK s : s = [r EXCEPT !.members = members, !.selected = selected, !.missing = missing, !.stage = stage]
  OBVIOUS
<1>8. request' = s
  BY <1>2, <1>6, <1>7 DEF Sound, Typed, IsAnalysis, Fields
<1>9. Sound(s)
  BY <1>2, <1>4, <1>5, <1>6, <1>7, MembersSound
<1> QED
  BY <1>6, <1>8, <1>9, Continues DEF ReadMembers

LEMMA ReadFailuresInv == ASSUME Inv, Stored', ReadFailures PROVE Inv'
<1>1. PICK r : r = request
  OBVIOUS
<1>2. Sound(r) /\ Stored /\ r.stage = "failures"
  BY <1>1, UnderWay DEF ReadFailures
<1>3. PICK missing : missing = r.missing \cup {<<"sync", e>> : e \in failed}
  OBVIOUS
<1>4. PICK t : t = [r EXCEPT !.failures = failed, !.missing = missing]
  OBVIOUS
<1>5. t.kind = r.kind /\ t.selected = r.selected /\ t.stage = "failures" /\ IsAnalysis(t)
  BY <1>2, <1>4 DEF Sound, Typed, IsAnalysis, Fields
<1>6. IF Len(r.selected) < 2
      THEN Answer([Add(t, <<"two members">>) EXCEPT !.outcome = "unavailable"])
      ELSE Continue([t EXCEPT !.stage = "points"])
  BY <1>1, <1>3, <1>4 DEF ReadFailures
<1>7. UNCHANGED data
  BY DEF ReadFailures
<1>8. CASE Len(r.selected) < 2
  <2>1. PICK s : s = [Add(t, <<"two members">>) EXCEPT !.outcome = "unavailable"]
    OBVIOUS
  <2>2. s.kind = r.kind /\ s.selected = r.selected /\ s.stage # "conclude"
    BY <1>5, <2>1 DEF Add, IsAnalysis, Fields
  <2>3. Settled(s)
    BY <1>2, <2>2, EarlyAnswer
  <2> QED
    BY <1>6, <1>7, <1>8, <2>1, <2>3, Answers DEF Answer
<1>9. CASE ~ (Len(r.selected) < 2)
  <2>1. PICK s : s = [r EXCEPT !.failures = failed, !.missing = missing, !.stage = "points"]
    OBVIOUS
  <2>2. s = [t EXCEPT !.stage = "points"]
    BY <1>2, <1>4, <2>1 DEF Sound, Typed, IsAnalysis, Fields
  <2>3. Sound(s)
    BY <1>2, <2>1, FailuresSound
  <2> QED
    BY <1>6, <1>7, <1>9, <2>2, <2>3, Continues DEF Continue
<1> QED
  BY <1>8, <1>9

LEMMA ReadPointsInv == ASSUME Inv, Stored', ReadPoints PROVE Inv'
<1>1. PICK r : r = request
  OBVIOUS
<1>2. Sound(r) /\ Stored /\ r.stage = "points" /\ r.kind \in {"compare", "autopsy"}
  <2>1. Sound(r) /\ Stored /\ r.stage = "points"
    BY <1>1, UnderWay DEF ReadPoints
  <2> QED
    BY <2>1 DEF Sound, Typed
<1>3. PICK t : t = [r EXCEPT !.points = PlayerPoints]
  OBVIOUS
<1>4. /\ t.kind = r.kind /\ t.selected = r.selected /\ t.stage = "points" /\ t.query = r.query
      /\ IsAnalysis(t)
  BY <1>2, <1>3 DEF Sound, Typed, IsAnalysis, Fields
<1>5. IF PlayerPoints.state = "estimated"
      THEN Answer([Add(t, <<"points">>) EXCEPT !.outcome = "unavailable"])
      ELSE IF r.kind = "compare"
      THEN Continue(Load([t EXCEPT !.outcome = PlayerPoints.state, !.todo = t.selected]))
      ELSE Continue(Load([t EXCEPT !.todo = Tail(t.query.entries)]))
  BY <1>1, <1>3 DEF ReadPoints
<1>6. UNCHANGED data
  BY DEF ReadPoints
<1>7. CASE PlayerPoints.state = "estimated"
  <2>1. PICK s : s = [Add(t, <<"points">>) EXCEPT !.outcome = "unavailable"]
    OBVIOUS
  <2>2. s.kind = r.kind /\ s.selected = r.selected /\ s.stage # "conclude"
    BY <1>4, <2>1 DEF Add, IsAnalysis, Fields
  <2>3. Settled(s)
    BY <1>2, <2>2, EarlyAnswer
  <2> QED
    BY <1>5, <1>6, <1>7, <2>1, <2>3, Answers DEF Answer
<1>8. CASE PlayerPoints.state # "estimated" /\ r.kind = "compare"
  <2>1. PICK s : s = Load([r EXCEPT !.points = PlayerPoints, !.outcome = PlayerPoints.state, !.todo = r.selected])
    OBVIOUS
  <2>2. [t EXCEPT !.outcome = PlayerPoints.state, !.todo = t.selected]
          = [r EXCEPT !.points = PlayerPoints, !.outcome = PlayerPoints.state, !.todo = r.selected]
    BY <1>2, <1>3 DEF Sound, Typed, IsAnalysis, Fields
  <2>3. Sound(s)
    BY <1>2, <1>8, <2>1, ComparisonStarts
  <2> QED
    BY <1>5, <1>6, <1>8, <2>1, <2>2, <2>3, Continues DEF Continue
<1>9. CASE PlayerPoints.state # "estimated" /\ r.kind # "compare"
  <2>1. PICK s : s = Load([r EXCEPT !.points = PlayerPoints, !.todo = Tail(r.query.entries)])
    OBVIOUS
  <2>2. [t EXCEPT !.todo = Tail(t.query.entries)] = [r EXCEPT !.points = PlayerPoints, !.todo = Tail(r.query.entries)]
    BY <1>2, <1>3 DEF Sound, Typed, IsAnalysis, Fields
  <2>3. Sound(s)
    BY <1>2, <1>9, <2>1, AutopsyGoesOn
  <2> QED
    BY <1>5, <1>6, <1>9, <2>1, <2>2, <2>3, Continues DEF Continue
<1> QED
  BY <1>7, <1>8, <1>9

LEMMA ReadStandingsInv == ASSUME Inv, Stored', ReadStandings PROVE Inv'
<1>1. PICK r : r = request
  OBVIOUS
<1>2. Sound(r) /\ Stored /\ r.stage = "standings"
  BY <1>1, UnderWay DEF ReadStandings
<1>3. UNCHANGED data
  BY DEF ReadStandings
<1>4. CASE r.members = <<>>
  <2>1. PICK s : s = IF 1 \in DOMAIN page THEN r ELSE [Add(r, <<"standings">>) EXCEPT !.outcome = "unavailable"]
    OBVIOUS
  <2>2. s.kind = r.kind /\ s.selected = r.selected /\ s.stage # "conclude"
    BY <1>2, <2>1 DEF Add, Sound, Typed, IsAnalysis, Fields
  <2>3. Settled(s)
    BY <1>2, <2>2, EarlyAnswer
  <2>4. Answer(s)
    BY <1>1, <1>4, <2>1 DEF ReadStandings
  <2> QED
    BY <1>3, <2>3, <2>4, Answers DEF Answer
<1>5. CASE r.members # <<>>
  <2>1. PICK s : s = Load([r EXCEPT !.todo = r.selected])
    OBVIOUS
  <2>2. Sound(s)
    BY <1>2, <2>1, SummaryStarts
  <2>3. Continue(s)
    BY <1>1, <1>5, <2>1 DEF ReadStandings
  <2> QED
    BY <1>3, <2>2, <2>3, Continues DEF Continue
<1> QED
  BY <1>4, <1>5

LEMMA ReadEntryInv == ASSUME Inv, Stored', ReadPicks \/ ReadFacts \/ ReadMeta PROVE Inv'
<1>1. PICK r : r = request
  OBVIOUS
<1>2. CASE ReadPicks
  <2>1. Sound(r) /\ Stored /\ r.stage = "picks"
    BY <1>1, <1>2, UnderWay DEF ReadPicks
  <2>2. PICK s : s = [r EXCEPT !.now = [entry |-> Head(r.todo), team |-> team[Head(r.todo)].team], !.stage = "facts"]
    OBVIOUS
  <2>3. Sound(s)
    BY <2>1, <2>2, PicksSound
  <2>4. request' = s /\ answer' = answer /\ UNCHANGED data
    BY <1>1, <1>2, <2>2 DEF ReadPicks, Continue
  <2> QED
    BY <2>3, <2>4, Continues
<1>3. CASE ReadFacts
  <2>1. Sound(r) /\ Stored /\ r.stage = "facts"
    BY <1>1, <1>3, UnderWay DEF ReadFacts
  <2>2. PICK n : n = [entry |-> r.now.entry, team |-> r.now.team, points |-> PlayerPoints.of,
                      state |-> PlayerPoints.state,
                      gross |-> IF r.now.team = NoTeam THEN 0 ELSE GrossPoints(r.now.team, PlayerPoints.of)]
    OBVIOUS
  <2>3. PICK s : s = [r EXCEPT !.stage = "meta", !.now = n]
    OBVIOUS
  <2>4. Sound(s)
    BY <2>1, <2>2, <2>3, FactsSound
  <2>5. request' = s /\ answer' = answer /\ UNCHANGED data
    BY <1>1, <1>3, <2>1, <2>2, <2>3 DEF ReadFacts, Continue, Sound, Typed, IsAnalysis, Fields
  <2> QED
    BY <2>4, <2>5, Continues
<1>4. CASE ReadMeta
  <2>1. Sound(r) /\ Stored /\ r.stage = "meta"
    BY <1>1, <1>4, UnderWay DEF ReadMeta
  <2>2. PICK e : e = r.now.entry
    OBVIOUS
  <2>3. PICK n : n = [entry |-> e, team |-> r.now.team, points |-> r.now.points, state |-> r.now.state,
                      gross |-> r.now.gross, number |-> team[e].number, cost |-> cost[e]]
    OBVIOUS
  <2>4. PICK s : s = [r EXCEPT !.stage = "weigh", !.todo = Tail(r.todo), !.now = n]
    OBVIOUS
  <2>5. Sound(s)
    BY <2>1, <2>2, <2>3, <2>4, MetaSound
  <2>6. request' = s /\ answer' = answer /\ UNCHANGED data
    BY <1>1, <1>4, <2>2, <2>3, <2>4 DEF ReadMeta, Continue
  <2> QED
    BY <2>5, <2>6, Continues
<1> QED
  BY <1>2, <1>3, <1>4

LEMMA WeighInv == ASSUME Inv, Stored', Weigh PROVE Inv'
<1>1. PICK r : r = request
  OBVIOUS
<1>2. Sound(r) /\ Stored /\ r.stage = "weigh"
  BY <1>1, UnderWay DEF Weigh
<1>3. PICK missing : missing = r.missing \cup Lacks(r)
  OBVIOUS
<1>4. PICK outcome :
        outcome = CASE r.kind # "summary" -> r.outcome
                    [] r.now.team # NoTeam /\ r.now.state # "actual" ->
                         IF r.now.state = "estimated" THEN "unavailable" ELSE "provisional"
                    [] OTHER -> r.outcome
  OBVIOUS
<1>5. PICK loaded : loaded = IF Lacks(r) = {} THEN Append(r.loaded, r.now) ELSE r.loaded
  OBVIOUS
<1>6. PICK t : t = [r EXCEPT !.missing = missing, !.outcome = outcome, !.now = Idle, !.loaded = loaded]
  OBVIOUS
<1>7. t = [r EXCEPT !.missing = @ \cup Lacks(r), !.outcome = outcome, !.now = Idle,
             !.loaded = IF Lacks(r) = {} THEN Append(@, r.now) ELSE @]
  BY <1>2, <1>3, <1>5, <1>6 DEF Sound, Typed, IsAnalysis, Fields
<1>8. IF r.kind # "autopsy" THEN Continue(Load(t))
      ELSE IF r.points.state # "none" THEN Continue(Load(t))
      ELSE IF Lacks(r) # {} THEN Answer([t EXCEPT !.outcome = "unavailable"])
      ELSE Continue([t EXCEPT !.stage = "points", !.outcome = r.now.state])
  BY <1>1, <1>4, <1>7 DEF Weigh
<1>9. UNCHANGED data
  BY DEF Weigh
<1>10. Weighs(r, outcome)
  BY <1>4 DEF Weighs
<1>11. Kept(r, loaded)
  BY <1>2, <1>5, WeighedIn
<1>12. CASE r.kind # "autopsy" \/ r.points.state # "none"
  <2>1. PICK s : s = Load(t)
    OBVIOUS
  <2>2. s = Load([r EXCEPT !.missing = missing, !.outcome = outcome, !.now = Idle, !.loaded = loaded])
    BY <1>6, <2>1
  <2>3. Sound(s)
    BY <1>2, <1>10, <1>11, <1>12, <2>2, WeighSound
  <2> QED
    BY <1>8, <1>9, <1>12, <2>1, <2>3, Continues DEF Continue
<1>13. CASE r.kind = "autopsy" /\ r.points.state = "none" /\ Lacks(r) # {}
  <2>1. PICK s : s = [t EXCEPT !.outcome = "unavailable"]
    OBVIOUS
  <2>2. s.kind = r.kind /\ s.selected = r.selected /\ s.stage # "conclude"
    BY <1>2, <1>6, <2>1 DEF Sound, Typed, IsAnalysis, Fields
  <2>3. Settled(s)
    BY <1>2, <2>2, EarlyAnswer
  <2> QED
    BY <1>8, <1>9, <1>13, <2>1, <2>3, Answers DEF Answer
<1>14. CASE r.kind = "autopsy" /\ r.points.state = "none" /\ Lacks(r) = {}
  <2>1. PICK s : s = [r EXCEPT !.missing = missing, !.outcome = r.now.state, !.now = Idle,
                               !.loaded = Append(r.loaded, r.now), !.stage = "points"]
    OBVIOUS
  <2>2. s = [t EXCEPT !.stage = "points", !.outcome = r.now.state]
    BY <1>2, <1>5, <1>6, <1>14, <2>1 DEF Sound, Typed, IsAnalysis, Fields
  <2>3. Sound(s)
    BY <1>2, <1>14, <2>1, AutopsySound
  <2> QED
    BY <1>8, <1>9, <1>14, <2>2, <2>3, Continues DEF Continue
<1> QED
  BY <1>12, <1>13, <1>14

LEMMA ConcludeInv == ASSUME Inv, Stored', Conclude PROVE Inv'
<1>1. PICK r : r = request
  OBVIOUS
<1>2. Sound(r) /\ Stored /\ r.stage = "conclude"
  BY <1>1, UnderWay DEF Conclude
<1> DEFINE own == request.loaded[1]
           unscored == IF request.kind = "autopsy"
                       THEN {<<"player", own.entry, p>> : p \in {x \in DOMAIN own.team : ~Known(request.points.of, x)}}
                       ELSE {}
           all == request.missing \cup unscored
           base == CASE request.kind = "autopsy" /\ all # {} ->
                           ResolveAnalysisOutcome(request.points.state, TRUE, FALSE)
                     [] request.kind # "autopsy" /\ Len(request.loaded) < Len(request.selected) ->
                           ResolveAnalysisOutcome(request.outcome, TRUE, FALSE)
                     [] OTHER -> request.outcome
<1>3. PICK stale \in BOOLEAN :
        Answer([request EXCEPT !.missing = all,
                  !.outcome = IF stale /\ base \notin {"partial", "unavailable"}
                              THEN ResolveAnalysisOutcome(base, FALSE, TRUE) ELSE base])
  BY DEF Conclude
<1>4. PICK missing : missing = all
  OBVIOUS
<1>5. PICK outcome : outcome = base
  OBVIOUS
<1>6. Answer([r EXCEPT !.missing = missing,
                !.outcome = IF stale /\ outcome \notin {"partial", "unavailable"}
                            THEN ResolveAnalysisOutcome(outcome, FALSE, TRUE) ELSE outcome])
  <2> HIDE DEF all, base
  <2> QED
    BY <1>1, <1>3, <1>4, <1>5
<1>7. PICK said : said = IF stale /\ outcome \notin {"partial", "unavailable"}
                         THEN ResolveAnalysisOutcome(outcome, FALSE, TRUE) ELSE outcome
  OBVIOUS
<1>8. PICK s : s = [r EXCEPT !.missing = missing, !.outcome = said]
  OBVIOUS
<1>9. said = "actual" => outcome = "actual"
  BY <1>7 DEF ResolveAnalysisOutcome
<1>10. outcome = "actual" => r.outcome = "actual" /\ (r.kind # "autopsy" => ~ (Len(r.loaded) < Len(r.selected)))
  BY <1>1, <1>5 DEF ResolveAnalysisOutcome
<1>11. r.kind = "autopsy" /\ missing = {} => Shown(r)
  BY <1>1, <1>4 DEF Shown
<1>12. Settled(s)
  BY <1>2, <1>8, <1>9, <1>10, <1>11, ConcludeSettles
<1>13. Answer(s) /\ UNCHANGED data
  BY <1>6, <1>7, <1>8 DEF Conclude
<1> QED
  BY <1>12, <1>13, Answers DEF Answer

LEMMA NextInv ==
  ASSUME Inv, [Next]_vars
  PROVE  Inv'
<1>1. Stored'
  BY NextStored DEF Inv
<1>2. CASE UNCHANGED vars
  <2>1. PICK r, a : r = request /\ a = answer
    OBVIOUS
  <2>2. UNCHANGED data /\ request' = r /\ answer' = a
    BY <1>2, <2>1 DEF vars
  <2>3. (Sound(r) => Sound(r)') /\ (Settled(a) => Settled(a)')
    BY <2>2, SoundKept, SettledKept
  <2>4. (request = Idle \/ Sound(request))' /\ Settled(answer)'
    BY <2>1, <2>2, <2>3 DEF Inv
  <2> QED
    BY <1>1, <2>4 DEF Inv
<1>3. CASE Ask
  BY <1>1, <1>3, AskInv
<1>4. CASE Sync
  BY <1>1, <1>4, SyncInv
<1>5. CASE Analyse
  BY <1>1, <1>5, ReadMembersInv, ReadFailuresInv, ReadPointsInv, ReadStandingsInv, ReadEntryInv,
     WeighInv, ConcludeInv DEF Analyse
<1> QED
  BY <1>2, <1>3, <1>4, <1>5 DEF Next

LEMMA AnalysisInvariant == Spec => []Inv
  BY InitInv, NextInv, PTL DEF Spec

-----------------------------------------------------------------------------
(* What answers promise.                                                   *)

\* An answer shows only teams of the selection, and the selection names an
\* entry once, whatever pages of the standings were stored, for any number of
\* pages, entries and queries (manager_read_repository.go:160).
THEOREM SelectionStaysSound == Spec => []SelectionIsSound
<1>1. Inv => SelectionIsSound
  <2> SUFFICES ASSUME Inv
               PROVE  SelectionIsSound
    OBVIOUS
  <2>1. Settled(answer) /\ Stored
    BY DEF Inv
  <2>2. SelectedOnce
    BY <2>1 DEF SelectedOnce, Settled, Idle, Selection
  <2>3. ASSUME Ended({"compare", "summary"})
        PROVE  LoadedEntries \subseteq Selected
    <3>1. Sound(answer) /\ answer.kind # "autopsy"
      BY <2>1, <2>3 DEF Ended, Settled, Idle
    <3>2. EntriesOf(answer.loaded) \subseteq ToSet(answer.selected)
      BY <2>3, <3>1 DEF Ended, Sound, Accounted, Loading
    <3> QED
      BY <3>2 DEF LoadedEntries, Selected, EntriesOf, ToSet
  <2>4. DOMAIN page \subseteq DOMAIN Pages /\ 0..writes \subseteq 0..MaxWrites
    BY <2>1, LeagueAssumption DEF LeagueAssumption, Stored
  <2>5. team \in [Entries -> [team: Teams \cup {NoTeam}, number: 0..MaxWrites]]
    BY <2>1, <2>4 DEF Stored
  <2>6. TypeOK
    BY <2>1, <2>3, <2>4, <2>5 DEF Stored, TypeOK
  <2> QED
    BY <2>2, <2>6 DEF SelectionIsSound
<1> QED
  BY <1>1, AnalysisInvariant, PTL

\* A comparison or a summary is called actual only when it shows every entry
\* of the selection with final points, and a comparison when the points of
\* every pick were among those read, whatever the syncs wrote between any two
\* of its queries (manager_service.go:383-423).
THEOREM ActualLeavesNothingOut == Spec => []ActualIsComplete
<1>1. Inv => ActualIsComplete
  <2> SUFFICES ASSUME Inv, Ended({"compare", "summary"}), answer.outcome = "actual"
               PROVE  /\ LoadedEntries = Selected
                      /\ \A i \in DOMAIN answer.loaded : LET n == answer.loaded[i] IN
                           IF answer.kind = "summary" THEN n.state = "actual"
                           ELSE answer.points.state = "actual" /\ DOMAIN n.team \subseteq DOMAIN answer.points.of
    BY DEF ActualIsComplete
  <2>1. Sound(answer) /\ Whole(answer) /\ answer.kind \in {"compare", "summary"} /\ answer.stage = "conclude"
    BY DEF Inv, Settled, Ended, Idle
  <2>2. ToLoad(answer) = {} /\ Left(answer) = 0
    <3>1. answer.todo = <<>>
      BY <2>1 DEF Sound, Typed
    <3> QED
      BY <2>1, <3>1 DEF ToLoad, Left, ToSet
  <2>3. Len(answer.loaded) + Left(answer) = Len(answer.selected)
    <3>1. PICK n \in Nat : n = Len(answer.loaded)
      BY <2>1, LenProperties DEF Sound, Typed
    <3>2. n + 0 = Len(answer.selected)
      BY <2>1, <3>1 DEF Whole
    <3> QED
      BY <2>2, <3>1, <3>2
  <2>4. /\ EntriesOf(answer.loaded) \cup ToLoad(answer) \subseteq ToSet(answer.selected)
        /\ ToSet(answer.selected) \subseteq EntriesOf(answer.loaded) \cup ToLoad(answer)
    BY <2>1, <2>3 DEF Sound, Accounted, Loading
  <2>5. EntriesOf(answer.loaded) = ToSet(answer.selected)
    BY <2>2, <2>4
  <2>6. LoadedEntries = Selected
    BY <2>5 DEF LoadedEntries, Selected, EntriesOf, ToSet
  <2>7. /\ answer.kind = "compare" => answer.points.state = "actual"
        /\ answer.kind = "compare" =>
             \A i \in DOMAIN answer.loaded : DOMAIN answer.loaded[i].team \subseteq DOMAIN answer.points.of
        /\ answer.kind = "summary" => \A i \in DOMAIN answer.loaded : answer.loaded[i].state = "actual"
    BY <2>1 DEF Sound, Honest, Loading
  <2> QED
    BY <2>1, <2>6, <2>7
<1> QED
  BY <1>1, AnalysisInvariant, PTL

\* The points an autopsy shows for a team are the sum of the contributions it
\* lists, for any team and any points, when nothing was written between its
\* two reads of the points and none of the picks lacks any
\* (manager_service.go:505-547).
THEOREM UndisturbedAutopsyAddsUp == Spec => []QuietAutopsyAddsUp
<1>1. Inv => QuietAutopsyAddsUp
  <2> SUFFICES ASSUME Inv, Ended({"autopsy"}), answer.missing = {}, writes = answer.since
               PROVE  AddsUp
    BY DEF QuietAutopsyAddsUp
  <2>1. Sound(answer) /\ Whole(answer) /\ answer.kind = "autopsy" /\ answer.stage = "conclude"
    BY DEF Inv, Settled, Ended, Idle
  <2>2. answer.loaded # <<>> /\ answer.points.state # "none" /\ answer.loaded \in Seq(Weighed)
    BY <2>1 DEF Sound, Typed
  <2>3. 1 \in DOMAIN answer.loaded
    BY <2>2, LenProperties, EmptySeq
  <2>4. PICK n : n = answer.loaded[1]
    OBVIOUS
  <2>5. n.points = PlayerPoints.of /\ answer.points.of = PlayerPoints.of
    BY <2>1, <2>2, <2>3, <2>4 DEF Sound, Quiet
  <2>6. n.gross = GrossPoints(n.team, answer.points.of)
    BY <2>1, <2>3, <2>4, <2>5 DEF Sound, Loaded, Gross
  <2>7. {x \in DOMAIN n.team : Known(answer.points.of, x)} = DOMAIN n.team
    BY <2>1, <2>4 DEF Whole, Shown
  <2>8. Contributions(answer) = [p \in DOMAIN n.team |-> EffectivePoints(n.team, answer.points.of, p)]
    BY <2>4, <2>7 DEF Contributions
  <2> QED
    BY <2>4, <2>6, <2>8 DEF AddsUp, GrossPoints, Effective
<1> QED
  BY <1>1, AnalysisInvariant, PTL

-----------------------------------------------------------------------------
(* The arithmetic of a comparison.                                         *)

\* The points of some players of a team are a sum over those players of one
\* function of the team.
LEMMA EffectiveIsASum ==
  ASSUME NEW t \in Teams, NEW points \in PointMaps, NEW S \in SUBSET (DOMAIN t)
  PROVE  LET f == [p \in DOMAIN t |-> EffectivePoints(t, points, p)] IN
         /\ Effective(t, points, S) = SumFunctionOnSet(f, S)
         /\ IsFiniteSet(S) /\ \A p \in S : f[p] \in Int
<1> DEFINE f == [p \in DOMAIN t |-> EffectivePoints(t, points, p)]
           g == [p \in S |-> EffectivePoints(t, points, p)]
<1>1. IsFiniteSet(S)
  BY TeamFacts, FS_Subset
<1>2. \A p \in S : g[p] = f[p]
  OBVIOUS
<1>3. DOMAIN g = S /\ Effective(t, points, S) = SumFunctionOnSet(g, DOMAIN g)
  BY DEF Effective, SumFunction
<1>4. SumFunctionOnSet(g, S) = SumFunctionOnSet(f, S)
  <2> HIDE DEF f, g
  <2> QED
    BY <1>1, <1>2, SumSame
<1>5. ASSUME NEW p \in S
      PROVE  f[p] \in Int
  <2>1. PICK a \in Int, b \in Int : a = Worth(points, p) /\ b = t[p].multiplier
    BY WorthInt, TeamFacts
  <2>2. a * b \in Int
    OBVIOUS
  <2> QED
    BY <2>1, <2>2 DEF EffectivePoints
<1> QED
  BY <1>1, <1>3, <1>4, <1>5

LEMMA EffectiveParts ==
  ASSUME NEW t \in Teams, NEW points \in PointMaps,
         NEW S \in SUBSET (DOMAIN t), NEW T \in SUBSET (DOMAIN t), S \cap T = {}
  PROVE  Effective(t, points, S \cup T) = Effective(t, points, S) + Effective(t, points, T)
<1> DEFINE f == [p \in DOMAIN t |-> EffectivePoints(t, points, p)]
<1>1. S \cup T \in SUBSET (DOMAIN t)
  OBVIOUS
<1>2. /\ Effective(t, points, S) = SumFunctionOnSet(f, S) /\ IsFiniteSet(S) /\ \A p \in S : f[p] \in Int
      /\ Effective(t, points, T) = SumFunctionOnSet(f, T) /\ IsFiniteSet(T) /\ \A p \in T : f[p] \in Int
      /\ Effective(t, points, S \cup T) = SumFunctionOnSet(f, S \cup T)
  BY <1>1, EffectiveIsASum
<1> HIDE DEF f
<1>3. SumFunctionOnSet(f, S \cup T) = SumFunctionOnSet(f, S) + SumFunctionOnSet(f, T)
  BY <1>2, SumUnion
<1> QED
  BY <1>2, <1>3

\* What the players two teams share bring in differently.
SharedDifference(t, u, points) ==
  SumFunction([p \in DOMAIN t \cap DOMAIN u |-> Worth(points, p) * (t[p].multiplier - u[p].multiplier)])

LEMMA SharedIsTheDifference ==
  ASSUME NEW t \in Teams, NEW u \in Teams, NEW points \in PointMaps
  PROVE  SharedDifference(t, u, points)
           = Effective(t, points, DOMAIN t \cap DOMAIN u) - Effective(u, points, DOMAIN t \cap DOMAIN u)
<1> DEFINE S == DOMAIN t \cap DOMAIN u
           f == [p \in DOMAIN t |-> EffectivePoints(t, points, p)]
           g == [p \in DOMAIN u |-> EffectivePoints(u, points, p)]
           h == [p \in S |-> Worth(points, p) * (t[p].multiplier - u[p].multiplier)]
<1>1. S \in SUBSET (DOMAIN t) /\ S \in SUBSET (DOMAIN u)
  OBVIOUS
<1>2. /\ Effective(t, points, S) = SumFunctionOnSet(f, S) /\ IsFiniteSet(S) /\ \A p \in S : f[p] \in Int
      /\ Effective(u, points, S) = SumFunctionOnSet(g, S) /\ \A p \in S : g[p] \in Int
  BY <1>1, EffectiveIsASum
<1>3. ASSUME NEW p \in S
      PROVE  h[p] = f[p] - g[p]
  <2>1. PICK a \in Int, b \in Int, c \in Int :
          a = Worth(points, p) /\ b = t[p].multiplier /\ c = u[p].multiplier
    BY WorthInt, TeamFacts
  <2>2. a * (b - c) = a * b - a * c
    OBVIOUS
  <2>3. h[p] = a * (b - c) /\ f[p] = a * b /\ g[p] = a * c
    BY <2>1 DEF EffectivePoints
  <2> QED
    BY <2>2, <2>3
<1>4. DOMAIN h = S /\ SharedDifference(t, u, points) = SumFunctionOnSet(h, DOMAIN h)
  BY DEF SharedDifference, SumFunction
<1> HIDE DEF f, g, h, S
<1>5. SumFunctionOnSet(h, S) = SumFunctionOnSet(f, S) - SumFunctionOnSet(g, S)
  BY <1>2, <1>3, SumDifference
<1> QED
  BY <1>2, <1>4, <1>5 DEF S

\* The points of two teams differ by their differentials and by what the
\* players they share bring in differently.
LEMMA TeamsDiffer ==
  ASSUME NEW t \in Teams, NEW u \in Teams, NEW points \in PointMaps
  PROVE  /\ GrossPoints(t, points) - GrossPoints(u, points)
              = (Effective(t, points, DOMAIN t \ DOMAIN u) - Effective(u, points, DOMAIN u \ DOMAIN t))
                + SharedDifference(t, u, points)
         /\ GrossPoints(t, points) \in Int /\ GrossPoints(u, points) \in Int
         /\ SharedDifference(t, u, points) \in Int
         /\ Effective(t, points, DOMAIN t \ DOMAIN u) \in Int
         /\ Effective(u, points, DOMAIN u \ DOMAIN t) \in Int
<1> DEFINE S == DOMAIN t \cap DOMAIN u
           T == DOMAIN t \ DOMAIN u
           U == DOMAIN u \ DOMAIN t
<1>1. /\ S \in SUBSET (DOMAIN t) /\ S \in SUBSET (DOMAIN u) /\ T \in SUBSET (DOMAIN t) /\ U \in SUBSET (DOMAIN u)
      /\ T \cup S = DOMAIN t /\ U \cup S = DOMAIN u /\ T \cap S = {} /\ U \cap S = {}
  OBVIOUS
<1>2. SharedDifference(t, u, points) = Effective(t, points, S) - Effective(u, points, S)
  BY SharedIsTheDifference
<1> HIDE DEF S, T, U
<1>3. /\ Effective(t, points, T \cup S) = Effective(t, points, T) + Effective(t, points, S)
      /\ Effective(u, points, U \cup S) = Effective(u, points, U) + Effective(u, points, S)
  BY <1>1, EffectiveParts
<1>4. PICK a \in Int, b \in Int, c \in Int, d \in Int :
        /\ a = Effective(t, points, T) /\ b = Effective(t, points, S)
        /\ c = Effective(u, points, U) /\ d = Effective(u, points, S)
  BY <1>1, EffectiveInt
<1>5. GrossPoints(t, points) = a + b /\ GrossPoints(u, points) = c + d
  BY <1>1, <1>3, <1>4 DEF GrossPoints
<1>6. SharedDifference(t, u, points) = b - d
  BY <1>2, <1>4
<1>7. (a + b) - (c + d) = (a - c) + (b - d)
  OBVIOUS
<1> QED
  BY <1>4, <1>5, <1>6, <1>7 DEF T, U

\* Both sides of a comparison of two teams.
Agree(c, d, e, o, t, u, points, m) ==
  /\ c.difference + c.cost - m = c.contribution + SharedDifference(t, u, points)
  /\ c.entry = e /\ c.opponent = o /\ d.entry = o /\ d.opponent = e
  /\ c.shared = DOMAIN t \cap DOMAIN u /\ d.shared = c.shared
  /\ d.difference = -c.difference /\ d.contribution = -c.contribution
  /\ d.overlap = c.overlap

LEMMA SidesAgree ==
  ASSUME NEW e, NEW o, NEW t \in Teams, NEW u \in Teams, NEW points \in PointMaps,
         NEW k \in Nat, NEW m \in Nat, NEW c, NEW d,
         c = Side(e, o, t, u, points, k, m), d = Side(o, e, u, t, points, m, k)
  PROVE  Agree(c, d, e, o, t, u, points, m)
<1>1. PICK g \in Int, h \in Int, a \in Int, b \in Int, s \in Int :
        /\ g = GrossPoints(t, points) /\ h = GrossPoints(u, points)
        /\ a = Effective(t, points, DOMAIN t \ DOMAIN u) /\ b = Effective(u, points, DOMAIN u \ DOMAIN t)
        /\ s = SharedDifference(t, u, points)
  BY TeamsDiffer
<1>2. g - h = (a - b) + s
  BY <1>1, TeamsDiffer
<1>3. /\ c.difference = (g - k) - (h - m) /\ c.cost = k /\ c.contribution = a - b
      /\ d.difference = (h - m) - (g - k) /\ d.contribution = b - a
  BY <1>1 DEF Side
<1>4. /\ ((g - k) - (h - m)) + k - m = (a - b) + s
      /\ (h - m) - (g - k) = -((g - k) - (h - m)) /\ b - a = -(a - b)
  BY <1>2
<1>5. /\ c.entry = e /\ c.opponent = o /\ d.entry = o /\ d.opponent = e
      /\ c.shared = DOMAIN t \cap DOMAIN u /\ d.shared = DOMAIN u \cap DOMAIN t
      /\ c.overlap = Overlap(DOMAIN t, DOMAIN u) /\ d.overlap = Overlap(DOMAIN u, DOMAIN t)
  BY DEF Side
<1>6. DOMAIN t \cap DOMAIN u = DOMAIN u \cap DOMAIN t /\ DOMAIN t \cup DOMAIN u = DOMAIN u \cup DOMAIN t
  OBVIOUS
<1>7. d.overlap = c.overlap
  BY <1>5, <1>6 DEF Overlap
<1> QED
  BY <1>1, <1>3, <1>4, <1>5, <1>6, <1>7 DEF Agree

\* In a comparison, of any number of teams, the difference of two is the one
\* their differentials, the multipliers of the players they share and the
\* costs of their transfers make, and the two sides are opposite: also when
\* the syncs wrote picks and points while it was read (manager.go:487-489).
THEOREM ComparisonsAreExplained == Spec => []DifferenceIsExplained
<1>1. Inv => DifferenceIsExplained
  <2> SUFFICES ASSUME Inv, NEW c \in Comparisons(answer)
               PROVE  LET of(e) == answer.loaded[CHOOSE i \in DOMAIN answer.loaded : answer.loaded[i].entry = e]
                          t == of(c.entry).team  u == of(c.opponent).team
                      IN /\ c.difference + c.cost - of(c.opponent).cost
                              = c.contribution + SumFunction([p \in c.shared |->
                                   Worth(answer.points.of, p) * (t[p].multiplier - u[p].multiplier)])
                         /\ \E d \in Comparisons(answer) :
                              /\ d.entry = c.opponent /\ d.opponent = c.entry
                              /\ d.difference = -c.difference /\ d.contribution = -c.contribution
                              /\ d.shared = c.shared /\ d.overlap = c.overlap
    BY DEF DifferenceIsExplained
  <2>1. PICK loaded, points : loaded = answer.loaded /\ points = answer.points.of
    OBVIOUS
  <2> DEFINE of(e) == answer.loaded[CHOOSE i \in DOMAIN answer.loaded : answer.loaded[i].entry = e]
             side(w) == Side(loaded[w[1]].entry, loaded[w[2]].entry, loaded[w[1]].team, loaded[w[2]].team,
                             points, loaded[w[1]].cost, loaded[w[2]].cost)
             pairs == {v \in (DOMAIN loaded) \X (DOMAIN loaded) : v[1] # v[2]}
  <2>2. answer.kind = "compare" /\ answer.stage = "conclude" /\ Comparisons(answer) = {side(w) : w \in pairs}
    BY <2>1 DEF Comparisons, ComparePairs
  <2>3. Sound(answer)
    BY <2>2 DEF Inv, Settled, Idle
  <2>4. points \in PointMaps
    BY <2>1, <2>2, <2>3 DEF Sound, Typed, Loading
  <2>5. \A i \in DOMAIN loaded : loaded[i].team \in Teams /\ loaded[i].cost \in Nat
    <3>1. \A i \in DOMAIN loaded : loaded[i] \in Weighed
      BY <2>1, <2>3, ElementOfSeq, LenProperties DEF Sound, Typed
    <3>2. Costs \subseteq Nat /\ \A i \in DOMAIN loaded : loaded[i].team # NoTeam
      BY <2>1, <2>3, LeagueAssumption DEF LeagueAssumption, Sound, Loaded
    <3> QED
      BY <3>1, <3>2 DEF Weighed
  <2>6. Distinct(loaded)
    BY <2>1, <2>2, <2>3 DEF Sound, Accounted, Loading
  <2>7. \A i \in DOMAIN loaded : of(loaded[i].entry) = loaded[i]
    BY <2>1, <2>6 DEF Distinct
  <2>8. PICK i \in DOMAIN loaded, j \in DOMAIN loaded : i # j /\ c = side(<<i, j>>)
    BY <2>2
  <2>9. PICK a, b : a = loaded[i] /\ b = loaded[j]
    OBVIOUS
  <2>10. PICK d : d = side(<<j, i>>)
    OBVIOUS
  <2>11. d \in Comparisons(answer)
    <3>1. <<j, i>> \in pairs
      BY <2>8
    <3> QED
      BY <2>2, <2>10, <3>1
  <2>12. /\ c = Side(a.entry, b.entry, a.team, b.team, points, a.cost, b.cost)
         /\ d = Side(b.entry, a.entry, b.team, a.team, points, b.cost, a.cost)
    BY <2>8, <2>9, <2>10
  <2>13. a.team \in Teams /\ b.team \in Teams /\ a.cost \in Nat /\ b.cost \in Nat
    BY <2>5, <2>9
  <2>14. Agree(c, d, a.entry, b.entry, a.team, b.team, points, b.cost)
    <3> HIDE DEF side, pairs, of
    <3> QED
      BY <2>4, <2>12, <2>13, SidesAgree
  <2>15. c.entry = a.entry /\ c.opponent = b.entry /\ c.shared = DOMAIN a.team \cap DOMAIN b.team
    BY <2>14 DEF Agree
  <2>16. of(c.entry) = a /\ of(c.opponent) = b
    BY <2>7, <2>9, <2>15
  <2> HIDE DEF of
  <2>17. c.difference + c.cost - of(c.opponent).cost
           = c.contribution + SumFunction([p \in c.shared |->
               Worth(answer.points.of, p) * (of(c.entry).team[p].multiplier - of(c.opponent).team[p].multiplier)])
    BY <2>1, <2>14, <2>15, <2>16 DEF SharedDifference, Agree
  <2>18. \E x \in Comparisons(answer) :
           /\ x.entry = c.opponent /\ x.opponent = c.entry
           /\ x.difference = -c.difference /\ x.contribution = -c.contribution
           /\ x.shared = c.shared /\ x.overlap = c.overlap
    BY <2>11, <2>14 DEF Agree
  <2> QED
    BY <2>17, <2>18, Zenon DEF of
<1> QED
  BY <1>1, AnalysisInvariant, PTL
=============================================================================
