-------------------------- MODULE DeploymentListProofs --------------------------
(***************************************************************************)
(* Machine-checked proofs about DeploymentList, for any set of names, any  *)
(* number of fetches under way and any history, and about the Labels of    *)
(* times, which promise of every time what they do around a change of unit.*)
(***************************************************************************)
EXTENDS DeploymentList, Labels, FiniteSetTheorems, WellFoundedInduction, TLAPS

FetchSet == [asked : BOOLEAN, deployments : Change \cup {Nothing}, jobs : Change \cup {Nothing}]

\* what App has not been told yet, and what it waits for
IInv == TypeOK /\ ScreenIsHonest

-----------------------------------------------------------------------------
(* The invariant is kept. *)

\* The first fetch is under way when App is mounted.
LEMMA InitIInv == Init => IInv
<1> SUFFICES ASSUME Init PROVE IInv
  OBVIOUS
<1> USE ListBounds DEF Init, Change, Nothing
<1>1. PICK f \in Fetch : fetch = [g \in Fetch |-> IF g = f THEN Asked ELSE Idle]
  OBVIOUS
<1>2. Idle \in FetchSet /\ Asked \in FetchSet
  BY DEF Idle, Asked, FetchSet
<1>3. fetch \in [Fetch -> FetchSet]
  BY <1>1, <1>2
<1>4. history \in [1..MaxChange -> JobRow]
  BY DEF Histories
<1>5. TypeOK
  <2>1. 0 \in Change /\ errors \in 0..MaxError
    OBVIOUS
  <2>2. deployments \in Change \cup {Nothing} /\ jobs \in Change \cup {Nothing}
    OBVIOUS
  <2> HIDE DEF Change, Nothing
  <2> QED
    BY <1>3, <1>4, <2>1, <2>2 DEF TypeOK, FetchSet
<1>6. fetch[f].asked
  BY <1>1 DEF Asked, Idle
<1> QED
  BY <1>5, <1>6 DEF IInv, ScreenIsHonest, EmptyIsExplained, RefreshEnds

\* A fetch that ends clears what any fetch has set, so that nothing waits any
\* more; what is then shown is its answer, or an error.
LEMMA SettledKeeps ==
  ASSUME IInv, NEW f \in Fetch, Settled(f),
         deployments' \in Change \cup {Nothing}, jobs' \in Change \cup {Nothing},
         deployments' # Nothing \/ loadError', loadError' \in BOOLEAN,
         errors' \in 0..MaxError, UNCHANGED tables
  PROVE  IInv'
<1>1. fetch' \in [Fetch -> FetchSet]
  <2>1. Idle \in FetchSet
    BY DEF Idle, FetchSet
  <2> QED
    BY <2>1 DEF Settled, IInv, TypeOK, FetchSet
<1>2. TypeOK'
  BY <1>1 DEF Settled, IInv, TypeOK, FetchSet, tables
<1>3. ScreenIsHonest'
  BY DEF Settled, ScreenIsHonest, EmptyIsExplained, RefreshEnds
<1> QED
  BY <1>2, <1>3 DEF IInv

\* A fetch that goes on is still under way.
LEMMA AskedKeeps ==
  ASSUME IInv, NEW f \in Fetch, NEW x \in FetchSet, x.asked,
         fetch' = [fetch EXCEPT ![f] = x],
         refreshing' \in BOOLEAN,
         UNCHANGED <<tables, deployments, jobs, loading, loadError, errors>>
  PROVE  IInv'
<1>1. fetch' \in [Fetch -> FetchSet]
  BY DEF IInv, TypeOK, FetchSet
<1>2. TypeOK'
  BY <1>1 DEF IInv, TypeOK, FetchSet, tables
<1>3. fetch'[f].asked
  BY DEF IInv, TypeOK
<1>4. ScreenIsHonest'
  BY <1>3 DEF IInv, ScreenIsHonest, EmptyIsExplained, RefreshEnds
<1> QED
  BY <1>2, <1>4 DEF IInv

\* Every step keeps the invariant.
LEMMA NextIInv == IInv /\ [Next]_vars => IInv'
<1> SUFFICES ASSUME IInv, [Next]_vars PROVE IInv'
  OBVIOUS
<1> USE ListBounds
<1>1. CASE UNCHANGED vars
  BY <1>1 DEF IInv, TypeOK, ScreenIsHonest, EmptyIsExplained, RefreshEnds, vars, tables, app
<1>2. CASE ChangeDeployments \/ ChangeJobs
  <2>1. deploymentTable' \in Change /\ jobTable' \in Change
    BY <1>2 DEF ChangeDeployments, ChangeJobs, IInv, TypeOK, Change
  <2> QED
    BY <1>2, <2>1 DEF ChangeDeployments, ChangeJobs, IInv, TypeOK, ScreenIsHonest,
                      EmptyIsExplained, RefreshEnds, app
<1>3. ASSUME NEW f \in Fetch, AnswerDeployments(f) PROVE IInv'
  <2> DEFINE x == [fetch[f] EXCEPT !.deployments = deploymentTable]
  <2>1. x \in FetchSet /\ x.asked
    BY <1>3 DEF AnswerDeployments, IInv, TypeOK, FetchSet
  <2>2. fetch' = [fetch EXCEPT ![f] = x]
    BY <1>3 DEF AnswerDeployments
  <2> HIDE DEF x
  <2> QED
    BY <1>3, <2>1, <2>2, AskedKeeps DEF AnswerDeployments, app, IInv, TypeOK
<1>4. ASSUME NEW f \in Fetch, AnswerJobs(f) PROVE IInv'
  <2> DEFINE x == [fetch[f] EXCEPT !.jobs = jobTable]
  <2>1. x \in FetchSet /\ x.asked
    BY <1>4 DEF AnswerJobs, IInv, TypeOK, FetchSet
  <2>2. fetch' = [fetch EXCEPT ![f] = x]
    BY <1>4 DEF AnswerJobs
  <2> HIDE DEF x
  <2> QED
    BY <1>4, <2>1, <2>2, AskedKeeps DEF AnswerJobs, app, IInv, TypeOK
<1>5. ASSUME NEW f \in Fetch, Poll(f) \/ Refresh(f) PROVE IInv'
  <2>1. Asked \in FetchSet /\ Asked.asked
    BY DEF Asked, Idle, FetchSet
  <2> QED
    BY <1>5, <2>1, AskedKeeps DEF Poll, Refresh, app, IInv, TypeOK
<1>6. ASSUME NEW f \in Fetch, Arrive(f) PROVE IInv'
  <2>1. fetch[f].deployments \in Change \cup {Nothing} /\ fetch[f].jobs \in Change \cup {Nothing}
    BY DEF IInv, TypeOK
  <2> QED
    BY <1>6, <2>1, SettledKeeps DEF Arrive, IInv, TypeOK
<1>7. ASSUME NEW f \in Fetch, Fail(f) PROVE IInv'
  <2>1. errors' \in 0..MaxError
    BY <1>7 DEF Fail, IInv, TypeOK
  <2> QED
    BY <1>7, <2>1, SettledKeeps DEF Fail, IInv, TypeOK
<1> QED
  BY <1>1, <1>2, <1>3, <1>4, <1>5, <1>6, <1>7 DEF Next

-----------------------------------------------------------------------------
(* The results. *)

\* Every variable keeps its type.
THEOREM TypeCorrect == Spec => []TypeOK
<1>1. IInv => TypeOK
  BY DEF IInv
<1> QED
  BY <1>1, InitIInv, NextIInv, PTL DEF Spec

\* An empty list that is not loading has been answered or stands below an error,
\* and the button is disabled only while a fetch is under way, for any number of
\* fetches that overlap.
THEOREM HonestScreen == Spec => []ScreenIsHonest
<1>1. IInv => ScreenIsHonest
  BY DEF IInv
<1> QED
  BY <1>1, InitIInv, NextIInv, PTL DEF Spec

-----------------------------------------------------------------------------
(* The newest job. *)

\* Rows of different jobs are ordered, by their ids when their seconds agree.
Ordered(rows) ==
  /\ rows \subseteq JobRow
  /\ \A r, s \in rows : r # s => r.id # s.id

LEMMA BeforeOrders ==
  ASSUME NEW rows, Ordered(rows), NEW r \in rows, NEW s \in rows
  PROVE  /\ ~Before(r, r)
         /\ r # s => Before(r, s) \/ Before(s, r)
         /\ Before(r, s) => ~Before(s, r) /\ s.second <= r.second
<1>1. r.second \in Nat /\ s.second \in Nat /\ r.id \in Nat /\ s.id \in Nat
  BY ListBounds DEF Ordered, JobRow
<1> QED
  BY <1>1 DEF Ordered, Before

LEMMA BeforeIsTransitive ==
  ASSUME NEW rows, Ordered(rows), NEW r \in rows, NEW s \in rows, NEW t \in rows,
         Before(r, s), Before(s, t)
  PROVE  Before(r, t)
<1>1. /\ r.second \in Nat /\ s.second \in Nat /\ t.second \in Nat
      /\ r.id \in Nat /\ s.id \in Nat /\ t.id \in Nat
  BY ListBounds DEF Ordered, JobRow
<1> QED
  BY <1>1 DEF Before

\* Whoever is before the better one is before the other one too.
LEMMA BetterIsFewer ==
  ASSUME NEW rows, Ordered(rows), NEW r \in rows, NEW s \in rows, Before(s, r)
  PROVE  /\ {t \in rows : Before(t, s)} \subseteq {t \in rows : Before(t, r)}
         /\ {t \in rows : Before(t, s)} # {t \in rows : Before(t, r)}
<1>1. \A t \in rows : Before(t, s) => Before(t, r)
  BY BeforeIsTransitive
<1>2. ~Before(s, s)
  BY BeforeOrders
<1> QED
  BY <1>1, <1>2

\* Among finitely many rows one is before all others: one whose betters are as
\* few as can be.
LEMMA NewestExists ==
  ASSUME NEW rows, Ordered(rows), IsFiniteSet(rows), rows # {}
  PROVE  \E r \in rows : \A s \in rows : s # r => Before(r, s)
<1> DEFINE Better(r) == {s \in rows : Before(s, r)}
           betters == {Better(r) : r \in rows}
<1>1. IsWellFoundedOn(StrictSubsetOrdering(rows), FiniteSubsetsOf(rows))
  BY FS_StrictSubsetOrderingWellFounded
<1>2. FiniteSubsetsOf(rows) = SUBSET rows
  BY FS_FiniteSubsetsOfFinite
<1>3. betters \subseteq FiniteSubsetsOf(rows) /\ betters # {}
  <2>1. \A r \in rows : Better(r) \in SUBSET rows
    OBVIOUS
  <2>2. betters \subseteq SUBSET rows
    <3> HIDE DEF Better
    <3> QED
      BY <2>1
  <2>3. betters # {}
    <3> HIDE DEF Better
    <3> QED
      OBVIOUS
  <2> QED
    BY <1>2, <2>2, <2>3
<1>4. PICK x \in betters : \A y \in betters : ~(<<y, x>> \in StrictSubsetOrdering(rows))
  <2> HIDE DEF betters
  <2> QED
    BY <1>1, <1>3, WFMin
<1>5. PICK r \in rows : x = Better(r)
  OBVIOUS
<1>6. ASSUME NEW s \in rows, Before(s, r) PROVE FALSE
  <2>1. Better(s) \subseteq Better(r) /\ Better(s) # Better(r)
    BY <1>6, BetterIsFewer
  <2>2. Better(s) \in SUBSET rows /\ Better(r) \in SUBSET rows
    OBVIOUS
  <2>3. <<Better(s), Better(r)>> \in StrictSubsetOrdering(rows)
    <3> HIDE DEF Better
    <3> QED
      BY <2>1, <2>2 DEF StrictSubsetOrdering
  <2>4. Better(s) \in betters
    OBVIOUS
  <2> QED
    BY <1>4, <1>5, <2>3, <2>4
<1>7. \A s \in rows : s # r => Before(r, s)
  BY <1>6, BeforeOrders
<1> QED
  BY <1>7

-----------------------------------------------------------------------------
(* What is listed. *)

\* The rows that a client has seen are finitely many jobs of one history.
LEMMA RowsAreOrdered ==
  ASSUME TypeOK, history \in Histories
  PROVE  Ordered(Rows) /\ IsFiniteSet(Rows)
<1>1. history \in [1..MaxChange -> JobRow]
  BY DEF TypeOK
<1>2. \A i, k \in 1..MaxChange : i # k => history[i].id # history[k].id
  <2>1. \A i, k \in 1..MaxChange : i < k => history[i].id # history[k].id
    BY DEF Histories
  <2>2. \A i, k \in 1..MaxChange : i # k => i < k \/ k < i
    BY ListBounds
  <2> QED
    BY <2>1, <2>2
<1>3. CASE jobs = Nothing
  <2>1. Rows = {}
    BY <1>3 DEF Rows
  <2>2. IsFiniteSet({})
    BY FS_EmptySet
  <2> QED
    BY <2>1, <2>2 DEF Ordered
<1>4. CASE jobs # Nothing
  <2>1. jobs \in Nat /\ jobs <= MaxChange
    BY <1>4, ListBounds DEF TypeOK, Change
  <2>2. 1..jobs \subseteq 1..MaxChange
    BY <2>1, ListBounds
  <2>3. Rows = {history[i] : i \in 1..jobs}
    BY <1>4 DEF Rows
  <2>4. Ordered(Rows)
    BY <1>1, <1>2, <2>2, <2>3 DEF Ordered
  <2>5. IsFiniteSet(Rows)
    <3> DEFINE row == [i \in 1..jobs |-> history[i]]
    <3>1. row \in Surjection(1..jobs, Rows)
      BY <2>3 DEF Surjection
    <3>2. IsFiniteSet(1..jobs)
      BY <2>1, FS_Interval
    <3> HIDE DEF row
    <3> QED
      BY <3>1, <3>2, FS_Surjection
  <2> QED
    BY <2>4, <2>5
<1> QED
  BY <1>3, <1>4

\* The button of a deployment names its newest job.
LEMMA LastIsNewest ==
  ASSUME TypeOK, history \in Histories, NEW name \in Name
  PROVE  LET listed == {r \in Rows : r.name = name}
             last == LastActivity(name)
         IN IF listed = {} THEN last = NoHistory
            ELSE last \in listed /\ \A r \in listed : r.second <= last.second
<1> DEFINE listed == {r \in Rows : r.name = name}
<1>1. Ordered(Rows) /\ IsFiniteSet(Rows)
  BY RowsAreOrdered
<1>2. Ordered(listed) /\ IsFiniteSet(listed)
  <2>1. IsFiniteSet(listed)
    BY <1>1, FS_Subset
  <2> QED
    BY <1>1, <2>1 DEF Ordered
<1>3. latestJobs(name) = {r \in listed : \A s \in listed : s # r => Before(r, s)}
  BY DEF latestJobs
<1>4. CASE listed = {}
  BY <1>3, <1>4 DEF LastActivity
<1>5. CASE listed # {}
  <2>1. latestJobs(name) # {}
    <3> HIDE DEF listed
    <3> QED
      BY <1>2, <1>3, <1>5, NewestExists
  <2>2. LastActivity(name) \in latestJobs(name)
    BY <2>1 DEF LastActivity
  <2>3. /\ LastActivity(name) \in listed
        /\ \A s \in listed : s # LastActivity(name) => Before(LastActivity(name), s)
    BY <2>2, <1>3
  <2>4. \A s \in listed : s.second <= LastActivity(name).second
    <3> SUFFICES ASSUME NEW s \in listed PROVE s.second <= LastActivity(name).second
      OBVIOUS
    <3>1. CASE s = LastActivity(name)
      <4>1. s.second \in Nat
        BY <1>2, ListBounds DEF Ordered, JobRow
      <4> QED
        BY <3>1, <4>1
    <3>2. CASE s # LastActivity(name)
      <4> HIDE DEF listed
      <4> QED
        BY <3>2, <2>3, <1>2, BeforeOrders
    <3> QED
      BY <3>1, <3>2
  <2> QED
    BY <1>5, <2>3, <2>4
<1> QED
  BY <1>4, <1>5

\* A row with few rows before it leaves few before whatever is newer.
LEMMA RecentIsNewest ==
  ASSUME TypeOK, history \in Histories, NEW r \in recentJobs, NEW s \in Rows \ recentJobs
  PROVE  s.second <= r.second
<1> DEFINE Better(t) == {u \in Rows : Before(u, t)}
<1>1. Ordered(Rows) /\ IsFiniteSet(Rows)
  BY RowsAreOrdered
<1>2. r \in Rows /\ s \in Rows /\ Cardinality(Better(r)) < Recent /\ ~(Cardinality(Better(s)) < Recent)
  BY DEF recentJobs
<1>3. r.second \in Nat /\ s.second \in Nat
  BY <1>1, <1>2, ListBounds DEF Ordered, JobRow
<1>4. CASE Before(s, r)
  <2>1. Better(s) \in SUBSET Better(r)
    BY <1>1, <1>2, <1>4, BetterIsFewer
  <2>2. IsFiniteSet(Better(r))
    BY <1>1, FS_Subset
  <2> HIDE DEF Better
  <2>3. IsFiniteSet(Better(s)) /\ Cardinality(Better(s)) <= Cardinality(Better(r))
    BY <2>1, <2>2, FS_Subset
  <2>4. Cardinality(Better(s)) \in Nat /\ Cardinality(Better(r)) \in Nat
    BY <2>2, <2>3, FS_CardinalityType
  <2> QED
    BY <1>2, <2>3, <2>4, ListBounds
<1>5. CASE ~Before(s, r)
  BY <1>3, <1>5 DEF Before
<1> QED
  BY <1>4, <1>5

\* The history was given from the start.
LEMMA HistoryIsGiven == Spec => [](history \in Histories)
<1>1. Init => history \in Histories
  BY DEF Init
<1>2. [Next]_vars => history' = history
  BY DEF Next, vars, tables, ChangeDeployments, ChangeJobs, AnswerDeployments, AnswerJobs,
         Poll, Refresh, Arrive, Fail, Settled
<1>3. Histories' = Histories
  BY DEF Histories, JobRow
<1>4. history \in Histories /\ [Next]_vars => (history \in Histories)'
  BY <1>2, <1>3
<1> QED
  BY <1>1, <1>4, PTL DEF Spec

\* "Last activity" names the newest job listed for its deployment and recent
\* activity leaves out no newer job, for any number of jobs, whatever their ids
\* and however many of them share a second.
THEOREM ActivityIsLatest == Spec => []LastActivityIsLatest
<1>1. TypeOK /\ history \in Histories => LastActivityIsLatest
  BY LastIsNewest, RecentIsNewest DEF LastActivityIsLatest
<1> QED
  BY <1>1, TypeCorrect, HistoryIsGiven, PTL

-----------------------------------------------------------------------------
(* Rounding. *)

\* A rounded quotient of one of the divisors of format.ts is off by half of the
\* divisor at most, halves upwards.
LEMMA RoundedBounds ==
  ASSUME NEW a \in Int
  PROVE  /\ Rounded(a, 24) \in Int
         /\ 24 * Rounded(a, 24) - 12 <= a /\ a < 24 * Rounded(a, 24) + 12
         /\ Rounded(a, 60) \in Int
         /\ 60 * Rounded(a, 60) - 30 <= a /\ a < 60 * Rounded(a, 60) + 30
BY DEF Rounded

\* Rounding to the three units that labels have says by how much each is off.
LEMMA UnitBounds ==
  ASSUME NEW s \in Int
  PROVE  /\ Minutes(s) \in Int /\ Hours(s) \in Int /\ Days(s) \in Int
         /\ 60 * Minutes(s) - 30 <= s /\ s < 60 * Minutes(s) + 30
         /\ 60 * Hours(s) - 30 <= Minutes(s) /\ Minutes(s) < 60 * Hours(s) + 30
         /\ 24 * Days(s) - 12 <= Hours(s) /\ Hours(s) < 24 * Days(s) + 12
<1>1. Minutes(s) \in Int /\ 60 * Minutes(s) - 30 <= s /\ s < 60 * Minutes(s) + 30
  BY RoundedBounds DEF Minutes
<1>2. Hours(s) \in Int /\ 60 * Hours(s) - 30 <= Minutes(s) /\ Minutes(s) < 60 * Hours(s) + 30
  <2> DEFINE m == Minutes(s)
  <2>1. m \in Int
    BY <1>1
  <2> HIDE DEF m
  <2>2. 60 * Rounded(m, 60) - 30 <= m /\ m < 60 * Rounded(m, 60) + 30 /\ Rounded(m, 60) \in Int
    BY <2>1, RoundedBounds
  <2> QED
    BY <2>2 DEF m, Hours
<1>3. Days(s) \in Int /\ 24 * Days(s) - 12 <= Hours(s) /\ Hours(s) < 24 * Days(s) + 12
  <2> DEFINE h == Hours(s)
  <2>1. h \in Int
    BY <1>2
  <2> HIDE DEF h
  <2>2. 24 * Rounded(h, 24) - 12 <= h /\ h < 24 * Rounded(h, 24) + 12 /\ Rounded(h, 24) \in Int
    BY <2>1, RoundedBounds
  <2> QED
    BY <2>2 DEF h, Days
<1> QED
  BY <1>1, <1>2, <1>3

-----------------------------------------------------------------------------
(* How long ago. *)

\* A bound on a difference bounds it on both sides.
LEMMA AbsBelow ==
  ASSUME NEW x \in Int, NEW k \in Int
  PROVE  Abs(x) < k <=> -k < x /\ x < k
BY DEF Abs

\* What a label of formatRelativeTime names and in which unit, by how far away
\* the time is.
LEMMA RelativeCases ==
  ASSUME NEW s \in Int
  PROVE  LET r == formatRelativeTime(s)
             m == Minutes(s)
             h == Hours(s)
         IN \/ -60 < s /\ s < 60 /\ r = [n |-> s, unit |-> 1]
            \/ /\ ~(-60 < s /\ s < 60) /\ -60 < m /\ m < 60
               /\ r = [n |-> m, unit |-> 60]
            \/ /\ ~(-60 < s /\ s < 60) /\ ~(-60 < m /\ m < 60) /\ -24 < h /\ h < 24
               /\ r = [n |-> h, unit |-> 3600]
            \/ /\ ~(-60 < s /\ s < 60) /\ ~(-60 < m /\ m < 60) /\ ~(-24 < h /\ h < 24)
               /\ -30 < Days(s) /\ Days(s) < 30
               /\ r = [n |-> Days(s), unit |-> 86400]
            \/ /\ ~(-60 < s /\ s < 60) /\ ~(-60 < m /\ m < 60) /\ ~(-24 < h /\ h < 24)
               /\ ~(-30 < Days(s) /\ Days(s) < 30)
               /\ r = CalendarDate
<1>1. Minutes(s) \in Int /\ Hours(s) \in Int /\ Days(s) \in Int
  BY UnitBounds
<1>2. /\ Abs(s) < 60 <=> -60 < s /\ s < 60
      /\ Abs(Minutes(s)) < 60 <=> -60 < Minutes(s) /\ Minutes(s) < 60
      /\ Abs(Hours(s)) < 24 <=> -24 < Hours(s) /\ Hours(s) < 24
      /\ Abs(Days(s)) < 30 <=> -30 < Days(s) /\ Days(s) < 30
  BY <1>1, AbsBelow
<1> QED
  BY <1>2 DEF formatRelativeTime, Second, Minute, Hour, Day

\* A label is a date exactly when the time is thirty days away or more, as days
\* are rounded; no other label has the unit of a date.
LEMMA DateIsFar ==
  ASSUME NEW s \in Int
  PROVE  HasRelativeTime(s) <=> -30 < Days(s) /\ Days(s) < 30
<1> DEFINE r == formatRelativeTime(s)
<1>1. /\ Minutes(s) \in Int /\ Hours(s) \in Int /\ Days(s) \in Int
      /\ 60 * Minutes(s) - 30 <= s /\ s < 60 * Minutes(s) + 30
      /\ 60 * Hours(s) - 30 <= Minutes(s) /\ Minutes(s) < 60 * Hours(s) + 30
      /\ 24 * Days(s) - 12 <= Hours(s) /\ Hours(s) < 24 * Days(s) + 12
  BY UnitBounds
<1>2. CASE r = CalendarDate
  <2>1. \A n : \A u \in {1, 60, 3600, 86400} : r # [n |-> n, unit |-> u]
    BY <1>2 DEF CalendarDate
  <2>2. ~(-30 < Days(s) /\ Days(s) < 30)
    BY <2>1, RelativeCases
  <2> QED
    BY <1>2, <2>2 DEF HasRelativeTime
<1>3. CASE r # CalendarDate
  <2>1. (-60 < s /\ s < 60) \/ (-60 < Minutes(s) /\ Minutes(s) < 60)
          \/ (-24 < Hours(s) /\ Hours(s) < 24) \/ (-30 < Days(s) /\ Days(s) < 30)
    BY <1>3, RelativeCases
  <2>2. -30 < Days(s) /\ Days(s) < 30
    BY <1>1, <2>1
  <2> QED
    BY <1>3, <2>2 DEF HasRelativeTime
<1> QED
  BY <1>2, <1>3

\* The time since a job is off by half of its unit and what the smaller units
\* were off by, and no label says "0 minutes", "0 hours" or "0 days".
THEOREM RelativeCloseToTime == \A s \in Int : RelativeIsClose(s)
<1> SUFFICES ASSUME NEW s \in Int PROVE RelativeIsClose(s)
  OBVIOUS
<1> DEFINE r == formatRelativeTime(s)
           m == Minutes(s)
           h == Hours(s)
           d == Days(s)
<1>1. /\ m \in Int /\ h \in Int /\ d \in Int
      /\ 60 * m - 30 <= s /\ s < 60 * m + 30
      /\ 60 * h - 30 <= m /\ m < 60 * h + 30
      /\ 24 * d - 12 <= h /\ h < 24 * d + 12
  BY UnitBounds
<1>2. SUFFICES ASSUME r # CalendarDate
      PROVE    /\ Reads(r) - s <= Half(r.unit) /\ s - Reads(r) <= Half(r.unit)
               /\ Reads(r) \in Int
               /\ r.unit # 1 => r.n # 0
  BY DEF RelativeIsClose, Abs, Second
<1>3. CASE r = [n |-> s, unit |-> 1]
  BY <1>3 DEF Half, Reads, Second
<1>4. CASE ~(-60 < s /\ s < 60) /\ r = [n |-> m, unit |-> 60]
  <2>1. Reads(r) = m * 60 /\ r.unit = 60 /\ r.n = m /\ Half(r.unit) = 30
    BY <1>4 DEF Half, Reads, Second, Minute
  <2> HIDE DEF r, m
  <2> QED
    BY <1>1, <1>4, <2>1
<1>5. CASE ~(-60 < m /\ m < 60) /\ r = [n |-> h, unit |-> 3600]
  <2>1. Reads(r) = h * 3600 /\ r.unit = 3600 /\ r.n = h /\ Half(r.unit) = 1830
    BY <1>5 DEF Half, Reads, Second, Minute, Hour
  <2> HIDE DEF r, m, h
  <2> QED
    BY <1>1, <1>5, <2>1
<1>6. CASE ~(-24 < h /\ h < 24) /\ r = [n |-> d, unit |-> 86400]
  <2>1. Reads(r) = d * 86400 /\ r.unit = 86400 /\ r.n = d /\ Half(r.unit) = 45030
    BY <1>6 DEF Half, Reads, Second, Minute, Hour
  <2> HIDE DEF r, m, h, d
  <2> QED
    BY <1>1, <1>6, <2>1
<1> QED
  BY <1>2, <1>3, <1>4, <1>5, <1>6, RelativeCases

\* What a label of formatRelativeTime that is no date reads, in seconds.
LEMMA RelativeReads ==
  ASSUME NEW s \in Int, HasRelativeTime(s)
  PROVE  LET x == Reads(formatRelativeTime(s))
             m == Minutes(s)
             h == Hours(s)
         IN \/ -60 < s /\ s < 60 /\ x = s
            \/ ~(-60 < s /\ s < 60) /\ -60 < m /\ m < 60 /\ x = 60 * m
            \/ ~(-60 < s /\ s < 60) /\ ~(-60 < m /\ m < 60) /\ -24 < h /\ h < 24 /\ x = 3600 * h
            \/ ~(-60 < s /\ s < 60) /\ ~(-60 < m /\ m < 60) /\ ~(-24 < h /\ h < 24)
               /\ x = 86400 * Days(s)
<1> DEFINE r == formatRelativeTime(s)
<1>1. Minutes(s) \in Int /\ Hours(s) \in Int /\ Days(s) \in Int
  BY UnitBounds
<1>2. r = [n |-> s, unit |-> 1] => Reads(r) = s
  BY DEF Reads
<1>3. r = [n |-> Minutes(s), unit |-> 60] => Reads(r) = 60 * Minutes(s)
  BY <1>1 DEF Reads
<1>4. r = [n |-> Hours(s), unit |-> 3600] => Reads(r) = 3600 * Hours(s)
  BY <1>1 DEF Reads
<1>5. r = [n |-> Days(s), unit |-> 86400] => Reads(r) = 86400 * Days(s)
  BY <1>1 DEF Reads
<1>6. r # CalendarDate
  BY DEF HasRelativeTime
<1> QED
  BY <1>2, <1>3, <1>4, <1>5, <1>6, RelativeCases

\* Of two jobs whose labels name a distance the older one never reads as the
\* newer one.
LEMMA DistancesAreOrdered ==
  ASSUME NEW s \in Int, NEW t \in Int, s <= t, HasRelativeTime(s), HasRelativeTime(t)
  PROVE  Reads(formatRelativeTime(s)) <= Reads(formatRelativeTime(t))
<1> DEFINE m == Minutes(s)  n == Minutes(t)
           h == Hours(s)    i == Hours(t)
           d == Days(s)     e == Days(t)
           x == Reads(formatRelativeTime(s))
           y == Reads(formatRelativeTime(t))
<1>1. /\ m \in Int /\ h \in Int /\ d \in Int
      /\ 60 * m - 30 <= s /\ s < 60 * m + 30
      /\ 60 * h - 30 <= m /\ m < 60 * h + 30
      /\ 24 * d - 12 <= h /\ h < 24 * d + 12
  BY UnitBounds
<1>2. /\ n \in Int /\ i \in Int /\ e \in Int
      /\ 60 * n - 30 <= t /\ t < 60 * n + 30
      /\ 60 * i - 30 <= n /\ n < 60 * i + 30
      /\ 24 * e - 12 <= i /\ i < 24 * e + 12
  BY UnitBounds
<1>3. \/ -60 < s /\ s < 60 /\ x = s
      \/ ~(-60 < s /\ s < 60) /\ -60 < m /\ m < 60 /\ x = 60 * m
      \/ ~(-60 < s /\ s < 60) /\ ~(-60 < m /\ m < 60) /\ -24 < h /\ h < 24 /\ x = 3600 * h
      \/ ~(-60 < s /\ s < 60) /\ ~(-60 < m /\ m < 60) /\ ~(-24 < h /\ h < 24) /\ x = 86400 * d
  BY RelativeReads
<1>4. \/ -60 < t /\ t < 60 /\ y = t
      \/ ~(-60 < t /\ t < 60) /\ -60 < n /\ n < 60 /\ y = 60 * n
      \/ ~(-60 < t /\ t < 60) /\ ~(-60 < n /\ n < 60) /\ -24 < i /\ i < 24 /\ y = 3600 * i
      \/ ~(-60 < t /\ t < 60) /\ ~(-60 < n /\ n < 60) /\ ~(-24 < i /\ i < 24) /\ y = 86400 * e
  BY RelativeReads
<1> HIDE DEF m, n, h, i, d, e, x, y
<1>5. m <= n /\ h <= i /\ d <= e
  BY <1>1, <1>2
<1>6. x <= y
  BY <1>1, <1>2, <1>3, <1>4, <1>5
<1> QED
  BY <1>6 DEF x, y

\* Of two jobs the older one never reads as the newer one, as long as both labels
\* name a distance, also where one is in minutes and the other one in hours; and
\* what is older than a job shown by its date is shown by its date.
THEOREM OlderReadsAsOlder == \A s, t \in Int : OlderReadsOlder(s, t)
<1> SUFFICES ASSUME NEW s \in Int, NEW t \in Int, s <= t PROVE OlderReadsOlder(s, t)
  BY DEF OlderReadsOlder
<1>1. HasRelativeTime(s) /\ HasRelativeTime(t)
        => Reads(formatRelativeTime(s)) <= Reads(formatRelativeTime(t))
  BY DistancesAreOrdered
<1>2. ASSUME t <= 0, HasRelativeTime(s) PROVE HasRelativeTime(t)
  <2> DEFINE d == Days(s)  e == Days(t)
  <2>1. /\ Minutes(s) \in Int /\ Hours(s) \in Int /\ d \in Int
        /\ 60 * Minutes(s) - 30 <= s /\ s < 60 * Minutes(s) + 30
        /\ 60 * Hours(s) - 30 <= Minutes(s) /\ Minutes(s) < 60 * Hours(s) + 30
        /\ 24 * d - 12 <= Hours(s) /\ Hours(s) < 24 * d + 12
    BY UnitBounds
  <2>2. /\ Minutes(t) \in Int /\ Hours(t) \in Int /\ e \in Int
        /\ 60 * Minutes(t) - 30 <= t /\ t < 60 * Minutes(t) + 30
        /\ 60 * Hours(t) - 30 <= Minutes(t) /\ Minutes(t) < 60 * Hours(t) + 30
        /\ 24 * e - 12 <= Hours(t) /\ Hours(t) < 24 * e + 12
    BY UnitBounds
  <2>3. -30 < d
    BY <1>2, DateIsFar
  <2> HIDE DEF d, e
  <2>4. d <= e /\ e <= 0
    BY <1>2, <2>1, <2>2
  <2> QED
    BY <2>1, <2>2, <2>3, <2>4, DateIsFar DEF e
<1> QED
  BY <1>1, <1>2 DEF OlderReadsOlder

-----------------------------------------------------------------------------
(* How long it took, and for how long it is up. *)

\* A duration is off by half of its unit at most, or is less than one second.
THEOREM DurationCloseToTime == \A ms \in Nat : DurationIsClose(ms)
<1> SUFFICES ASSUME NEW ms \in Nat PROVE DurationIsClose(ms)
  OBVIOUS
<1>1. CASE ms < 1000
  BY <1>1 DEF DurationIsClose, formatDuration
<1>2. CASE ~(ms < 1000) /\ ms < 60000
  <2>1. formatDuration(ms) = [n |-> Rounded(ms, 1000), unit |-> 1000]
    BY <1>2 DEF formatDuration
  <2> QED
    BY <1>2, <2>1 DEF DurationIsClose, Rounded, Reads, Abs
<1>3. CASE ms >= 60000
  <2>1. formatDuration(ms) = [n |-> Rounded(ms, 60000), unit |-> 60000]
    BY <1>3 DEF formatDuration
  <2> QED
    BY <1>3, <2>1 DEF DurationIsClose, Rounded, Reads, Abs
<1> QED
  BY <1>1, <1>2, <1>3

\* What an uptime reads, by how long it is: it is cut to the smaller unit of its
\* label.
LEMMA UptimeReads ==
  ASSUME NEW s \in Nat
  PROVE  LET u == formatUptimeSeconds(s)
         IN \/ s < 60 /\ Reads(u) = s /\ u.unit = 1
            \/ s >= 60 /\ s < 172800 /\ Reads(u) = 60 * (s \div 60) /\ u.unit = 60
            \/ s >= 172800 /\ Reads(u) = 3600 * (s \div 3600) /\ u.unit = 3600
<1> DEFINE minutes == s \div 60
           hours == minutes \div 60
           days == hours \div 24
<1>1. minutes \in Int /\ hours \in Int /\ days \in Int /\ hours = s \div 3600
  OBVIOUS
<1>2. minutes = 60 * hours + (minutes % 60) /\ hours = 24 * days + (hours % 24)
  BY <1>1
<1>3. CASE s < 60
  BY <1>3 DEF formatUptimeSeconds, Reads, Second
<1>4. CASE s >= 60 /\ minutes < 60
  BY <1>4 DEF formatUptimeSeconds, Reads, Minute
<1>5. CASE minutes >= 60 /\ hours < 48
  <2>1. formatUptimeSeconds(s) = [n |-> 60 * hours + (minutes % 60), unit |-> 60]
    BY <1>5, <1>1 DEF formatUptimeSeconds, Minute
  <2> QED
    BY <1>1, <1>2, <1>5, <2>1 DEF Reads
<1>6. CASE hours >= 48
  <2>1. formatUptimeSeconds(s) = [n |-> 24 * days + (hours % 24), unit |-> 3600]
    BY <1>6, <1>1 DEF formatUptimeSeconds, Hour
  <2> QED
    BY <1>1, <1>2, <1>6, <2>1 DEF Reads
<1> QED
  BY <1>1, <1>3, <1>4, <1>5, <1>6

\* An uptime is cut to its smaller unit, and never goes back as time goes by,
\* also where its label changes from minutes to hours.
THEOREM UptimeTruthful == \A s, t \in Nat : UptimeIsExact(s) /\ UptimeGrows(s, t)
<1> SUFFICES ASSUME NEW s \in Nat, NEW t \in Nat
             PROVE  UptimeIsExact(s) /\ UptimeGrows(s, t)
  OBVIOUS
<1>1. UptimeIsExact(s)
  BY UptimeReads DEF UptimeIsExact
<1>2. UptimeGrows(s, t)
  BY UptimeReads DEF UptimeGrows
<1> QED
  BY <1>1, <1>2
=============================================================================
