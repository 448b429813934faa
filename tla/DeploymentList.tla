----------------------------- MODULE DeploymentList -----------------------------
(***************************************************************************)
(* The list of deployments and of recent jobs: App, which fetches both at  *)
(* once from a timer, a button and after jobs, and Dashboard, which shows  *)
(* them.  A fetch does not wait for another one, its requests are answered *)
(* at different moments, and its answers replace whatever is shown.        *)
(*                                                                         *)
(* The tables of the daemon are known by the number of their changes.  The *)
(* jobs are given with the history: after change k, the first k jobs are   *)
(* in the table.                                                           *)
(***************************************************************************)
EXTENDS Naturals, FiniteSets

CONSTANTS Name,        \* names of deployments
          Fetch,       \* bound: fetches that are under way together
          MaxChange,   \* bound: changes of each table
          MaxSecond,   \* bound: the clock of the daemon
          MaxError,    \* bound: fetches that fail
          Recent       \* how many recent jobs are listed (9 in the code)

ASSUME ListBounds == {MaxChange, MaxSecond, MaxError, Recent} \subseteq Nat

VARIABLES
  history,             \* the jobs: name, second and random id
  deploymentTable, jobTable,   \* the changes of the tables of the daemon
  deployments, jobs,   \* the state of App: what is shown, or Nothing
  loading, refreshing, loadError,
  fetch,               \* the calls of fetchData
  errors

tables == <<history, deploymentTable, jobTable>>
app == <<deployments, jobs, loading, refreshing, loadError>>
vars == <<tables, app, fetch, errors>>

Change == 0..MaxChange
Nothing == MaxChange + 1
JobRow == [name : Name, second : 0..MaxSecond, id : 1..MaxChange]

\* what a fetch has been answered so far
Idle == [asked |-> FALSE, deployments |-> Nothing, jobs |-> Nothing]
Asked == [Idle EXCEPT !.asked = TRUE]

TypeOK ==
  /\ history \in [1..MaxChange -> JobRow]
  /\ deploymentTable \in Change /\ jobTable \in Change
  /\ deployments \in Change \cup {Nothing} /\ jobs \in Change \cup {Nothing}
  /\ loading \in BOOLEAN /\ refreshing \in BOOLEAN /\ loadError \in BOOLEAN
  /\ fetch \in [Fetch -> [asked : BOOLEAN, deployments : Change \cup {Nothing}, jobs : Change \cup {Nothing}]]
  /\ errors \in 0..MaxError

\* jobs are inserted in the order of the clock, with ids in any order
Histories ==
  {h \in [1..MaxChange -> JobRow] :
     \A i, k \in 1..MaxChange : i < k => h[i].second <= h[k].second /\ h[i].id # h[k].id}

\* App is mounted: the first fetch is under way
Init ==
  /\ history \in Histories
  /\ deploymentTable = 0
  /\ jobTable = 0
  /\ deployments = Nothing
  /\ jobs = Nothing
  /\ loading = TRUE
  /\ refreshing = TRUE
  /\ loadError = FALSE
  /\ \E f \in Fetch : fetch = [g \in Fetch |-> IF g = f THEN Asked ELSE Idle]
  /\ errors = 0

-----------------------------------------------------------------------------
(* The daemon. *)

ChangeDeployments ==
  /\ deploymentTable < MaxChange
  /\ deploymentTable' = deploymentTable + 1
  /\ UNCHANGED <<history, jobTable, app, fetch, errors>>

ChangeJobs ==
  /\ jobTable < MaxChange
  /\ jobTable' = jobTable + 1
  /\ UNCHANGED <<history, deploymentTable, app, fetch, errors>>

\* handleListDeployments and handleListJobs
AnswerDeployments(f) ==
  /\ fetch[f].asked /\ fetch[f].deployments = Nothing
  /\ fetch' = [fetch EXCEPT ![f].deployments = deploymentTable]
  /\ UNCHANGED <<tables, app, errors>>

AnswerJobs(f) ==
  /\ fetch[f].asked /\ fetch[f].jobs = Nothing
  /\ fetch' = [fetch EXCEPT ![f].jobs = jobTable]
  /\ UNCHANGED <<tables, app, errors>>

-----------------------------------------------------------------------------
(* fetchData. *)

\* Mutant: the timer stops once something is listed
PollOnce(f) ==
  /\ ~fetch[f].asked /\ deployments = Nothing
  /\ fetch' = [fetch EXCEPT ![f] = Asked]
  /\ UNCHANGED <<tables, app, errors>>

\* in the background: the timer, which waits for nobody, or a job that finished
Poll(f) ==
  /\ ~fetch[f].asked
  /\ fetch' = [fetch EXCEPT ![f] = Asked]
  /\ UNCHANGED <<tables, app, errors>>

\* the buttons Refresh, which is disabled while refreshing, and Retry, and the
\* answer to a create
Refresh(f) ==
  /\ ~fetch[f].asked
  /\ fetch' = [fetch EXCEPT ![f] = Asked]
  /\ refreshing' = TRUE
  /\ UNCHANGED <<tables, deployments, jobs, loading, loadError, errors>>

\* finally, of any fetch, whoever set refreshing
Settled(f) ==
  /\ fetch' = [fetch EXCEPT ![f] = Idle]
  /\ loading' = FALSE
  /\ refreshing' = FALSE

Arrive(f) ==
  /\ fetch[f].deployments # Nothing /\ fetch[f].jobs # Nothing
  /\ deployments' = fetch[f].deployments
  /\ jobs' = fetch[f].jobs
  /\ loadError' = FALSE
  /\ Settled(f)
  /\ UNCHANGED <<tables, errors>>

\* Mutant: the error is dropped
FailSilently(f) ==
  /\ fetch[f].asked
  /\ errors < MaxError
  /\ errors' = errors + 1
  /\ Settled(f)
  /\ UNCHANGED <<tables, deployments, jobs, loadError>>

\* one of the requests fails: the list stays as it is
Fail(f) ==
  /\ fetch[f].asked
  /\ errors < MaxError
  /\ errors' = errors + 1
  /\ loadError' = TRUE
  /\ Settled(f)
  /\ UNCHANGED <<tables, deployments, jobs>>

Next ==
  \/ ChangeDeployments \/ ChangeJobs
  \/ \E f \in Fetch : \/ AnswerDeployments(f) \/ AnswerJobs(f)
                      \/ Poll(f) \/ Refresh(f) \/ Arrive(f) \/ Fail(f)

Spec == Init /\ [][Next]_vars

\* the timer of the browser fires for ever, and the daemon answers
FairSpec ==
  /\ Spec
  /\ \A f \in Fetch : /\ WF_vars(Poll(f))
                      /\ WF_vars(AnswerDeployments(f))
                      /\ WF_vars(AnswerJobs(f))
                      /\ WF_vars(Arrive(f))

-----------------------------------------------------------------------------
(* What Dashboard shows of the jobs. *)

\* the rows that a client has seen
Rows == IF jobs = Nothing THEN {} ELSE {history[i] : i \in 1..jobs}

\* JobStore.List: by the second, then by the id, both descending
Before(r, s) == r.second > s.second \/ (r.second = s.second /\ r.id > s.id)

\* Mutant: the last row of a name replaces the ones before it
LatestOfAll(name) ==
  {r \in Rows : r.name = name /\ \A s \in Rows : s.name = name /\ s # r => Before(s, r)}

\* latestJobByDeployment keeps the first row of each name; one or none
latestJobs(name) ==
  {r \in Rows : r.name = name /\ \A s \in Rows : s.name = name /\ s # r => Before(r, s)}

\* the button "Last activity" of a row, which is disabled without a job
NoHistory == [name |-> "none", second |-> 0, id |-> 0]
LastActivity(name) ==
  IF latestJobs(name) = {} THEN NoHistory ELSE CHOOSE r \in latestJobs(name) : TRUE

\* "Recent activity", the first ones of the list
recentJobs == {r \in Rows : Cardinality({s \in Rows : Before(s, r)}) < Recent}

-----------------------------------------------------------------------------
(* Properties. *)

\* Once a table does not change any more, the list shows its last state and
\* keeps showing it, although older answers may overtake newer ones.
ListCatchesUp ==
  /\ \A d \in Change : <>[](deploymentTable = d) => <>[](deployments = d)
  /\ \A j \in Change : <>[](jobTable = j) => <>[](jobs = j)

\* An empty list that is not loading has been answered by the daemon or stands
\* below an error, and the button is disabled only while a fetch is under way,
\* although any fetch that ends clears what another one has set.
EmptyIsExplained == deployments = Nothing => loading \/ loadError
RefreshEnds == loading \/ refreshing => \E f \in Fetch : fetch[f].asked
ScreenIsHonest == EmptyIsExplained /\ RefreshEnds

\* "Last activity" names a job of the deployment that is none the older than
\* any other one listed for it, and recent activity leaves out no job newer
\* than one it lists; of jobs of one second any may count as the latest.
LastActivityIsLatest ==
  /\ \A name \in Name :
       LET listed == {r \in Rows : r.name = name}
           last == LastActivity(name)
       IN IF listed = {} THEN last = NoHistory
          ELSE last \in listed /\ \A r \in listed : r.second <= last.second
  /\ \A r \in recentJobs, s \in Rows \ recentJobs : s.second <= r.second
=============================================================================
