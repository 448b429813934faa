# A formal model of deployctl

deployctl is a daemon (`deployctld`) that manages Docker Compose deployments
for a command line and a dashboard. Every operation on a deployment is a *job*:
a row in SQLite, a goroutine, a mutex, a body that runs git and Docker. This
directory holds TLA+ modules for the parts of it that are hard to test, TLC
configurations that check them on small instances, and proofs that TLAPS checks
for every instance. Paths below are relative to
`src/`.

    tlc -workers 2 -config MCJobRunner.cfg MCJobRunner     # one run
    tlapm JobRunnerProofs.tla                              # the proofs

## 1. The system

| Part | Source | State | Operations |
|---|---|---|---|
| Job runner | `internal/service/runner.go` | `running` (CancelFuncs), `locks` (mutex per deployment name), one goroutine per job | Enqueue, run, lock, Cancel, log |
| Job requests | `internal/service/job.go` | none | CancelJob (polls the row for 2 s), GetJob, ListJobs, WatchJob |
| Job table | `internal/store/job.go` | tables `jobs`, `job_logs` | Insert, Update, Get, List, AddLog, LogsAfter |
| Deployment table | `internal/store/repository.go` | table `repositories` | Insert, Update, Get, List, Delete |
| Deployment operations | `internal/service/deployment.go`, `repository_job.go` | the checkout directory, images, containers | create, delete, build, update, deploy, restart, stop |
| Docker | `internal/docker/docker.go` | the Compose project in Docker | ComposeStatus, ComposeBuild, EnsureBuildAvailable, ComposeUp, ComposeDown |
| Environment files | `internal/service/env.go`, `internal/envfile` | `.env` files, `repositories.env_path` | env.set, env.unset, env.import, listings |
| Status and history | `internal/service/status.go` | none | state of a deployment, latest job, latest update |
| Daemon process | `cmd/deployctld/main.go`, `cmd/daemon.go`, `internal/service/server.go`, `scripts/install-linux.sh` | the socket path, the processes (two systemd units may be installed, and anyone may run `daemon start`) | ListenUnix, Serve; start, stop and restart through systemd |
| Command line | `cmd/client.go` and the commands | none | one request each, then waitForJob |
| Web API | `internal/web` | none | the same requests, and an event stream |
| Dashboard: list | `web/src/App.tsx`, `components/Dashboard.tsx` | deployments, jobs, loading flags | polls, Refresh, Retry, latest activity |
| Dashboard: dialogs | `components/JobLogModal.tsx`, `CreateDeploymentModal.tsx`, ConfirmDelete in `DeploymentDetail.tsx`, `lib/useModalDismiss.ts` | the job shown, its log and row, the form, the page's overflow | open, close, follow, submit, Escape |
| Dashboard: one deployment | `components/DeploymentDetail.tsx` | the row, the environment editor, the question before a delete | fetch, start jobs, change variables |
| Dashboard: labels | `lib/format.ts` | none | durations, times since, uptimes |

How they interact. A client sends a request over gRPC or HTTP; the handler
inserts a row and starts a goroutine (`Runner.Enqueue`); the goroutine takes
the mutex of the deployment, marks the row running, runs the body, writes the
last log line and the outcome, and gives the mutex back. The body reads and
writes `repositories`, files, git and Docker. Clients learn what happened from
the tables only: by `WatchJob`, by the event stream, or by polling. A CancelJob
request cancels the context that the goroutine and its commands share.

What is hard about it:

* *Interleavings.* Goroutines of jobs, CancelJob and WatchJob requests meet in
  two maps, one mutex per name and two tables; no transaction spans two
  statements.
* *Partial failure.* `run` ignores the errors of its own writes; bodies have
  several steps outside any transaction; git and Docker stop half way.
* *Crashes.* A restart repairs nothing: rows, directories and containers stay
  as they were when the process died, and so does its socket.
* *Late answers.* A watcher reads the log and then the row; the dashboard
  aborts no request, so that answers arrive after what asked for them has gone,
  in any order, and change flags that another request has set.
* *Shared effects.* Three dialogs save and restore one style of the page, in
  effects that each render of App, or of the detail view alone, runs again.
* *Time.* Rows hold whole seconds and ids are random.

What makes each part correct is listed with its module in section 3;
`PROJECT.json` lists every hazard at its line.

## 2. Modules

| Module | Models | Abstract / composes |
|---|---|---|
| `JobLifecycle` | what the runner promises: one body at a time per name, outcomes written once | abstract |
| `JobRunner` | runner, CancelJob, both job tables, crash | implements `JobLifecycle` |
| `JobWatch` | WatchJob, handleJobEvents, waitForJob | extends `JobRunner` |
| `Deployments` | bodies of create ... stop, rows, directories, images, containers | over `JobLifecycle` |
| `EnvFiles` | bodies of env.set, env.unset, env.import | over `JobLifecycle` |
| `ComposeProject` | status of a project, the decisions taken from it and the buttons offered for it | stands alone |
| `Daemon` | processes and the socket path | stands alone |
| `JobDialog` | the dialog of a job: getJob and the event stream | stands alone |
| `Dialogs` | the three dialogs, the form's requests, Escape and scrolling | extends `JobDialog` |
| `DeploymentList` | App's fetches of deployments and jobs, latest activity | stands alone |
| `DeploymentDetail` | the views of deployments one after the other, requests that start jobs | stands alone |
| `Labels` | the arithmetic of the times shown | functions only |
| `MC...` | instances for TLC | extend the module of their name |
| `...Proofs` | theorems, one module for each of JobRunner (with JobWatch), Deployments, EnvFiles, Daemon, ComposeProject, Dialogs (with JobDialog), DeploymentList (with Labels) and DeploymentDetail | extend the module of their name |

`JobLifecycle` is the hinge. `JobRunner` is shown to implement it (by TLC on
small instances, by `RunnerImplementsLifecycle` in general), so the modules
about bodies use its actions for the jobs and need no mutexes or goroutines;
`BodiesAreJobs` of either module says that they add nothing to them.

Operators whose comment begins with "Mutant:" are faulty forms of the
definition that follows them. They are used in no specification; each shows
that some property notices the fault it describes.

## 3. How the modules correspond to the code

### JobRunner
Each action is one database statement, one use of a shared map or one mutex
operation of `Enqueue`, `run`, `Cancel` or `CancelJob`, in the order of the
code: `Insert`, `Publish` (`running.Store`), `Lock`, `MarkRunning`, `Announce`
("Job started"), `Begin`, `Output` and `Return` (the body), `Decide` (`ctx.Err`
before the error), `Report` (last log line), `Persist`, then the deferred
`Unlock` and `Unregister`. `pc` is the place of the goroutine. Details that
matter and are kept: `lock` takes no mutex for the empty name; `Lock` ignores
the context; log lines are written with the context of the job and vanish when
it is done, except "Job cancelled"; errors of Update and AddLog are ignored
(`WriteRefused`); a crash empties memory and keeps the tables.

Abstracted: ids are model values; `error` texts are left out; a poll of
CancelJob that does not answer is no step; the sequence numbers of `job_logs`,
which are global, are positions in the log of one job (only their order within
a job is ever used); a body is any number of log lines and a result.

Properties: `MutualExclusion`, `StatusIsExplained`, `OutcomeIsLogged`,
`RunningIsCancellable`, `CancelOfRunningArrives` (invariants),
`StatusMovesForward`, `LogEndsBeforeStatus` (actions), `EveryJobSettles`
(liveness: it is enough that the bodies of the job's own deployment return; what
hangs elsewhere does not matter), `ImplementsLifecycle` (refinement, with
`Phase` computed from `pc`).

### JobWatch
One record per stream with its place in the loop, its cursor and what it got.
Reading the log and reading the row are separate steps, so the runner may work
in between. Sending and receiving an event is one step: gRPC and HTTP deliver
in order, and a stream that breaks is `Leave` or `CrashStreams`. `ExitOf` is
the verdict of `waitForJob`. `DeliveredExactly`: what was received is the part
of the log from the cursor on, without gap or repetition. `SuccessIsReal`: exit
0 only for a job whose body returned nil. `LateWatchIsComplete`: a stream opened
on a finished job ends with the whole log. `WatchEnds` (liveness).

### Deployments
The body of a job is a program counter `step` over steps that are calls in the
body: `FirstStep` and `NextStep` are the bodies of `deployment.go`, each step an
action with its guard. `StepFails` is any error return without effect,
`CloneCleansUp` a git that fails, `HalfWay` a Compose command that stops in the
middle. Commits are numbers, so that "built from" and "checked out" can be
compared. The actions of jobs are those of `JobLifecycle`; `ShowRunning` is
left out because no property here tells queued from running. Properties:
`SuccessMeansDone`, `ListedMeansCheckedOut`, `OrphanHasCause`,
`RunsWhatWasBuilt`, `OnlyListedIsTouched`; `OneJobPerCheckout` fails for creates
without a name (section 5).

### EnvFiles
A body reads the file, changes the map, truncates, fills and, for the default
file, updates the row. `os.WriteFile` is two steps because it is not atomic.
`Parsed` is what the dotenv parser makes of a value that `strconv.Quote` wrote:
a value with a dollar sign comes back as another value. Properties:
`ChangeIsExact`, `NothingIsForgotten`, `RowNamesTheFile`. Read errors of the
file and writes of the row may fail at any time; the copy that env.import reads
is the map of the request.

### ComposeProject
`Status` is what `ComposeStatus` returns, as far as anything depends on it.
`Missing`, `AllRunning`, `AnyRunning` and `DeploymentState` are translated
literally; services of a provider have no containers and are never missing.
`Begin` to `Fails` are deploy, restart and stop as far as Docker is concerned:
`ReadStatus` stores what was `seen`, `Decide` takes the branch of the body,
`DownService`, `CreateService` and `StartService` come to one service after the
other (`todo`), and a call may fail half way (`Fails`). Containers exit and come
back by themselves between any two of these steps; `moved` remembers which did
since the body came to them. One replica per service; states of Docker other
than created, running and exited count as not running in the code and are left
out. `Offered` and `ActionMenu` are the buttons of the view and of the menu in
the list, `Matches` the tabs, `ServicesTable` the rows of the services.
`OffersFit`: Stop and Restart are offered as long as anything of the project
runs, Deploy as long as a service of the file does not, a deployment is in the
tab of its state, and the state is true of the services. It does not say that a
stop ends everything: what an update took out of the file goes on (section 5).
`BodiesKeepTheirWord`: a body that ends without an error has left the services
of the file as it promises, however its status had aged.

### Daemon
One action per call of `ListenUnix`, `main` and `daemon start`. There may be
several processes, as in the code: systemd runs `deployctld` in a unit of the
user and one of the system, a user may start another in a shell, and none asks
whether one is there. A killed process leaves its socket at the path
(`Orphaned`), a closed listener unlinks the path whoever owns it (`Close`), and
`deployctld` leaves with `os.Exit`, which runs no deferred call, while `daemon
start` closes. A unit that has failed is started again (`Restart`), one that was
stopped is not (`Stop`). `ReachedUntilDisplaced` (action): the daemon that
clients reach loses the path only by its own end or to a process that starts or
closes its listener. `StartTakesOver` (liveness): a process that starts, or a
unit that failed, is reached in the end, unless it is stopped or another one does
the same after it. The web port and the client's 5-second dial are left out.

### JobDialog and Dialogs
`Show` and `Close` are the effect of `JobLogModal` with its cleanup; each
opening has its own getJob request and event stream, whose answers come in any
order between different openings. `Send` is a round of the loop of the daemon;
what a job writes between its two reads is the matter of `JobWatch`. The dialog
treats queued and running alike, and so all outcomes, so a job is open or over.

`Dialogs` adds `CreateDeploymentModal` with its requests (`Submit`, `Accept`,
`Created`, `NotCreated`), `ConfirmDelete` (`OpenDelete`, `CloseDelete`, `Leave`)
and `useModalDismiss`, which all three use. App gives its two dialogs a new
`onClose` in each render, and the detail view gives one to `ConfirmDelete` in
each of its own, so that a step renders either App and with it everything
(`Effects`) or the view alone (`Renders({"delete"})`): it runs the cleanups of
those of its dialogs that were open and then the effects of those that are, in
the order of the page. `previous` is what each effect has saved, `beside`
remembers whether two were ever open together. What is typed and what is said in
the form, copying the log and its time-out are left out: no effect and no
request depends on them except that an empty URL is not sent.

Properties: `OwnLog`, `CompleteMeansOver`, `OneCreateAtATime`, `PageScrolls`.

### DeploymentList
The tables of the daemon are counters of changes; the jobs are a history that
is fixed at the start, of which the first `jobTable` are in the table. A fetch is
two requests that are answered at different moments (`AnswerDeployments`,
`AnswerJobs`) and set together (`Arrive`); `Settled` is the `finally`, which
clears both flags whoever set them. `Poll` is the timer and the fetch after a
job, which wait for nobody. `Before` is the ORDER BY of the job table,
`LastActivity` and `recentJobs` what Dashboard takes from it. The search text
is left out. `ScreenIsHonest`, `LastActivityIsLatest`, `ListCatchesUp`
(liveness).

### DeploymentDetail
`mounted` numbers the views; each request remembers the view that made it.
React drops what an answer does to the state of a view that is gone
(`OfThisView`), but not what it does to App: the dialog of the job opens, and a
delete that is accepted closes whatever view is shown. `Act` is deploy,
restart, stop and update, from a view or from the menu of the list; `ChangeEnv`
is set and remove; the fields they empty have no effect on anything else. A
row of a deployment, with its jobs, variables and services, is a number, so that
an older row that is still shown differs from the last one; the jobs are fetched
in the same `Promise.all`. The box "rebuild" is part of the request and left
out. `ShowsItsOwn`, `EnvBusy`, `ViewIsHonest`, `DetailCatchesUp` (liveness).

### Labels
`formatDuration`, `formatRelativeTime`, `formatUptimeSeconds` and
`deploymentUptime` as functions of integers that return a number and a unit, or
a marker without a unit: `CalendarDate` from thirty days on, a month and a day
that name no distance, and `Offline` and `FromStatus` for an uptime.
`Math.round` is `Rounded`; each unit is rounded from the one before, as in the
code. Their promises are theorems (section 6); `MCDeploymentList` evaluates the
same formulas as assumptions around each place where a label changes its unit.

## 4. Runs

| Run | Configuration | Instance | Shows |
|---|---|---|---|
| runner_crash | MCJobRunner | 2 jobs, 1 name and none, 1 CancelJob, 1 line, 1 crash | locking, statuses, logs, cancellation and the refinement |
| runner_progress | MCJobRunnerFair | 2 jobs, 2 names and none, 1 CancelJob, commands that may hang, cancelled or not | accepted jobs get their outcome once the bodies of their own deployment return |
| watch | MCJobWatch | 1 job, 1 line, cancel, refused write, crash, 1 stream with cursor 0 or 1 | what a follower receives is exact and true, and it ends; a cancel of a running job arrives |
| deployments | MCDeployments | 2 jobs of every kind on a name that is new or has any past, 2 commits, cancels, 1 crash | rows, directories, images and containers agree |
| env_files | MCEnvFiles | 2 jobs, 2 files, cancels, 1 crash | changes to files are exact |
| compose_status | MCComposeProject | 4 services, 1 of a provider, every file, exits and revivals between any two steps of a body | states, decisions and the buttons offered |
| dialog | MCDialog | 2 jobs, 2 lines, 2 openings of the log, any number of openings of the form and of the question before a delete, 2 creates under way, 1 error | the dialog shows its own job, nothing is created twice, the page scrolls again |
| job_list | MCJobList | 2 names, 2 changes of each table, 2 fetches under way, 2 seconds, 1 error | polling catches up, the list is explained, the latest job is named |
| detail | MCDetail | 2 names, 2 views, 2 fetches and 2 requests under way, 2 rows of each deployment and none, 1 change, 1 error | a view shows and changes its own deployment and catches up |
| daemon | MCDaemon | 2 units and 1 run in the foreground at the same time, 4 failures, any number of starts and stops | who may take the path from whom; the last one to start is reached |

Why the bounds are enough. Everything the jobs of one name compete for is one
mutex and one row each, so the hazards of the runner need two jobs (one that
has the mutex and one that waits). The bodies start from a new name or from
what any earlier jobs may have left (`InitEarlier`: checkout, images no newer
than it, containers no newer than the images), so two jobs stand for the last
two of a long history. A second
name shares nothing with the first but the maps, whose entries are independent;
the empty name is in every instance of the runner. One crash reaches every
place where a process can die, and a second one starts from the same kind of
state. One CancelJob suffices because cancelling twice is cancelling once.
In the dashboard what goes wrong needs a late answer and something that has
changed since: two requests under way, one of the view, opening or state before
and one of the next; a row that was shown, one that replaces it and none are the
rows that `DetailCatchesUp` tells apart. Three processes are one that serves, one
that takes the path and one that closes its listener meanwhile. `MaxCreate` is 2
so that a second create is possible if nothing prevents it, `MaxLine` 2 so that a
gap is. The
proofs of section 6 have none of these bounds. Symmetry is used over jobs, and
over services, where no property is a liveness property.

Deadlock is checked except where an instance really runs out of things to do:
jobs are created once, so a run in which all are over stops.

Fairness. `FairSpec` of the runner: the Go scheduler runs a goroutine that can
run (weak fairness of each step); `sync.Mutex` enters starvation mode after a
waiter has waited for 1 ms and then hands over in order (strong fairness of
`Lock`). Of commands it assumes nothing, not even that a cancelled one ends:
`exec.CommandContext` kills git, but `CombinedOutput` waits for a pipe that a child
of git may keep open (`cloneRepo.go:64-69`). `EveryJobSettles` and `WatchEnds`
therefore have the hypothesis that bodies return, the first one only of those
of the job's own deployment. A stream's loop has a ticker and is weakly fair.
Nothing is assumed about crashes, cancels or clients. In
`Daemon` a process that runs goes on, and systemd starts a failed unit again, but
neither one that was stopped nor a run in a shell (`Restart=on-failure` in
`scripts/install-linux.sh`; that `RestartSec=2` keeps it below systemd's limit of
five starts in ten seconds is assumed); in `DeploymentList` and `DeploymentDetail` the
interval fires for ever and the daemon answers; all three assume that failures
are finitely many. `Dialogs` has no liveness property and assumes nothing.

## 5. Where code and words disagree

Each of these runs checks one sentence of the repository and TLC finds a
behaviour of the code that breaks it.

| Run | Sentence | What happens |
|---|---|---|
| unnamed_create | `system.go`: "per-deployment-locking" | a create without a name takes no mutex and works in the directory of another job |
| env_dollar | `env.go`: "Updated 1 env variable" | setting one variable rewrites another that has a dollar sign |

Others were met while modelling and have no run of their own: the jobs of one
deployment need not run in the order of their requests, because goroutines race
for the mutex (`runner.go:98`); a job that runs between the two reads of a round
of `WatchJob` ends the stream before its lines are sent, and the dialog says that
there was no output (`job.go:56`); the latest of two updates of one second is
chosen by random id (`store/job.go:90`); a service that left the Compose file
survives a stop (`docker.go:339`), with Stop still offered; a cancel need not end
a hanging git command, and the deployment is then held until the daemon is
restarted (`cloneRepo.go:64-69`); the dialog says "complete" when its stream
broke off, and can show the record of the job shown before
(`JobLogModal.tsx:36-52`); a second daemon takes the socket path of the first,
which runs on unreachable with mutexes of its own on the same database
(`server.go:70`), and either one that closes its listener unlinks the path of
the other. The containers of a deployment that is deleted go on running
(`deployment.go:45-63`).

Met in the dashboard, none of them against a text of the repository:

* If two dialogs were open together, the cleanups put "hidden" back and the page
  may never scroll again (`useModalDismiss.ts:4`); and if `ConfirmDelete` was open
  beside another one (a deploy is answered while the question is asked), its end
  lets the page scroll behind the other. `PageScrolls` names both cases
  (`beside`).
* A create that is answered after its form was closed closes the form opened
  since, and its error appears in that form (`CreateDeploymentModal.tsx:45`).
* A delete that is answered late closes the view of another deployment
  (`App.tsx:75`).
* Text typed while a request of the environment editor is under way is cleared
  with the answer (`DeploymentDetail.tsx:86`).
* Requests that start jobs and fail show nothing, and a second click starts a
  second job.
* "Deployment not found" never shows: a view without a deployment is loading or
  has an error (`ViewIsHonest`).
* A late answer of getJob can show "running" for a job that has finished, and
  the details are not fetched anew when a job finishes, but with the next tick.
* A service whose container has exited is listed twice, as a container and as
  "Not created" (`DeploymentDetail.tsx:313-321`, `ServicesTable`).
* From thirty days on a job is shown by a date without a year, which does not tell
  older jobs from newer ones (`format.ts:25-26`).
* An uptime counts from the newest start of any container, also of one that has
  exited since (`format.ts:29-36`).

## 6. Proofs

Eight modules hold theorems. Each one that is about a specification has an
inductive invariant, `IInv` unless the property is inductive as it stands, a
lemma or a case for each action, and theorems that follow from it.

| Module | Theorem | Statement |
|---|---|---|
| `JobRunnerProofs` | `TypeCorrect` | `Spec => []TypeOK` |
| | `ExclusivePerDeployment` | `Spec => []MutualExclusion` |
| | `StatusTruthful` | `Spec => []StatusIsExplained` |
| | `RunningReachable` | `Spec => []RunningIsCancellable` |
| | `ForwardOnly` | `Spec => StatusMovesForward` |
| | `LogComplete` | `Spec => LogEndsBeforeStatus` |
| | `OutcomeInLog` | `Spec => []OutcomeIsLogged` |
| | `CancelArrives` | `Spec => []CancelOfRunningArrives` |
| | `RunnerImplementsLifecycle` | `Spec => ImplementsLifecycle` |
| | `FollowersAreHarmless` | `WatchSpec => Spec`: everything above holds with followers |
| | `ExactDelivery` | `WatchSpec => []DeliveredExactly` |
| | `SuccessTruthful` | `WatchSpec => []SuccessIsReal` |
| | `LateWatchGetsAll` | `WatchSpec => []LateWatchIsComplete` |
| `DeploymentsProofs` | `TypeCorrect` | `EarlierSpec => []TypeOK` |
| | `NothingNewer` | `EarlierSpec => []RunsWhatWasBuilt` |
| | `ListedOnly` | `EarlierSpec => OnlyListedIsTouched` |
| | `ListedHasCheckout` | `EarlierSpec => []ListedMeansCheckedOut` |
| | `OrphansAreExplained` | `EarlierSpec => []OrphanHasCause` |
| | `SuccessIsDone` | `EarlierSpec => []SuccessMeansDone`, if `Unnamed = FALSE` |
| | `NamedJobsExclude` | `EarlierSpec => []OneJobPerCheckout`, if `Unnamed = FALSE` |
| | `BodiesAreJobs` | `EarlierSpec => Jobs!Spec` |
| `EnvFilesProofs` | `TypeCorrect` | `Spec => []TypeOK` |
| | `ChangeIsOfWhatIsRead` | `Spec => []ChangeOfWhatIsRead` |
| | `LiteralChangeIsExact` | `Spec => []ChangeIsExact`, if `Literal = Value` |
| | `FilesRemember` | `Spec => []NothingIsForgotten` |
| | `RowsNameFiles` | `Spec => []RowNamesTheFile` |
| | `BodiesAreJobs` | `Spec => Jobs!Spec` |
| `DaemonProofs` | `TypeCorrect` | `Spec => []TypeOK`: the path names no process that has ended |
| | `OnlyStartsDisplace` | `Spec => ReachedUntilDisplaced` |
| `ComposeProjectProofs` | `OffersAlwaysFit` | `Spec => []OffersFit` |
| | `WordsAreKept` | `Spec => BodiesKeepTheirWord` |
| `DialogsProofs` | `NeverTwoCreates` | `DialogsSpec => []OneCreateAtATime` |
| | `PageScrollsAgain` | `DialogsSpec => []PageScrolls` |
| | `TypeCorrect` | `DialogsSpec => []DialogsTypeOK` |
| | `DialogInApp` | `DialogsSpec => Spec`: what holds of the dialog of a job alone holds of it in App |
| | `LogIsOwn` | `DialogsSpec => []OwnLog` |
| | `CompleteTruthful` | `DialogsSpec => []CompleteMeansOver` |
| `DeploymentListProofs` | `HonestScreen` | `Spec => []ScreenIsHonest` |
| | `ActivityIsLatest` | `Spec => []LastActivityIsLatest` |
| | `RelativeCloseToTime`, `OlderReadsAsOlder`, `DurationCloseToTime`, `UptimeTruthful` | the promises of `Labels`, for every time (the first two for labels that name a distance) |
| `DeploymentDetailProofs` | `TypeCorrect` | `Spec => []TypeOK` |
| | `OwnDeploymentOnly` | `Spec => []ShowsItsOwn` |
| | `EnvOneAtATime` | `Spec => []EnvBusy` |
| | `HonestView` | `Spec => []ViewIsHonest` |

The assumptions are those on the constants: bounds are natural numbers, markers
such as `NoName`, `NoJob` and `None` are no members of the sets they mark the
absence of, providers are services, and (`PathIsNoProcess`) no process is called
"nobody" or "stale". Two theorems about the bodies assume that every create has
a name (`Unnamed = FALSE`) and one that every value reads back as it was written
(`Literal = Value`). The code guarantees neither: the runs unnamed_create and
env_dollar break the same properties where these assumptions fail, so they mark
exactly how far the promises go. The theorems beside them hold without.

*The runner.* None of the properties is inductive alone. Mutual exclusion needs
that a goroutine past `Lock` is the owner of its mutex (`HoldsLock`). That the row
goes forward needs to know what it can say at each place of the goroutine
(`RowFollowsPC`): "running" is written over "queued" only because nobody else
has written a terminal status. That outcomes are explained needs the verdict
between `Decide` and `Persist`, and that a context is cancelled by a request
only (`VerdictFollowsBody`). `PublishedWhileLive` ties the map of CancelFuncs
to the life of the goroutine, with the refused final write as the one
exception; `CallHasJob` keeps `CancelSignal` well typed. The refinement maps
each step to one step of `JobLifecycle` or to a stutter, with `HoldsLock` for the
guard `Free`. Two more invariants stand on `IInv`: `Logged`, the last line
between `Report` and `Persist`, and `Remembered`, what a CancelJob that read
"running" may rely on between its calls.

*Followers.* A follower takes no step of the runner, so `IInv` holds under
`WatchSpec`. What was received is a part of the log because logs only grow
(`LogsGrow`); a success that was read stays true because a terminal row is never
written again (`ForwardOnly`); a late stream misses nothing because the log of
a finished job does not grow (`LogEndsBeforeStatus`).

*The bodies of deployments.* `IInv` says that rows and phases of jobs follow
their lifecycle (`JobsFollow`), that a body stays in the program of its kind
(`StepsOf`), that a deployment has one body at a time except for creates without
a name (`Exclusive`), and that a row looked up stays there until the body is
over (`RowStays`), because only a delete of the same name could remove it. That
gives `OnlyListedIsTouched` and the order of commits. Directories need more,
since creates without a name meet other jobs in them: `Kept` says of each name
that a delete was lost there, or that its row, its directory and the creates and
deletes under way fit together (`Tidy`). With names for all creates a body is
alone in its deployment from `Begin` to the outcome, so that what it has reached
at each step (`Reached`) stays; at "return" this is `Works`.

*The environment files.* `Drafted` says what a body has in hand at each step and
that nobody else writes its file meanwhile, which is again `Exclusive`. The
change is exact relative to what the parser made of the file, whatever the
values are; it is exact altogether when the parser returns what was written.
`NothingIsForgotten` needs `InHand`: a body between its read and its write
holds every variable stored so far, or a job that removed it is to be named.

*The daemon.* The type invariant is inductive and says that the path never names
a process without an open listener; who may change the path is then a case of
each action.

*Compose.* `OffersFit` is about the sets `Missing` and `Existing` alone. For
`BodiesKeepTheirWord` the body that runs is the one its next call belongs to
(`StepOfBody`), each service that up or down has come to is as it should be or
has moved since (`Handled`), and so is what a status said (`Aged`).

*The dashboard.* `OneCreate` counts requests by the flag; `PageFollows` says
what each effect has saved (not "hidden" unless two dialogs were open together).
`NoneOfFuture` says that no request is of a view yet to come, so that a new view
starts without any, and `DeleteOfShown` that a delete is asked only of a view
that shows something. The dialog of a job is proved alone and then in App:
`Streams` says that the only stream that is not closed is the one of the opening
and the job that are shown, and `Following` that it brings the lines after those
the dialog has, in order, up to the last one sent, and then the end of a job
that is over. Each step of App is a step of that dialog or leaves it alone
(`StepOfDialog`), a create that is accepted being a job that moves. That some
row is the newest of its deployment (`NewestExists`) rests on the order by
second and id being strict and total over finitely many rows with different ids.

Only model-checked: the liveness properties `EveryJobSettles`,
`WatchEnds`, `ListCatchesUp`, `DetailCatchesUp` and `StartTakesOver` (fairness and ENABLED are out of the prover's reach). Every
invariant and every action property that a passing run checks is a theorem.

## 7. Plan

Done in this order, the most important behaviour first: `JobLifecycle` and
`JobRunner` with their proofs, `JobWatch`, `Deployments`, `EnvFiles`,
`ComposeProject`, `Daemon`, then the dashboard (`JobDialog`, `Dialogs`,
`DeploymentList`, `DeploymentDetail`, `Labels`), the proofs of the modules that
stand alone and of `JobWatch`, and those of `Deployments`, `EnvFiles` and the
dialog of a job. What a later version could add:

1. Proofs: that a successful job of `EnvFiles` and `Deployments` is explained by
   the runner itself, by composing their bodies with `JobRunner` in the place of
   `JobLifecycle`.
2. Models: the composition of `Deployments` with `ComposeProject` (services in
   the place of none, some and all); an absolute env file shared by two
   deployments; two daemons on one database, whose mutexes do not know of each
   other; the search for a Compose file as a function.
3. An abstract specification of a deployment (listed or not, running or not)
   that `Deployments` implements when nothing fails.

## 8. Not modelled

Container logs (a copy of a stream), health and version answers, error texts
and tables, the generated RPC code, the installers, and layout: they keep no
state. The search for Compose and environment files is a function of a
directory; in `Deployments` it is a step that may fail. Migrations run before
anything else and are taken as done. The times in the rows of jobs are left out
of the runner (they are taken inside the mutex, so `MutualExclusion` orders
them); the list takes any times and ids. In the dashboard: copying a log, the search
text, the box "rebuild" and the health of the daemon. Jobs on different
deployments that share a file through an absolute path, and Compose projects
that share a name, are in the plan.
