------------------------------ MODULE JobRunner ------------------------------
(***************************************************************************)
(* The job runner of deployctld: Runner.Enqueue, the goroutine             *)
(* Runner.run, the per-deployment mutexes of Runner.lock, and the          *)
(* CancelJob handler that cancels a job's context and polls its row.       *)
(*                                                                         *)
(* The tables "jobs" and "job_logs" of the SQLite file survive a crash of  *)
(* the daemon; everything else is memory of the process.  Every database   *)
(* statement, every use of a shared map and every mutex operation is a     *)
(* step of its own, so all the interleavings of the goroutines are here.   *)
(***************************************************************************)
EXTENDS Naturals, Sequences, FiniteSets

CONSTANTS Job,          \* job ids (uuid.NewString never repeats one)
          Name,         \* deployment names that are not empty
          NoName,       \* the empty deployment name, ""
          NoJob,        \* "no goroutine holds this mutex"
          Caller,       \* concurrent CancelJob requests
          MaxOutput,    \* bound: lines a job body writes
          MaxLost,      \* bound: jobs that have a database write fail
          MaxCrash      \* bound: crashes of the daemon

ASSUME NoNameIsNoName == NoName \notin Name
ASSUME NoJobIsNoJob == NoJob \notin Job
ASSUME BoundsAreNat == MaxOutput \in Nat /\ MaxLost \in Nat /\ MaxCrash \in Nat

VARIABLES
  status,      \* jobs.status; "none" before the row exists
  deployment,  \* jobs.deployment_name
  jobLogs,     \* the rows of job_logs of each job, in sequence order
  pc,          \* where Enqueue and then the goroutine of the job is
  running,     \* keys of Runner.running: jobs whose CancelFunc is published
  ctxDone,     \* jobs whose context has been cancelled
  owner,       \* Runner.locks: the job that holds the mutex of a name
  returned,    \* what the job body fn returned: "none", "ok" or "error"
  verdict,     \* job.Status as set in run before the final Update
  call,        \* the CancelJob requests
  up,          \* whether a daemon process is running
  signalled,   \* history: jobs on which Runner.Cancel returned true
  lost,        \* history: jobs that had a database write fail
  crashes      \* history: number of crashes

tables == <<status, deployment, jobLogs>>
memory == <<pc, running, ctxDone, owner, returned, verdict>>
history == <<signalled, lost, crashes>>
vars == <<tables, memory, call, up, history>>

-----------------------------------------------------------------------------
Terminal == {"succeeded", "failed", "cancelled"}
Status == {"none", "queued", "running"} \cup Terminal
Line == {"started", "output"} \cup Terminal
CallPC == {"idle", "signal", "poll"}
Seen == Status \cup {"error"}

\* the points of run at which the goroutine holds the mutex of its deployment
Critical == {"mark", "announce", "begin", "body", "decide", "report", "persist", "unlock"}
\* ... and all the points at which an Enqueue or a goroutine is under way
Live == {"publish", "lock", "unregister"} \cup Critical
PC == {"idle", "done", "dead"} \cup Live

TypeOK ==
  /\ status \in [Job -> Status]
  /\ deployment \in [Job -> Name \cup {NoName}]
  /\ jobLogs \in [Job -> Seq(Line)]
  /\ pc \in [Job -> PC]
  /\ running \subseteq Job
  /\ ctxDone \subseteq Job
  /\ owner \in [Name -> Job \cup {NoJob}]
  /\ returned \in [Job -> {"none", "ok", "error"}]
  /\ verdict \in [Job -> {"none"} \cup Terminal]
  /\ call \in [Caller -> [pc : CallPC, job : Job \cup {NoJob}, read : Seen, reply : Seen]]
  /\ up \in BOOLEAN
  /\ signalled \subseteq Job
  /\ lost \subseteq Job
  /\ crashes \in Nat

Init ==
  /\ status = [j \in Job |-> "none"]
  /\ deployment = [j \in Job |-> NoName]
  /\ jobLogs = [j \in Job |-> <<>>]
  /\ pc = [j \in Job |-> "idle"]
  /\ running = {}
  /\ ctxDone = {}
  /\ owner = [n \in Name |-> NoJob]
  /\ returned = [j \in Job |-> "none"]
  /\ verdict = [j \in Job |-> "none"]
  /\ call = [c \in Caller |-> [pc |-> "idle", job |-> NoJob, read |-> "none", reply |-> "none"]]
  /\ up = TRUE
  /\ signalled = {}
  /\ lost = {}
  /\ crashes = 0

-----------------------------------------------------------------------------
(* The steps of the goroutine of a job. *)

Goto(j, from, to) ==
  /\ pc[j] = from
  /\ pc' = [pc EXCEPT ![j] = to]

\* run ignores the errors of the database: a write that is refused changes
\* no row and the job goes on
WriteRefused(j) ==
  /\ Cardinality(lost \cup {j}) <= MaxLost
  /\ lost' = lost \cup {j}

\* JobStore.Update(context.Background(), job)
UpdateRow(j, s) ==
  /\ \/ /\ status' = [status EXCEPT ![j] = s]
        /\ UNCHANGED lost
     \/ /\ WriteRefused(j)
        /\ UNCHANGED status
  /\ UNCHANGED <<deployment, jobLogs>>

\* Runner.log: AddLog with a context; a done context drops the line
AddLog(j, line, withJobContext) ==
  /\ \/ /\ jobLogs' = IF withJobContext /\ j \in ctxDone
                       THEN jobLogs
                       ELSE [jobLogs EXCEPT ![j] = Append(@, line)]
        /\ UNCHANGED lost
     \/ /\ WriteRefused(j)
        /\ UNCHANGED jobLogs
  /\ UNCHANGED <<status, deployment>>

\* Enqueue: Insert the row.  (An Insert that fails changes nothing.)
Insert(j, n) ==
  /\ up
  /\ Goto(j, "idle", "publish")
  /\ status' = [status EXCEPT ![j] = "queued"]
  /\ deployment' = [deployment EXCEPT ![j] = n]
  /\ UNCHANGED <<jobLogs, running, ctxDone, owner, returned, verdict, call, up, history>>

\* Mutant: Enqueue does not store the CancelFunc
PublishForgets(j) ==
  /\ Goto(j, "publish", "lock")
  /\ UNCHANGED <<tables, running, ctxDone, owner, returned, verdict, call, up, history>>

\* Enqueue: running.Store(id, cancel), then go r.run
Publish(j) ==
  /\ Goto(j, "publish", "lock")
  /\ running' = running \cup {j}
  /\ UNCHANGED <<tables, ctxDone, owner, returned, verdict, call, up, history>>

\* Mutant: one mutex for all deployments
LockWaitsForAll(j) ==
  /\ Goto(j, "lock", "mark")
  /\ \/ /\ deployment[j] = NoName
        /\ UNCHANGED owner
     \/ /\ deployment[j] \in Name
        /\ \A n \in Name : owner[n] = NoJob
        /\ owner' = [owner EXCEPT ![deployment[j]] = j]
  /\ UNCHANGED <<tables, running, ctxDone, returned, verdict, call, up, history>>

\* Mutant: a mutex of its own for every job
LockNeverWaits(j) ==
  /\ Goto(j, "lock", "mark")
  /\ owner' = [n \in Name |-> IF n = deployment[j] THEN j ELSE owner[n]]
  /\ UNCHANGED <<tables, running, ctxDone, returned, verdict, call, up, history>>

\* lock: the empty name takes no mutex.  Lock does not look at the context,
\* and any of the goroutines that wait may be the next one to get it.
Lock(j) ==
  /\ Goto(j, "lock", "mark")
  /\ \/ /\ deployment[j] = NoName
        /\ UNCHANGED owner
     \/ /\ deployment[j] \in Name
        /\ owner[deployment[j]] = NoJob
        /\ owner' = [owner EXCEPT ![deployment[j]] = j]
  /\ UNCHANGED <<tables, running, ctxDone, returned, verdict, call, up, history>>

MarkRunning(j) ==
  /\ Goto(j, "mark", "announce")
  /\ UpdateRow(j, "running")
  /\ UNCHANGED <<running, ctxDone, owner, returned, verdict, call, up, signalled, crashes>>

\* log(ctx, "Job started")
Announce(j) ==
  /\ Goto(j, "announce", "begin")
  /\ AddLog(j, "started", TRUE)
  /\ UNCHANGED <<running, ctxDone, owner, returned, verdict, call, up, signalled, crashes>>

\* fn starts.  The first thing every body does takes the context (the lookup
\* of the repository, or git clone) and fails when it is done.
Begin(j) ==
  /\ IF j \in ctxDone
     THEN /\ Goto(j, "begin", "decide")
          /\ returned' = [returned EXCEPT ![j] = "error"]
     ELSE /\ Goto(j, "begin", "body")
          /\ UNCHANGED returned
  /\ UNCHANGED <<tables, running, ctxDone, owner, verdict, call, up, history>>

\* the body calls its log function
Output(j) ==
  /\ pc[j] = "body"
  /\ Len(jobLogs[j]) <= MaxOutput
  /\ AddLog(j, "output", TRUE)
  /\ UNCHANGED <<memory, call, up, signalled, crashes>>

\* fn returns nil or an error, whether or not its context is done
Return(j, result) ==
  /\ Goto(j, "body", "decide")
  /\ returned' = [returned EXCEPT ![j] = result]
  /\ UNCHANGED <<tables, running, ctxDone, owner, verdict, call, up, history>>

\* Mutant: the row stores what the body returned
OutcomeRaw(j) == IF j \in ctxDone THEN "cancelled" ELSE returned[j]

\* Mutant: the error of the body is dropped
OutcomeIgnoresError(j) == IF j \in ctxDone THEN "cancelled" ELSE "succeeded"

\* ctx.Err() wins over what the body returned
Outcome(j) ==
  IF j \in ctxDone THEN "cancelled"
  ELSE IF returned[j] = "error" THEN "failed" ELSE "succeeded"

\* Mutant: the mutex is released before the outcome is written
DecideUnlocks(j) ==
  /\ Goto(j, "decide", "report")
  /\ verdict' = [verdict EXCEPT ![j] = Outcome(j)]
  /\ owner' = [n \in Name |-> IF n = deployment[j] THEN NoJob ELSE owner[n]]
  /\ UNCHANGED <<tables, running, ctxDone, returned, call, up, history>>

Decide(j) ==
  /\ Goto(j, "decide", "report")
  /\ verdict' = [verdict EXCEPT ![j] = Outcome(j)]
  /\ UNCHANGED <<tables, running, ctxDone, owner, returned, call, up, history>>

\* Mutant: "Job cancelled" is written with the context of the job
ReportWithContext(j) ==
  /\ Goto(j, "report", "persist")
  /\ AddLog(j, verdict[j], TRUE)
  /\ UNCHANGED <<running, ctxDone, owner, returned, verdict, call, up, signalled, crashes>>

\* the last line of the log; only "Job cancelled" is written with Background
Report(j) ==
  /\ Goto(j, "report", "persist")
  /\ AddLog(j, verdict[j], verdict[j] # "cancelled")
  /\ UNCHANGED <<running, ctxDone, owner, returned, verdict, call, up, signalled, crashes>>

Persist(j) ==
  /\ Goto(j, "persist", "unlock")
  /\ UpdateRow(j, verdict[j])
  /\ UNCHANGED <<running, ctxDone, owner, returned, verdict, call, up, signalled, crashes>>

\* Mutant: the deferred unlock is missing
UnlockForgets(j) ==
  /\ Goto(j, "unlock", "unregister")
  /\ UNCHANGED <<tables, running, ctxDone, owner, returned, verdict, call, up, history>>

\* the deferred calls, last one first: unlock, then running.Delete
Unlock(j) ==
  /\ Goto(j, "unlock", "unregister")
  /\ owner' = [n \in Name |-> IF n = deployment[j] THEN NoJob ELSE owner[n]]
  /\ UNCHANGED <<tables, running, ctxDone, returned, verdict, call, up, history>>

\* Mutant: the last line is logged by a deferred call
UnregisterLogs(j) ==
  /\ Goto(j, "unregister", "done")
  /\ running' = running \ {j}
  /\ AddLog(j, verdict[j], FALSE)
  /\ UNCHANGED <<ctxDone, owner, returned, verdict, call, up, signalled, crashes>>

Unregister(j) ==
  /\ Goto(j, "unregister", "done")
  /\ running' = running \ {j}
  /\ UNCHANGED <<tables, ctxDone, owner, returned, verdict, call, up, history>>

-----------------------------------------------------------------------------
(* CancelJob. *)

SetCall(c, at, j, read, reply) ==
  call' = [call EXCEPT ![c] = [pc |-> at, job |-> j, read |-> read, reply |-> reply]]

\* getJob: not found and a terminal row are answered at once
CancelRead(c, j) ==
  /\ up
  /\ call[c].pc = "idle"
  /\ \/ /\ status[j] = "none"
        /\ SetCall(c, "idle", j, "none", "error")
     \/ /\ status[j] \in Terminal
        /\ SetCall(c, "idle", j, status[j], status[j])
     \/ /\ status[j] \in {"queued", "running"}
        /\ SetCall(c, "signal", j, status[j], "none")
  /\ UNCHANGED <<tables, memory, up, history>>

\* Mutant: Cancel finds the CancelFunc and does not call it
SignalForgets(c) ==
  LET j == call[c].job IN
  /\ call[c].pc = "signal"
  /\ SetCall(c, IF j \in running THEN "poll" ELSE "idle", j, call[c].read,
             IF j \in running THEN "none" ELSE call[c].read)
  /\ UNCHANGED <<tables, memory, up, history>>

\* Runner.Cancel: without a published CancelFunc the row read is the answer
CancelSignal(c) ==
  LET j == call[c].job IN
  /\ call[c].pc = "signal"
  /\ IF j \in running
     THEN /\ ctxDone' = ctxDone \cup {j}
          /\ signalled' = signalled \cup {j}
          /\ SetCall(c, "poll", j, call[c].read, "none")
     ELSE /\ SetCall(c, "idle", j, call[c].read, call[c].read)
          /\ UNCHANGED <<ctxDone, signalled>>
  /\ UNCHANGED <<tables, pc, running, owner, returned, verdict, up, lost, crashes>>

\* A poll that answers: the row is terminal, or the two seconds are over and
\* it is answered as it is.  Polls that do not answer change nothing.
CancelPoll(c) ==
  LET j == call[c].job IN
  /\ call[c].pc = "poll"
  /\ SetCall(c, "idle", j, call[c].read, status[j])
  /\ UNCHANGED <<tables, memory, up, history>>

\* the client goes away while CancelJob polls
CancelAbandon(c) ==
  /\ call[c].pc = "poll"
  /\ SetCall(c, "idle", call[c].job, call[c].read, "error")
  /\ UNCHANGED <<tables, memory, up, history>>

-----------------------------------------------------------------------------
(* The daemon process. *)

\* A crash loses the memory of the process and keeps the tables.
Crash ==
  /\ up
  /\ crashes < MaxCrash
  /\ up' = FALSE
  /\ crashes' = crashes + 1
  /\ pc' = [j \in Job |-> IF pc[j] \in Live THEN "dead" ELSE pc[j]]
  /\ running' = {}
  /\ ctxDone' = {}
  /\ owner' = [n \in Name |-> NoJob]
  /\ call' = [c \in Caller |-> IF call[c].pc = "idle" THEN call[c]
                               ELSE [pc |-> "idle", job |-> call[c].job,
                                     read |-> call[c].read, reply |-> "error"]]
  /\ UNCHANGED <<tables, returned, verdict, signalled, lost>>

\* Mutant: a recovery at start that also rewrites finished rows
StartFailsAll ==
  /\ ~up
  /\ up' = TRUE
  /\ status' = [j \in Job |-> IF status[j] = "none" THEN "none" ELSE "failed"]
  /\ UNCHANGED <<deployment, jobLogs, memory, call, history>>

\* main opens the store and serves; it looks at no row of jobs, so a job
\* that was queued or running stays as it is in the table
Start ==
  /\ ~up
  /\ up' = TRUE
  /\ UNCHANGED <<tables, memory, call, history>>

-----------------------------------------------------------------------------
Enqueue(j) == (\E n \in Name \cup {NoName} : Insert(j, n)) \/ Publish(j)

Body(j) == Output(j) \/ \E r \in {"ok", "error"} : Return(j, r)

Run(j) ==
  \/ Lock(j) \/ MarkRunning(j) \/ Announce(j) \/ Begin(j) \/ Body(j)
  \/ Decide(j) \/ Report(j) \/ Persist(j) \/ Unlock(j) \/ Unregister(j)

CancelJob(c) ==
  (\E j \in Job : CancelRead(c, j)) \/ CancelSignal(c) \/ CancelPoll(c) \/ CancelAbandon(c)

Next ==
  \/ \E j \in Job : Enqueue(j) \/ Run(j)
  \/ \E c \in Caller : CancelJob(c)
  \/ Crash
  \/ Start

Spec == Init /\ [][Next]_vars

-----------------------------------------------------------------------------
(* Fairness.  A goroutine that can run is run (weak fairness), and a       *)
(* sync.Mutex hands over to a waiter that has waited for 1 ms, so no       *)
(* waiter is passed over for ever (strong fairness of Lock).               *)

StepsFair(j) ==
  /\ WF_vars(Publish(j))
  /\ SF_vars(Lock(j))
  /\ WF_vars(MarkRunning(j)) /\ WF_vars(Announce(j)) /\ WF_vars(Begin(j))
  /\ WF_vars(Decide(j)) /\ WF_vars(Report(j)) /\ WF_vars(Persist(j))
  /\ WF_vars(Unlock(j)) /\ WF_vars(Unregister(j))

\* Nothing is assumed of the body: a git or Docker command may hang for ever, and
\* cancelling it need not end it, because a child of git that survives the kill
\* keeps the pipe open that CombinedOutput waits for.
FairSpec == Spec /\ \A j \in Job : StepsFair(j)

-----------------------------------------------------------------------------
(* Properties. *)

InBody(j) == pc[j] = "body"

\* Two jobs of one named deployment never run their bodies at the same time,
\* whatever cancels, failed writes and restarts happen around them
\* (capability "per-deployment-locking").
MutualExclusion ==
  \A j, k \in Job :
    j # k /\ deployment[j] = deployment[k] /\ deployment[j] \in Name
      => ~(InBody(j) /\ InBody(k))

\* What the row says at the end is what happened: "succeeded" only when the
\* body returned nil, "failed" only when it returned an error, "cancelled"
\* only when some CancelJob reached the job.
StatusIsExplained ==
  \A j \in Job :
    /\ status[j] = "succeeded" => returned[j] = "ok"
    /\ status[j] = "failed" => returned[j] = "error"
    /\ status[j] = "cancelled" => j \in signalled

\* A terminal row has its last log line stored before it, unless the database
\* refused a write or the job was cancelled after the outcome was decided.
\* ListJobLogs of a finished job therefore ends with its outcome.
OutcomeIsLogged ==
  \A j \in Job :
    status[j] \in Terminal /\ j \notin lost /\ (status[j] = "cancelled" \/ j \notin signalled)
      => jobLogs[j] # <<>> /\ jobLogs[j][Len(jobLogs[j])] = status[j]

\* A row that says "running" under the daemon that runs the job has its
\* CancelFunc published, so CancelJob finds it; only a lost final write or a
\* crash leaves a running row that nothing can cancel.
RunningIsCancellable ==
  \A j \in Job :
    status[j] = "running" /\ pc[j] # "dead" /\ j \notin lost => j \in running

\* A CancelJob that saw the job running and answers a status was not in vain:
\* it cancelled the context, or the job had finished by itself.  (A request
\* that saw "queued" has no such promise: see Publish.)
CancelOfRunningArrives ==
  \A c \in Caller :
    LET j == call[c].job IN
    call[c].pc = "idle" /\ call[c].read = "running" /\ call[c].reply # "error"
      => j \in signalled \/ status[j] \in Terminal \/ j \in lost \/ pc[j] = "dead"

\* The order of the statuses a reader of the table can see: a row goes from
\* queued to running to one terminal status and never back; a crash, a
\* restart or a late cancel never reopens or rewrites a finished job.
Later(s) ==
  CASE s = "none" -> {"queued"}
    [] s = "queued" -> {"running"} \cup Terminal
    [] s = "running" -> Terminal
    [] OTHER -> {}
ForwardStep == \A j \in Job : status'[j] = status[j] \/ status'[j] \in Later(status[j])
StatusMovesForward == [][ForwardStep]_vars

\* Once a row is terminal the log of the job does not grow any more: a reader
\* that sees a terminal status and THEN reads the log has all of it.
LogStep == \A j \in Job : status[j] \in Terminal => jobLogs'[j] = jobLogs[j]
LogEndsBeforeStatus == [][LogStep]_vars

\* the two jobs are one, or take the same mutex
SharesMutex(j, k) == j = k \/ (deployment[j] = deployment[k] /\ deployment[j] \in Name)

\* Every job that was accepted ends with a terminal row, even when it queues
\* behind others and whatever is cancelled, unless the daemon dies under it or
\* its final write is lost: it is enough that its own body and those of its
\* deployment return.  A body that never returns, cancelled or not, holds up
\* the jobs of its own deployment and of no other.
EveryJobSettles ==
  \A j \in Job :
    (\A k \in Job : []<>~(InBody(k) /\ SharesMutex(j, k))) =>
      ((status[j] = "queued") ~> (status[j] \in Terminal \/ pc[j] = "dead" \/ j \in lost))

\* The runner keeps the promise of JobLifecycle.
Phase(j) ==
  CASE pc[j] \in {"idle", "publish", "lock", "mark", "announce", "begin"} -> "waiting"
    [] pc[j] = "body" -> "active"
    [] pc[j] \in {"decide", "report", "persist", "unlock"} -> "settling"
    [] OTHER -> "over"
Lifecycle == INSTANCE JobLifecycle WITH phase <- [j \in Job |-> Phase(j)]
ImplementsLifecycle == Lifecycle!Spec
=============================================================================
