------------------------------- MODULE JobWatch -------------------------------
(***************************************************************************)
(* Clients that follow a job while the runner works on it: the WatchJob    *)
(* stream of gRPC, which the command line reads in waitForJob, and the     *)
(* event stream of the dashboard (handleJobEvents), which runs the same    *)
(* loop.  The loop reads the new log lines, then the row, then sleeps;     *)
(* between any two of its reads the goroutine of the job may take steps.   *)
(* Events are delivered in order, so a Send and its Recv are one step.     *)
(***************************************************************************)
EXTENDS JobRunner

CONSTANTS Watcher,
          MaxAfter     \* bound: the AfterSequence a client asks for

ASSUME MaxAfterIsNat == MaxAfter \in Nat

VARIABLE watch         \* the streams; a sequence number is a position in the log

watchVars == <<vars, watch>>

Open == {"logs", "status", "wait"}

\* from    AfterSequence of the request
\* late    history: the row was terminal when the stream was opened
\* after   the cursor: the last sequence number sent
\* got     the lines received
\* final   the status of the final event, "none" before it
\* exit    what waitForJob makes of the stream: "ok", "error" or "none" yet
WatchTypeOK ==
  /\ TypeOK
  /\ watch \in [Watcher ->
       [pc : {"idle", "closed"} \cup Open, job : Job \cup {NoJob}, from : Nat, late : BOOLEAN,
        after : Nat, got : Seq(Line), final : {"none"} \cup Terminal,
        exit : {"none", "ok", "error"}]]

WatchInit ==
  /\ Init
  /\ watch = [w \in Watcher |->
       [pc |-> "idle", job |-> NoJob, from |-> 0, late |-> FALSE, after |-> 0, got |-> <<>>,
        final |-> "none", exit |-> "none"]]

-----------------------------------------------------------------------------
\* The stream of a job that exists; an unknown id is answered "not found".
WatchJob(w, j, from) ==
  /\ up
  /\ watch[w].pc = "idle"
  /\ status[j] # "none"
  /\ watch' = [watch EXCEPT ![w].pc = "logs", ![w].job = j, ![w].from = from,
                            ![w].after = from, ![w].late = status[j] \in Terminal]
  /\ UNCHANGED vars

\* Mutant: the cursor is compared with >= instead of >
LogsFrom(j, after) == SubSeq(jobLogs[j], IF after = 0 THEN 1 ELSE after, Len(jobLogs[j]))

\* Mutant: at most one line per read
LogsPage(j, after) ==
  SubSeq(jobLogs[j], after + 1, IF after < Len(jobLogs[j]) THEN after + 1 ELSE after)

\* LogsAfter: the lines of the job whose sequence is greater than the cursor
LogsAfter(j, after) == SubSeq(jobLogs[j], after + 1, Len(jobLogs[j]))

SendLogs(w) ==
  LET lines == LogsAfter(watch[w].job, watch[w].after) IN
  /\ watch[w].pc = "logs"
  /\ watch' = [watch EXCEPT ![w].pc = "status", ![w].got = @ \o lines, ![w].after = @ + Len(lines)]
  /\ UNCHANGED vars

\* Mutant: a cancelled job counts as a success
ExitOnlyFailed(s) == IF s = "failed" THEN "error" ELSE "ok"

\* waitForJob: only the final event of a job that succeeded is a success
ExitOf(s) == IF s = "succeeded" THEN "ok" ELSE "error"

\* Mutant: only success counts as terminal
FinalOnlySuccess(w) ==
  LET s == status[watch[w].job] IN
  /\ watch[w].pc = "status"
  /\ IF s = "succeeded"
     THEN watch' = [watch EXCEPT ![w].pc = "closed", ![w].final = s, ![w].exit = ExitOf(s)]
     ELSE watch' = [watch EXCEPT ![w].pc = "wait"]
  /\ UNCHANGED vars

SendFinal(w) ==
  LET s == status[watch[w].job] IN
  /\ watch[w].pc = "status"
  /\ IF s \in Terminal
     THEN watch' = [watch EXCEPT ![w].pc = "closed", ![w].final = s, ![w].exit = ExitOf(s)]
     ELSE watch' = [watch EXCEPT ![w].pc = "wait"]
  /\ UNCHANGED vars

Tick(w) ==
  /\ watch[w].pc = "wait"
  /\ watch' = [watch EXCEPT ![w].pc = "logs"]
  /\ UNCHANGED vars

Broken(r) == IF r.pc \in Open THEN [r EXCEPT !.pc = "closed", !.exit = "error"] ELSE r

\* the client goes away
Leave(w) ==
  /\ watch[w].pc \in Open
  /\ watch' = [watch EXCEPT ![w] = Broken(@)]
  /\ UNCHANGED vars

\* the daemon dies and every stream with it
CrashStreams ==
  /\ Crash
  /\ watch' = [w \in Watcher |-> Broken(watch[w])]

Stream(w) == SendLogs(w) \/ SendFinal(w) \/ Tick(w)

WatchNext ==
  \/ /\ \/ \E j \in Job : Enqueue(j) \/ Run(j)
        \/ \E c \in Caller : CancelJob(c)
        \/ Start
     /\ UNCHANGED watch
  \/ CrashStreams
  \/ \E w \in Watcher :
       \/ \E j \in Job, from \in 0..MaxAfter : WatchJob(w, j, from)
       \/ Stream(w)
       \/ Leave(w)

WatchSpec == WatchInit /\ [][WatchNext]_watchVars

\* the loop of a stream goes on: the ticker fires and its reads return
WatchFairSpec ==
  /\ WatchSpec
  /\ \A j \in Job : StepsFair(j)
  /\ \A w \in Watcher : WF_watchVars(Stream(w))

-----------------------------------------------------------------------------
\* A stream delivers the log exactly: the lines after the requested one, in
\* order, without a gap and without a repetition, and its cursor counts them,
\* however its reads interleave with the writes of the job.
DeliveredExactly ==
  \A w \in Watcher :
    LET v == watch[w] IN
    v.job \in Job
      => /\ \E k \in 0..Len(jobLogs[v.job]) : v.got = SubSeq(jobLogs[v.job], v.from + 1, k)
         /\ v.after = v.from + Len(v.got)

\* The command line prints its success message only when the body of the job
\* returned without an error: no cancel, crash or refused write fakes it.
SuccessIsReal ==
  \A w \in Watcher : watch[w].exit = "ok" => returned[watch[w].job] = "ok"

\* A stream opened on a finished job delivers its whole log before it ends.
LateWatchIsComplete ==
  \A w \in Watcher :
    LET j == watch[w].job IN
    watch[w].late /\ watch[w].final # "none" /\ watch[w].from <= Len(jobLogs[j])
      => watch[w].after = Len(jobLogs[j])

\* A stream ends when its job does; only a job whose daemon died, or whose
\* final write was refused, or whose body never returns, keeps a client waiting.
WatchEnds ==
  (\A k \in Job : []<>~InBody(k)) =>
    \A w \in Watcher, j \in Job :
      (watch[w].pc = "logs" /\ watch[w].job = j)
        ~> (watch[w].pc = "closed" \/ pc[j] = "dead" \/ j \in lost)
=============================================================================
