------------------------------- MODULE JobDialog -------------------------------
(***************************************************************************)
(* JobLogModal, the dialog that shows one job: it asks for the row of the  *)
(* job, follows the event stream and is opened for one job after the other. *)
(*                                                                         *)
(* Every request is answered from what the daemon knows when it reads, and *)
(* the answers of different connections arrive in any order; the component *)
(* stays mounted, so that an answer always finds its state.                *)
(***************************************************************************)
EXTENDS Naturals, Sequences

CONSTANTS Job, NoJob,
          MaxLine,     \* bound: lines of a job
          MaxOpen,     \* bound: times the dialog is opened
          MaxError     \* bound: requests and streams that break

ASSUME DashboardBounds == {MaxLine, MaxOpen, MaxError} \subseteq Nat
ASSUME NoJobIsNoJob == NoJob \notin Job

VARIABLES
  status, lines,       \* the rows of the jobs and how many lines each has
  shown,               \* activeJobId
  logs, record, streaming,     \* the state of JobLogModal: logs, job, streaming
  opened,              \* how often the dialog was opened
  source,              \* the event streams, one for each opening
  get,                 \* the requests of getJob, one for each opening
  errors

daemon == <<status, lines>>
dialog == <<shown, logs, record, streaming, opened>>
vars == <<daemon, dialog, source, get, errors>>

\* queued and running look the same to the dialog, and so do the outcomes
Status == {"none", "open", "over"}
Opening == 1..MaxOpen
NoRecord == [job |-> NoJob, status |-> "none"]
Idle == [at |-> "idle", answer |-> "none"]
NoSource == [job |-> NoJob, at |-> "closed", after |-> 0, wire |-> <<>>]

Event == [event : {"log"}, line : 1..MaxLine] \cup [event : {"status", "done"}, status : {"over"}]

TypeOK ==
  /\ status \in [Job -> Status]
  /\ lines \in [Job -> 0..MaxLine]
  /\ shown \in Job \cup {NoJob}
  /\ logs \subseteq Job \X (1..MaxLine)
  /\ record \in [job : Job \cup {NoJob}, status : Status]
  /\ streaming \in BOOLEAN
  /\ opened \in 0..MaxOpen
  /\ source \in [Opening -> [job : Job \cup {NoJob}, at : {"open", "sent", "closed"},
                             after : 0..MaxLine, wire : Seq(Event)]]
  /\ get \in [Opening -> [at : {"idle", "asked", "answered", "over"}, answer : Status]]
  /\ \A n \in Opening : n > opened => source[n] = NoSource /\ get[n] = Idle
  /\ errors \in 0..MaxError

Init ==
  /\ status = [j \in Job |-> "none"]
  /\ lines = [j \in Job |-> 0]
  /\ shown = NoJob
  /\ logs = {}
  /\ record = NoRecord
  /\ streaming = FALSE
  /\ opened = 0
  /\ source = [n \in Opening |-> NoSource]
  /\ get = [n \in Opening |-> Idle]
  /\ errors = 0

-----------------------------------------------------------------------------
(* The daemon, as JobLifecycle and JobWatch describe it. *)

Move(j) ==
  /\ \/ status[j] = "none" /\ status' = [status EXCEPT ![j] = "open"]
     \/ status[j] = "open" /\ status' = [status EXCEPT ![j] = "over"]
  /\ UNCHANGED <<lines, dialog, source, get, errors>>

Write(j) ==
  /\ status[j] = "open"
  /\ lines[j] < MaxLine
  /\ lines' = [lines EXCEPT ![j] = @ + 1]
  /\ UNCHANGED <<status, dialog, source, get, errors>>

-----------------------------------------------------------------------------
(* Opening and closing the dialog: the effect of JobLogModal. *)

\* source.close(): what is on its way does not arrive
Shut(n) ==
  [source EXCEPT ![n] = [job |-> source[n].job, at |-> "closed", after |-> 0, wire |-> <<>>]]

\* unsubscribe, the cleanup of the effect, closes the stream that is open
Unsubscribed == IF opened = 0 THEN source ELSE Shut(opened)

Subscribe(j, sources) ==
  [sources EXCEPT ![opened + 1] = [job |-> j, at |-> "open", after |-> 0, wire |-> <<>>]]

\* Mutant: the effect returns no cleanup
ShowKeepsStream(j) ==
  /\ status[j] # "none"
  /\ shown # j
  /\ opened < MaxOpen
  /\ shown' = j
  /\ opened' = opened + 1
  /\ logs' = {}
  /\ streaming' = TRUE
  /\ source' = Subscribe(j, source)
  /\ get' = [get EXCEPT ![opened + 1].at = "asked"]
  /\ UNCHANGED <<daemon, record, errors>>

\* Mutant: the lines of the job before stay
ShowKeepsLogs(j) ==
  /\ status[j] # "none"
  /\ shown # j
  /\ opened < MaxOpen
  /\ shown' = j
  /\ opened' = opened + 1
  /\ streaming' = TRUE
  /\ source' = Subscribe(j, Unsubscribed)
  /\ get' = [get EXCEPT ![opened + 1].at = "asked"]
  /\ UNCHANGED <<daemon, logs, record, errors>>

\* Mutant: nobody remembers the stream that was opened
ShowForgetsStream(j) ==
  /\ status[j] # "none"
  /\ shown # j
  /\ opened < MaxOpen
  /\ shown' = j
  /\ logs' = {}
  /\ streaming' = TRUE
  /\ source' = Subscribe(j, Unsubscribed)
  /\ get' = [get EXCEPT ![opened + 1].at = "asked"]
  /\ UNCHANGED <<daemon, opened, record, errors>>

\* setActiveJobId: from a list, or with the answer to a request; the record
\* of the job before stays until another one arrives
Show(j) ==
  /\ status[j] # "none"
  /\ shown # j
  /\ opened < MaxOpen
  /\ shown' = j
  /\ opened' = opened + 1
  /\ logs' = {}
  /\ streaming' = TRUE
  /\ source' = Subscribe(j, Unsubscribed)
  /\ get' = [get EXCEPT ![opened + 1].at = "asked"]
  /\ UNCHANGED <<daemon, record, errors>>

Close ==
  /\ shown # NoJob
  /\ shown' = NoJob
  /\ logs' = {}
  /\ record' = NoRecord
  /\ source' = Unsubscribed
  /\ UNCHANGED <<daemon, streaming, opened, get, errors>>

-----------------------------------------------------------------------------
(* getJob: the handlers of the promise know nothing of the dialog. *)

GetAnswer(n) ==
  /\ get[n].at = "asked"
  /\ get' = [get EXCEPT ![n] = [at |-> "answered", answer |-> status[source[n].job]]]
  /\ UNCHANGED <<daemon, dialog, source, errors>>

GetArrives(n) ==
  /\ get[n].at = "answered"
  /\ get' = [get EXCEPT ![n] = [at |-> "over", answer |-> "none"]]
  /\ record' = [job |-> source[n].job, status |-> get[n].answer]
  /\ UNCHANGED <<daemon, shown, logs, streaming, opened, source, errors>>

Error ==
  /\ errors < MaxError
  /\ errors' = errors + 1

GetFails(n) ==
  /\ get[n].at = "asked"
  /\ Error
  /\ get' = [get EXCEPT ![n].at = "over"]
  /\ streaming' = FALSE
  /\ UNCHANGED <<daemon, shown, logs, record, opened, source>>

-----------------------------------------------------------------------------
(* The event stream: handleJobEvents sends, streamJobLogs receives. *)

\* a round of the loop: the lines that are new, then the end if there is one
\* (what a job writes between the two reads is the matter of JobWatch)
Send(n) ==
  LET j == source[n].job
      new == [i \in 1..lines[j] - source[n].after |->
                [event |-> "log", line |-> source[n].after + i]]
      final == <<[event |-> "status", status |-> "over"], [event |-> "done", status |-> "over"]>>
  IN /\ source[n].at = "open"
     /\ status[j] = "over" \/ new # <<>>
     /\ source' = [source EXCEPT ![n] =
          [job |-> j,
           at |-> IF status[j] = "over" THEN "sent" ELSE "open",
           after |-> lines[j],
           wire |-> source[n].wire \o new \o (IF status[j] = "over" THEN final ELSE <<>>)]]
     /\ UNCHANGED <<daemon, dialog, get, errors>>

Receive(n, event) ==
  /\ source[n].wire # <<>>
  /\ Head(source[n].wire).event = event
  /\ UNCHANGED <<daemon, shown, opened, get, errors>>

Received(n) == [source EXCEPT ![n].wire = Tail(@)]

OnLog(n) ==
  /\ Receive(n, "log")
  /\ logs' = logs \cup {<<source[n].job, Head(source[n].wire).line>>}
  /\ source' = Received(n)
  /\ UNCHANGED <<record, streaming>>

OnStatus(n) ==
  /\ Receive(n, "status")
  /\ record' = [job |-> source[n].job, status |-> Head(source[n].wire).status]
  /\ source' = Received(n)
  /\ UNCHANGED <<logs, streaming>>

\* setJob keeps null; onJobFinished polls (DeploymentList); the stream is closed
OnDone(n) ==
  /\ Receive(n, "done")
  /\ streaming' = FALSE
  /\ record' = IF record = NoRecord THEN record
               ELSE [record EXCEPT !.status = Head(source[n].wire).status]
  /\ source' = Shut(n)
  /\ UNCHANGED logs

\* onerror: the browser gives up a stream that breaks off
OnError(n) ==
  /\ source[n].at # "closed"
  /\ Error
  /\ streaming' = FALSE
  /\ source' = Shut(n)
  /\ UNCHANGED <<daemon, shown, logs, record, opened, get>>

Follow(n) ==
  \/ GetAnswer(n) \/ GetArrives(n) \/ GetFails(n)
  \/ Send(n) \/ OnLog(n) \/ OnStatus(n) \/ OnDone(n) \/ OnError(n)

Work(j) == Move(j) \/ Write(j)

Next ==
  \/ \E j \in Job : Show(j) \/ Work(j)
  \/ Close
  \/ \E n \in Opening : Follow(n)

Spec == Init /\ [][Next]_vars

-----------------------------------------------------------------------------
(* Properties. *)

\* The dialog shows lines of the job it is opened for only, from the first one
\* on and without a gap, however often it changes from one job to another.
OwnLog ==
  \E k \in 0..MaxLine : logs = {<<shown, i>> : i \in 1..k}

\* "complete" below the log, which is what the footer says when nothing
\* streams, is said of jobs that are over, unless a request or a stream broke:
\* the footer does not tell a log that broke off from one that is complete.
CompleteMeansOver == shown # NoJob /\ ~streaming /\ errors = 0 => status[shown] = "over"
=============================================================================
