--------------------------- MODULE JobRunnerProofs ---------------------------
(***************************************************************************)
(* Machine-checked proofs about JobRunner and about the followers that     *)
(* JobWatch adds to it, for every set of jobs, names, callers and watchers *)
(* and for every value of the bounds.                                      *)
(***************************************************************************)
EXTENDS JobWatch, SequenceTheorems, TLAPS

-----------------------------------------------------------------------------
(* The inductive invariant. *)

\* a goroutine past Lock holds the mutex of its deployment
HoldsLock ==
  \A j \in Job :
    pc[j] \in Critical /\ deployment[j] \in Name => owner[deployment[j]] = j

\* what the row says while Enqueue or the goroutine is under way
RowFollowsPC ==
  \A j \in Job :
    /\ pc[j] = "idle" => status[j] = "none"
    /\ pc[j] \in {"publish", "lock", "mark"} => status[j] = "queued"
    /\ pc[j] \in Critical \ {"unlock"} => status[j] \in {"queued", "running"}
    /\ pc[j] # "idle" => status[j] # "none"

\* what an outcome means
Explains(j, s) ==
  /\ s = "succeeded" => returned[j] = "ok"
  /\ s = "failed" => returned[j] = "error"
  /\ s = "cancelled" => j \in signalled

\* only CancelJob cancels a context, and the verdict that waits to be written
\* is explained by what the body returned
VerdictFollowsBody ==
  /\ ctxDone \subseteq signalled
  /\ \A j \in Job :
       /\ pc[j] = "decide" => returned[j] \in {"ok", "error"}
       /\ pc[j] \in {"report", "persist"} => verdict[j] \in Terminal /\ Explains(j, verdict[j])
       /\ Explains(j, status[j])

\* the CancelFunc of a job is published from Publish to Unregister, and the
\* row of a job past Persist is terminal unless the write was refused
PublishedWhileLive ==
  \A j \in Job :
    /\ pc[j] \in Live \ {"publish"} => j \in running
    /\ pc[j] \in {"unlock", "unregister", "done"} => status[j] \in Terminal \/ j \in lost

\* a CancelJob that is under way is about a job
CallHasJob == \A c \in Caller : call[c].pc # "idle" => call[c].job \in Job

IInv ==
  /\ TypeOK
  /\ CallHasJob
  /\ HoldsLock
  /\ RowFollowsPC
  /\ VerdictFollowsBody
  /\ PublishedWhileLive

-----------------------------------------------------------------------------
(* Type correctness. *)

\* A line appended to the log of a job keeps the logs well typed, and so does
\* a line that is dropped.
LEMMA AddLogType ==
  ASSUME jobLogs \in [Job -> Seq(Line)], lost \subseteq Job,
         NEW j \in Job, NEW line \in Line, NEW b \in BOOLEAN, AddLog(j, line, b)
  PROVE  jobLogs' \in [Job -> Seq(Line)] /\ lost' \subseteq Job
<1>1. Append(jobLogs[j], line) \in Seq(Line)
  OBVIOUS
<1>2. [jobLogs EXCEPT ![j] = Append(@, line)] \in [Job -> Seq(Line)]
  BY <1>1
<1> QED
  BY <1>2 DEF AddLog, WriteRefused

\* What SetCall leaves of the requests.
LEMMA SetCallType ==
  ASSUME TypeOK, CallHasJob, NEW c \in Caller, NEW at \in CallPC, NEW j \in Job,
         NEW read \in Seen, NEW reply \in Seen, SetCall(c, at, j, read, reply)
  PROVE  /\ call' \in [Caller -> [pc : CallPC, job : Job \cup {NoJob}, read : Seen, reply : Seen]]
         /\ CallHasJob'
BY DEF TypeOK, CallHasJob, SetCall

\* A CancelJob request touches its own state and cancels contexts, nothing else.
LEMMA CancelFrame ==
  ASSUME NEW c \in Caller, CancelJob(c)
  PROVE  /\ UNCHANGED <<tables, pc, running, owner, returned, verdict, up, lost, crashes>>
         /\ ctxDone \subseteq ctxDone'
         /\ signalled \subseteq signalled'
         /\ ctxDone \subseteq signalled => ctxDone' \subseteq signalled'
BY DEF CancelJob, CancelRead, CancelSignal, CancelPoll, CancelAbandon, tables, memory, history

\* The requests stay well typed, and so do the sets CancelSignal adds to.
LEMMA CancelType ==
  ASSUME TypeOK, CallHasJob, NEW c \in Caller, CancelJob(c)
  PROVE  /\ call' \in [Caller -> [pc : CallPC, job : Job \cup {NoJob}, read : Seen, reply : Seen]]
         /\ ctxDone' \subseteq Job
         /\ signalled' \subseteq Job
         /\ CallHasJob'
<1> DEFINE Kept ==
      /\ call' \in [Caller -> [pc : CallPC, job : Job \cup {NoJob}, read : Seen, reply : Seen]]
      /\ ctxDone' \subseteq Job
      /\ signalled' \subseteq Job
      /\ CallHasJob'
<1>1. ctxDone \subseteq Job /\ signalled \subseteq Job /\ status \in [Job -> Status]
  BY DEF TypeOK
<1>2. ASSUME NEW j \in Job, NEW at \in CallPC, NEW read \in Seen, NEW reply \in Seen,
             SetCall(c, at, j, read, reply), ctxDone' \subseteq Job, signalled' \subseteq Job
      PROVE  Kept
  BY <1>2, SetCallType
<1>3. ASSUME CancelSignal(c) \/ CancelPoll(c) \/ CancelAbandon(c)
      PROVE  call[c].job \in Job /\ call[c].read \in Seen
  BY <1>3 DEF TypeOK, CallHasJob, CancelSignal, CancelPoll, CancelAbandon
<1> HIDE DEF Kept
<1>4. ASSUME NEW j \in Job, CancelRead(c, j) PROVE Kept
  <2>1. ctxDone' \subseteq Job /\ signalled' \subseteq Job
    BY <1>1, <1>4 DEF CancelRead, memory, history
  <2>2. \E at \in CallPC, read \in Seen, reply \in Seen : SetCall(c, at, j, read, reply)
    BY <1>1, <1>4 DEF CancelRead, CallPC, Seen, Status, Terminal
  <2> QED
    BY <1>2, <2>1, <2>2
<1>5. ASSUME CancelSignal(c) PROVE Kept
  <2>1. ctxDone' \subseteq Job /\ signalled' \subseteq Job
    BY <1>1, <1>3, <1>5 DEF CancelSignal
  <2>2. \E at \in CallPC, reply \in Seen : SetCall(c, at, call[c].job, call[c].read, reply)
    BY <1>3, <1>5 DEF CancelSignal, CallPC, Seen, Status
  <2> QED
    BY <1>2, <1>3, <1>5, <2>1, <2>2
<1>6. ASSUME CancelPoll(c) \/ CancelAbandon(c) PROVE Kept
  <2>1. ctxDone' \subseteq Job /\ signalled' \subseteq Job
    BY <1>1, <1>6 DEF CancelPoll, CancelAbandon, memory, history
  <2>2. \E reply \in Seen : SetCall(c, "idle", call[c].job, call[c].read, reply)
    BY <1>1, <1>3, <1>6 DEF CancelPoll, CancelAbandon, Seen
  <2>3. "idle" \in CallPC
    BY DEF CallPC
  <2> QED
    BY <1>2, <1>3, <1>6, <2>1, <2>2, <2>3
<1>7. Kept
  BY <1>4, <1>5, <1>6 DEF CancelJob
<1> QED
  BY <1>7 DEF Kept

-----------------------------------------------------------------------------
(* Each part of the invariant is kept by every step.  The type of the log *)
(* needs VerdictFollowsBody: the line Report appends is the verdict.      *)

\* Every step keeps every variable in its type.
LEMMA TypeStep == TypeOK /\ CallHasJob /\ VerdictFollowsBody /\ [Next]_vars => TypeOK'
<1> SUFFICES ASSUME TypeOK, CallHasJob, VerdictFollowsBody, [Next]_vars PROVE TypeOK'
  OBVIOUS
<1> USE DEF TypeOK, tables, memory, history, Goto, PC, Live, Critical, Status, Terminal
<1>1. ASSUME NEW j \in Job, NEW n \in Name \cup {NoName}, Insert(j, n) PROVE TypeOK'
  BY <1>1 DEF Insert
<1>2. ASSUME NEW j \in Job, Publish(j) PROVE TypeOK'
  BY <1>2 DEF Publish
<1>3. ASSUME NEW j \in Job, Lock(j) PROVE TypeOK'
  BY <1>3 DEF Lock
<1>4. ASSUME NEW j \in Job, MarkRunning(j) PROVE TypeOK'
  BY <1>4 DEF MarkRunning, UpdateRow, WriteRefused
<1>5. ASSUME NEW j \in Job, Announce(j) PROVE TypeOK'
  <2>1. jobLogs' \in [Job -> Seq(Line)] /\ lost' \subseteq Job
    BY <1>5, AddLogType DEF Announce, Line
  <2>2. UNCHANGED <<status, deployment>>
    BY <1>5 DEF Announce, AddLog
  <2> QED
    BY <1>5, <2>1, <2>2 DEF Announce
<1>6. ASSUME NEW j \in Job, Begin(j) PROVE TypeOK'
  BY <1>6 DEF Begin
<1>7. ASSUME NEW j \in Job, Output(j) PROVE TypeOK'
  <2>1. jobLogs' \in [Job -> Seq(Line)] /\ lost' \subseteq Job
    BY <1>7, AddLogType DEF Output, Line
  <2>2. UNCHANGED <<status, deployment>>
    BY <1>7 DEF Output, AddLog
  <2> QED
    BY <1>7, <2>1, <2>2 DEF Output
<1>8. ASSUME NEW j \in Job, NEW r \in {"ok", "error"}, Return(j, r) PROVE TypeOK'
  BY <1>8 DEF Return
<1>9. ASSUME NEW j \in Job, Decide(j) PROVE TypeOK'
  BY <1>9 DEF Decide, Outcome
<1>10. ASSUME NEW j \in Job, Report(j) PROVE TypeOK'
  <2>1. jobLogs' \in [Job -> Seq(Line)] /\ lost' \subseteq Job
    BY <1>10, AddLogType DEF Report, Line, VerdictFollowsBody
  <2>2. UNCHANGED <<status, deployment>>
    BY <1>10 DEF Report, AddLog
  <2> QED
    BY <1>10, <2>1, <2>2 DEF Report
<1>11. ASSUME NEW j \in Job, Persist(j) PROVE TypeOK'
  BY <1>11 DEF Persist, UpdateRow, WriteRefused
<1>12. ASSUME NEW j \in Job, Unlock(j) PROVE TypeOK'
  BY <1>12 DEF Unlock
<1>13. ASSUME NEW j \in Job, Unregister(j) PROVE TypeOK'
  BY <1>13 DEF Unregister
<1>14. ASSUME NEW c \in Caller, CancelJob(c) PROVE TypeOK'
  BY <1>14, CancelFrame, CancelType
<1>15. ASSUME Crash PROVE TypeOK'
  <2>1. ASSUME NEW c \in Caller
        PROVE  [pc |-> "idle", job |-> call[c].job, read |-> call[c].read, reply |-> "error"]
                 \in [pc : CallPC, job : Job \cup {NoJob}, read : Seen, reply : Seen]
    BY DEF CallPC, Seen
  <2>2. call' \in [Caller -> [pc : CallPC, job : Job \cup {NoJob}, read : Seen, reply : Seen]]
    BY <1>15, <2>1 DEF Crash
  <2>3. pc' \in [Job -> PC]
    BY <1>15 DEF Crash
  <2>4. /\ running' = {} /\ ctxDone' = {} /\ owner' = [n \in Name |-> NoJob] /\ up' = FALSE
        /\ crashes' \in Nat /\ UNCHANGED <<tables, returned, verdict, signalled, lost>>
    BY <1>15 DEF Crash
  <2> QED
    BY <2>2, <2>3, <2>4
<1>16. ASSUME Start PROVE TypeOK'
  BY <1>16 DEF Start
<1>17. CASE UNCHANGED vars
  BY <1>17 DEF vars
<1> QED
  BY <1>1, <1>2, <1>3, <1>4, <1>5, <1>6, <1>7, <1>8, <1>9, <1>10, <1>11, <1>12, <1>13, <1>14, <1>15, <1>16, <1>17 DEF Next, Enqueue, Run, Body

\* Every step keeps HoldsLock: a job between Lock and Unlock owns the mutex of its
\* deployment, and Unlock releases only its own.
LEMMA LockStep == TypeOK /\ HoldsLock /\ [Next]_vars => HoldsLock'
<1> SUFFICES ASSUME TypeOK, HoldsLock, [Next]_vars PROVE HoldsLock'
  OBVIOUS
<1> USE DEF TypeOK, HoldsLock, tables, memory, history, Goto, Critical
<1>1. ASSUME NEW j \in Job, NEW n \in Name \cup {NoName}, Insert(j, n) PROVE HoldsLock'
  BY <1>1 DEF Insert
<1>2. ASSUME NEW j \in Job, Publish(j) PROVE HoldsLock'
  BY <1>2 DEF Publish
<1>3. ASSUME NEW j \in Job, Lock(j) PROVE HoldsLock'
  <2>1. CASE deployment[j] = NoName
    BY <1>3, <2>1, NoNameIsNoName DEF Lock
  <2>2. CASE deployment[j] \in Name
    <3>1. owner[deployment[j]] = NoJob /\ owner' = [owner EXCEPT ![deployment[j]] = j]
      BY <1>3, <2>2, NoNameIsNoName DEF Lock
    <3>2. \A k \in Job : pc[k] \in Critical => deployment[k] # deployment[j]
      BY <2>2, <3>1, NoJobIsNoJob
    <3> QED
      BY <1>3, <2>2, <3>1, <3>2 DEF Lock
  <2> QED
    BY <1>3, <2>1, <2>2 DEF Lock
<1>4. ASSUME NEW j \in Job, MarkRunning(j) PROVE HoldsLock'
  BY <1>4 DEF MarkRunning, UpdateRow, WriteRefused
<1>5. ASSUME NEW j \in Job, Announce(j) PROVE HoldsLock'
  BY <1>5 DEF Announce, AddLog, WriteRefused
<1>6. ASSUME NEW j \in Job, Begin(j) PROVE HoldsLock'
  BY <1>6 DEF Begin
<1>7. ASSUME NEW j \in Job, Output(j) PROVE HoldsLock'
  BY <1>7 DEF Output, AddLog, WriteRefused
<1>8. ASSUME NEW j \in Job, NEW r \in {"ok", "error"}, Return(j, r) PROVE HoldsLock'
  BY <1>8 DEF Return
<1>9. ASSUME NEW j \in Job, Decide(j) PROVE HoldsLock'
  BY <1>9 DEF Decide, Outcome
<1>10. ASSUME NEW j \in Job, Report(j) PROVE HoldsLock'
  BY <1>10 DEF Report, AddLog, WriteRefused
<1>11. ASSUME NEW j \in Job, Persist(j) PROVE HoldsLock'
  BY <1>11 DEF Persist, UpdateRow, WriteRefused
<1>12. ASSUME NEW j \in Job, Unlock(j) PROVE HoldsLock'
  BY <1>12 DEF Unlock
<1>13. ASSUME NEW j \in Job, Unregister(j) PROVE HoldsLock'
  BY <1>13 DEF Unregister
<1>14. ASSUME NEW c \in Caller, CancelJob(c) PROVE HoldsLock'
  BY <1>14, CancelFrame
<1>15. ASSUME Crash PROVE HoldsLock'
  BY <1>15 DEF Crash, Live
<1>16. ASSUME Start PROVE HoldsLock'
  BY <1>16 DEF Start
<1>17. CASE UNCHANGED vars
  BY <1>17 DEF vars
<1> QED
  BY <1>1, <1>2, <1>3, <1>4, <1>5, <1>6, <1>7, <1>8, <1>9, <1>10, <1>11, <1>12, <1>13, <1>14, <1>15, <1>16, <1>17 DEF Next, Enqueue, Run, Body

\* Every step keeps RowFollowsPC: how far the goroutine is says what its row can be.
LEMMA RowStep == TypeOK /\ RowFollowsPC /\ VerdictFollowsBody /\ [Next]_vars => RowFollowsPC'
<1> SUFFICES ASSUME TypeOK, RowFollowsPC, VerdictFollowsBody, [Next]_vars PROVE RowFollowsPC'
  OBVIOUS
<1> USE DEF TypeOK, RowFollowsPC, tables, memory, history, Goto, Critical
<1>1. ASSUME NEW j \in Job, NEW n \in Name \cup {NoName}, Insert(j, n) PROVE RowFollowsPC'
  BY <1>1 DEF Insert
<1>2. ASSUME NEW j \in Job, Publish(j) PROVE RowFollowsPC'
  BY <1>2 DEF Publish
<1>3. ASSUME NEW j \in Job, Lock(j) PROVE RowFollowsPC'
  BY <1>3 DEF Lock
<1>4. ASSUME NEW j \in Job, MarkRunning(j) PROVE RowFollowsPC'
  BY <1>4 DEF MarkRunning, UpdateRow, WriteRefused
<1>5. ASSUME NEW j \in Job, Announce(j) PROVE RowFollowsPC'
  BY <1>5 DEF Announce, AddLog, WriteRefused
<1>6. ASSUME NEW j \in Job, Begin(j) PROVE RowFollowsPC'
  BY <1>6 DEF Begin
<1>7. ASSUME NEW j \in Job, Output(j) PROVE RowFollowsPC'
  BY <1>7 DEF Output, AddLog, WriteRefused
<1>8. ASSUME NEW j \in Job, NEW r \in {"ok", "error"}, Return(j, r) PROVE RowFollowsPC'
  BY <1>8 DEF Return
<1>9. ASSUME NEW j \in Job, Decide(j) PROVE RowFollowsPC'
  BY <1>9 DEF Decide, Outcome
<1>10. ASSUME NEW j \in Job, Report(j) PROVE RowFollowsPC'
  BY <1>10 DEF Report, AddLog, WriteRefused
<1>11. ASSUME NEW j \in Job, Persist(j) PROVE RowFollowsPC'
  BY <1>11 DEF Persist, UpdateRow, WriteRefused, VerdictFollowsBody, Terminal
<1>12. ASSUME NEW j \in Job, Unlock(j) PROVE RowFollowsPC'
  BY <1>12 DEF Unlock
<1>13. ASSUME NEW j \in Job, Unregister(j) PROVE RowFollowsPC'
  BY <1>13 DEF Unregister
<1>14. ASSUME NEW c \in Caller, CancelJob(c) PROVE RowFollowsPC'
  BY <1>14, CancelFrame
<1>15. ASSUME Crash PROVE RowFollowsPC'
  BY <1>15 DEF Crash, Live
<1>16. ASSUME Start PROVE RowFollowsPC'
  BY <1>16 DEF Start
<1>17. CASE UNCHANGED vars
  BY <1>17 DEF vars
<1> QED
  BY <1>1, <1>2, <1>3, <1>4, <1>5, <1>6, <1>7, <1>8, <1>9, <1>10, <1>11, <1>12, <1>13, <1>14, <1>15, <1>16, <1>17 DEF Next, Enqueue, Run, Body

\* Every step keeps VerdictFollowsBody: the verdict says what the body returned and
\* whether a cancel came before Decide.
LEMMA VerdictStep == TypeOK /\ RowFollowsPC /\ VerdictFollowsBody /\ [Next]_vars => VerdictFollowsBody'
<1> SUFFICES ASSUME TypeOK, RowFollowsPC, VerdictFollowsBody, [Next]_vars PROVE VerdictFollowsBody'
  OBVIOUS
<1> USE DEF TypeOK, RowFollowsPC, VerdictFollowsBody, Explains, Terminal, tables, memory, history, Goto, Critical
<1>1. ASSUME NEW j \in Job, NEW n \in Name \cup {NoName}, Insert(j, n) PROVE VerdictFollowsBody'
  BY <1>1 DEF Insert
<1>2. ASSUME NEW j \in Job, Publish(j) PROVE VerdictFollowsBody'
  BY <1>2 DEF Publish
<1>3. ASSUME NEW j \in Job, Lock(j) PROVE VerdictFollowsBody'
  BY <1>3 DEF Lock
<1>4. ASSUME NEW j \in Job, MarkRunning(j) PROVE VerdictFollowsBody'
  BY <1>4 DEF MarkRunning, UpdateRow, WriteRefused
<1>5. ASSUME NEW j \in Job, Announce(j) PROVE VerdictFollowsBody'
  BY <1>5 DEF Announce, AddLog, WriteRefused
<1>6. ASSUME NEW j \in Job, Begin(j) PROVE VerdictFollowsBody'
  <2>1. /\ UNCHANGED <<status, ctxDone, signalled, verdict>>
        /\ pc[j] = "begin" /\ status[j] \in {"queued", "running"}
        /\ \A k \in Job \ {j} : pc'[k] = pc[k] /\ returned'[k] = returned[k]
    BY <1>6 DEF Begin
  <2>2. \/ pc'[j] = "body"
        \/ pc'[j] = "decide" /\ returned'[j] = "error"
    BY <1>6 DEF Begin
  <2>3. ASSUME NEW k \in Job \ {j}
        PROVE  /\ pc'[k] = "decide" => returned'[k] \in {"ok", "error"}
               /\ pc'[k] \in {"report", "persist"} => verdict'[k] \in Terminal /\ Explains(k, verdict[k])'
               /\ Explains(k, status[k])'
    BY <2>1
  <2>4. /\ pc'[j] = "decide" => returned'[j] \in {"ok", "error"}
        /\ pc'[j] \notin {"report", "persist"}
        /\ Explains(j, status[j])'
    BY <2>1, <2>2
  <2> QED
    BY <2>1, <2>3, <2>4
<1>7. ASSUME NEW j \in Job, Output(j) PROVE VerdictFollowsBody'
  BY <1>7 DEF Output, AddLog, WriteRefused
<1>8. ASSUME NEW j \in Job, NEW r \in {"ok", "error"}, Return(j, r) PROVE VerdictFollowsBody'
  BY <1>8 DEF Return
<1>9. ASSUME NEW j \in Job, Decide(j) PROVE VerdictFollowsBody'
  BY <1>9 DEF Decide, Outcome
<1>10. ASSUME NEW j \in Job, Report(j) PROVE VerdictFollowsBody'
  BY <1>10 DEF Report, AddLog, WriteRefused
<1>11. ASSUME NEW j \in Job, Persist(j) PROVE VerdictFollowsBody'
  BY <1>11 DEF Persist, UpdateRow, WriteRefused
<1>12. ASSUME NEW j \in Job, Unlock(j) PROVE VerdictFollowsBody'
  BY <1>12 DEF Unlock
<1>13. ASSUME NEW j \in Job, Unregister(j) PROVE VerdictFollowsBody'
  BY <1>13 DEF Unregister
<1>14. ASSUME NEW c \in Caller, CancelJob(c) PROVE VerdictFollowsBody'
  BY <1>14, CancelFrame
<1>15. ASSUME Crash PROVE VerdictFollowsBody'
  BY <1>15 DEF Crash, Live
<1>16. ASSUME Start PROVE VerdictFollowsBody'
  BY <1>16 DEF Start
<1>17. CASE UNCHANGED vars
  BY <1>17 DEF vars
<1> QED
  BY <1>1, <1>2, <1>3, <1>4, <1>5, <1>6, <1>7, <1>8, <1>9, <1>10, <1>11, <1>12, <1>13, <1>14, <1>15, <1>16, <1>17 DEF Next, Enqueue, Run, Body

\* Every step keeps PublishedWhileLive: a CancelFunc is in the map from Publish to
\* Unregister.
LEMMA PublishedStep == TypeOK /\ PublishedWhileLive /\ VerdictFollowsBody /\ RowFollowsPC /\ [Next]_vars => PublishedWhileLive'
<1> SUFFICES ASSUME TypeOK, PublishedWhileLive, VerdictFollowsBody, RowFollowsPC, [Next]_vars PROVE PublishedWhileLive'
  OBVIOUS
<1> USE DEF TypeOK, PublishedWhileLive, tables, memory, history, Goto, Live, Critical
<1>1. ASSUME NEW j \in Job, NEW n \in Name \cup {NoName}, Insert(j, n) PROVE PublishedWhileLive'
  BY <1>1 DEF Insert
<1>2. ASSUME NEW j \in Job, Publish(j) PROVE PublishedWhileLive'
  BY <1>2 DEF Publish
<1>3. ASSUME NEW j \in Job, Lock(j) PROVE PublishedWhileLive'
  BY <1>3 DEF Lock
<1>4. ASSUME NEW j \in Job, MarkRunning(j) PROVE PublishedWhileLive'
  BY <1>4 DEF MarkRunning, UpdateRow, WriteRefused
<1>5. ASSUME NEW j \in Job, Announce(j) PROVE PublishedWhileLive'
  BY <1>5 DEF Announce, AddLog, WriteRefused
<1>6. ASSUME NEW j \in Job, Begin(j) PROVE PublishedWhileLive'
  BY <1>6 DEF Begin
<1>7. ASSUME NEW j \in Job, Output(j) PROVE PublishedWhileLive'
  BY <1>7 DEF Output, AddLog, WriteRefused
<1>8. ASSUME NEW j \in Job, NEW r \in {"ok", "error"}, Return(j, r) PROVE PublishedWhileLive'
  BY <1>8 DEF Return
<1>9. ASSUME NEW j \in Job, Decide(j) PROVE PublishedWhileLive'
  BY <1>9 DEF Decide, Outcome
<1>10. ASSUME NEW j \in Job, Report(j) PROVE PublishedWhileLive'
  BY <1>10 DEF Report, AddLog, WriteRefused
<1>11. ASSUME NEW j \in Job, Persist(j) PROVE PublishedWhileLive'
  BY <1>11 DEF Persist, UpdateRow, WriteRefused, VerdictFollowsBody, Terminal
<1>12. ASSUME NEW j \in Job, Unlock(j) PROVE PublishedWhileLive'
  BY <1>12 DEF Unlock
<1>13. ASSUME NEW j \in Job, Unregister(j) PROVE PublishedWhileLive'
  BY <1>13 DEF Unregister
<1>14. ASSUME NEW c \in Caller, CancelJob(c) PROVE PublishedWhileLive'
  BY <1>14, CancelFrame
<1>15. ASSUME Crash PROVE PublishedWhileLive'
  BY <1>15 DEF Crash
<1>16. ASSUME Start PROVE PublishedWhileLive'
  BY <1>16 DEF Start
<1>17. CASE UNCHANGED vars
  BY <1>17 DEF vars
<1> QED
  BY <1>1, <1>2, <1>3, <1>4, <1>5, <1>6, <1>7, <1>8, <1>9, <1>10, <1>11, <1>12, <1>13, <1>14, <1>15, <1>16, <1>17 DEF Next, Enqueue, Run, Body

\* Every step keeps CallHasJob: a CancelJob request that is under way names a job.
LEMMA CallStep == TypeOK /\ CallHasJob /\ [Next]_vars => CallHasJob'
<1> SUFFICES ASSUME TypeOK, CallHasJob, [Next]_vars PROVE CallHasJob'
  OBVIOUS
<1>1. ASSUME NEW c \in Caller, CancelJob(c) PROVE CallHasJob'
  BY <1>1, CancelType
<1>2. CASE Crash
  BY <1>2 DEF Crash, CallHasJob, TypeOK
<1>3. ASSUME NEW j \in Job, Enqueue(j) \/ Run(j) PROVE UNCHANGED call
  BY <1>3 DEF Enqueue, Insert, Publish, Run, Lock, MarkRunning, Announce, Begin, Body, Output,
              Return, Decide, Report, Persist, Unlock, Unregister
<1>4. CASE Start \/ UNCHANGED vars
  BY <1>4 DEF Start, CallHasJob, vars
<1> QED
  BY <1>1, <1>2, <1>3, <1>4 DEF Next, CallHasJob

-----------------------------------------------------------------------------
(* The theorems. *)

\* Every step keeps the inductive invariant.
LEMMA IInvStep == IInv /\ [Next]_vars => IInv'
BY TypeStep, CallStep, LockStep, RowStep, VerdictStep, PublishedStep DEF IInv

\* It holds at the start.
LEMMA InitIInv == Init => IInv
BY DEF Init, IInv, TypeOK, CallHasJob, HoldsLock, RowFollowsPC, VerdictFollowsBody, PublishedWhileLive,
       Explains, PC, Live, Critical, Status, Terminal, CallPC, Seen

\* The inductive invariant holds in every reachable state.
THEOREM Invariance == Spec => []IInv
BY InitIInv, IInvStep, PTL DEF Spec

\* Every variable keeps its type: the tables, the memory and the requests.
THEOREM TypeCorrect == Spec => []TypeOK
<1>1. IInv => TypeOK
  BY DEF IInv
<1> QED
  BY <1>1, Invariance, PTL

\* Per-deployment locking works for every number of jobs and deployments: no
\* two jobs of one named deployment are inside their bodies together.
THEOREM ExclusivePerDeployment == Spec => []MutualExclusion
<1>1. TypeOK /\ HoldsLock => MutualExclusion
  BY DEF TypeOK, HoldsLock, MutualExclusion, InBody, Critical
<1> QED
  BY <1>1, Invariance, PTL DEF IInv

\* The terminal status of a row tells the truth about the body and about the
\* cancel requests, however many of them race with it.
THEOREM StatusTruthful == Spec => []StatusIsExplained
<1>1. VerdictFollowsBody => StatusIsExplained
  BY DEF VerdictFollowsBody, StatusIsExplained, Explains
<1> QED
  BY <1>1, Invariance, PTL DEF IInv

\* A row that says "running" can be cancelled while its daemon runs it.
THEOREM RunningReachable == Spec => []RunningIsCancellable
<1>1. TypeOK /\ RowFollowsPC /\ PublishedWhileLive => RunningIsCancellable
  BY DEF TypeOK, RowFollowsPC, PublishedWhileLive, RunningIsCancellable, PC, Live, Critical, Terminal
<1> QED
  BY <1>1, Invariance, PTL DEF IInv

-----------------------------------------------------------------------------
(* Action properties. *)

\* Who writes which status: Insert, MarkRunning and Persist, nobody else.
LEMMA StatusWrites ==
  ASSUME IInv, [Next]_vars, NEW i \in Job
  PROVE  \/ status'[i] = status[i]
         \/ pc[i] = "idle" /\ status'[i] = "queued"
         \/ pc[i] = "mark" /\ status'[i] = "running"
         \/ pc[i] = "persist" /\ status'[i] = verdict[i]
<1> USE DEF IInv, TypeOK, tables, memory, history, Goto
<1>1. ASSUME NEW j \in Job, NEW n \in Name \cup {NoName}, Insert(j, n)
      PROVE  status'[i] = status[i] \/ (pc[i] = "idle" /\ status'[i] = "queued")
  BY <1>1 DEF Insert
<1>2. ASSUME NEW j \in Job, MarkRunning(j)
      PROVE  status'[i] = status[i] \/ (pc[i] = "mark" /\ status'[i] = "running")
  BY <1>2 DEF MarkRunning, UpdateRow
<1>3. ASSUME NEW j \in Job, Persist(j)
      PROVE  status'[i] = status[i] \/ (pc[i] = "persist" /\ status'[i] = verdict[i])
  BY <1>3 DEF Persist, UpdateRow
<1>4. ASSUME NEW j \in Job, Announce(j) \/ Output(j) \/ Report(j) PROVE UNCHANGED status
  BY <1>4 DEF Announce, Output, Report, AddLog
<1>5. ASSUME NEW j \in Job,
             \/ Publish(j) \/ Lock(j) \/ Begin(j) \/ (\E r \in {"ok", "error"} : Return(j, r))
             \/ Decide(j) \/ Unlock(j) \/ Unregister(j)
      PROVE UNCHANGED status
  BY <1>5 DEF Publish, Lock, Begin, Return, Decide, Unlock, Unregister
<1>6. ASSUME NEW c \in Caller, CancelJob(c) PROVE UNCHANGED status
  BY <1>6, CancelFrame
<1>7. CASE Crash \/ Start \/ UNCHANGED vars
  BY <1>7 DEF Crash, Start, vars
<1> QED
  BY <1>1, <1>2, <1>3, <1>4, <1>5, <1>6, <1>7 DEF Next, Enqueue, Run, Body

\* A step leaves a row as it is or moves it forward.
LEMMA RowsGoForward == IInv /\ [Next]_vars => ForwardStep
<1> SUFFICES ASSUME IInv, [Next]_vars, NEW i \in Job
             PROVE  status'[i] = status[i] \/ status'[i] \in Later(status[i])
  BY DEF ForwardStep
<1>1. CASE pc[i] = "idle" /\ status'[i] = "queued"
  BY <1>1 DEF IInv, RowFollowsPC, Later
<1>2. CASE pc[i] = "mark" /\ status'[i] = "running"
  BY <1>2 DEF IInv, RowFollowsPC, Later
<1>3. CASE pc[i] = "persist" /\ status'[i] = verdict[i]
  BY <1>3 DEF IInv, RowFollowsPC, VerdictFollowsBody, Later, Critical
<1> QED
  BY <1>1, <1>2, <1>3, StatusWrites

\* A row goes forward only, through crashes, restarts, refused writes and
\* late cancels; a terminal row is never written again.
THEOREM ForwardOnly == Spec => StatusMovesForward
BY RowsGoForward, Invariance, PTL DEF Spec, StatusMovesForward

\* Who writes the log of a job: its own goroutine, at three places.
LEMMA LogWrites ==
  ASSUME IInv, [Next]_vars, NEW i \in Job
  PROVE  \/ jobLogs'[i] = jobLogs[i]
         \/ Announce(i) \/ Output(i) \/ Report(i)
<1> USE DEF tables, memory, history, Goto
<1>1. ASSUME NEW j \in Job, Announce(j) \/ Output(j) \/ Report(j), i # j
      PROVE  jobLogs'[i] = jobLogs[i]
  <2>1. jobLogs' = jobLogs \/ \E line : jobLogs' = [jobLogs EXCEPT ![j] = Append(@, line)]
    BY <1>1 DEF Announce, Output, Report, AddLog
  <2> QED
    BY <1>1, <2>1 DEF IInv, TypeOK
<1>2. ASSUME NEW j \in Job, MarkRunning(j) \/ Persist(j) PROVE UNCHANGED jobLogs
  BY <1>2 DEF MarkRunning, Persist, UpdateRow
<1>3. ASSUME NEW j \in Job,
             \/ Enqueue(j) \/ Lock(j) \/ Begin(j) \/ (\E r \in {"ok", "error"} : Return(j, r))
             \/ Decide(j) \/ Unlock(j) \/ Unregister(j)
      PROVE UNCHANGED jobLogs
  BY <1>3 DEF Enqueue, Insert, Publish, Lock, Begin, Return, Decide, Unlock, Unregister
<1>4. ASSUME NEW c \in Caller, CancelJob(c) PROVE UNCHANGED jobLogs
  BY <1>4, CancelFrame
<1>5. CASE Crash \/ Start \/ UNCHANGED vars
  BY <1>5 DEF Crash, Start, vars
<1> QED
  BY <1>1, <1>2, <1>3, <1>4, <1>5 DEF Next, Run, Body

\* The log of a job whose row is terminal is complete.
LEMMA LogRests == IInv /\ [Next]_vars => LogStep
<1> SUFFICES ASSUME IInv, [Next]_vars, NEW i \in Job, status[i] \in Terminal
             PROVE  jobLogs'[i] = jobLogs[i]
  BY DEF LogStep
<1>1. pc[i] \notin {"announce", "body", "report"}
  BY DEF IInv, RowFollowsPC, Critical, Terminal
<1> QED
  BY <1>1, LogWrites DEF Announce, Output, Report, Goto

\* A reader that sees a terminal row and then reads the log has all of it.
THEOREM LogComplete == Spec => LogEndsBeforeStatus
BY LogRests, Invariance, PTL DEF Spec, LogEndsBeforeStatus

-----------------------------------------------------------------------------
(* Two invariants that stand on IInv: the last line, and CancelJob. *)

\* What a step never takes back.
LEMMA Forever ==
  ASSUME IInv, [Next]_vars, NEW i \in Job
  PROVE  /\ i \in signalled => i \in signalled'
         /\ i \in lost => i \in lost'
         /\ pc[i] = "dead" => pc'[i] = "dead"
<1> USE DEF IInv, TypeOK, tables, memory, history, Goto
<1>1. ASSUME NEW j \in Job, Enqueue(j) \/ Lock(j) \/ Begin(j) \/ Decide(j) \/ Unlock(j) \/ Unregister(j)
      PROVE  UNCHANGED <<signalled, lost>> /\ (pc[i] = "dead" => pc'[i] = "dead")
  BY <1>1 DEF Enqueue, Insert, Publish, Lock, Begin, Decide, Unlock, Unregister
<1>2. ASSUME NEW j \in Job, MarkRunning(j) \/ Announce(j) \/ Report(j) \/ Persist(j)
      PROVE  UNCHANGED signalled /\ lost \subseteq lost' /\ (pc[i] = "dead" => pc'[i] = "dead")
  BY <1>2 DEF MarkRunning, Announce, Report, Persist, UpdateRow, AddLog, WriteRefused
<1>3. ASSUME NEW j \in Job, Body(j)
      PROVE  UNCHANGED signalled /\ lost \subseteq lost' /\ (pc[i] = "dead" => pc'[i] = "dead")
  BY <1>3 DEF Body, Output, Return, AddLog, WriteRefused
<1>4. ASSUME NEW c \in Caller, CancelJob(c)
      PROVE  signalled \subseteq signalled' /\ UNCHANGED <<lost, pc>>
  BY <1>4, CancelFrame
<1>5. CASE Crash
  BY <1>5 DEF Crash, Live, Critical
<1>6. CASE Start \/ UNCHANGED vars
  BY <1>6 DEF Start, vars
<1> QED
  BY <1>1, <1>2, <1>3, <1>4, <1>5, <1>6 DEF Next, Run

\* How a goroutine comes to Persist, with the verdict it will write.
LEMMA BeforePersist ==
  ASSUME IInv, [Next]_vars, NEW i \in Job, pc'[i] = "persist"
  PROVE  verdict'[i] = verdict[i] /\ (pc[i] = "persist" \/ Report(i))
<1> USE DEF IInv, TypeOK, tables, memory, history, Goto
<1>1. ASSUME NEW j \in Job, Enqueue(j) \/ Lock(j) \/ Begin(j) \/ Unlock(j) \/ Unregister(j)
      PROVE  UNCHANGED verdict /\ pc[i] = "persist"
  BY <1>1 DEF Enqueue, Insert, Publish, Lock, Begin, Unlock, Unregister
<1>2. ASSUME NEW j \in Job, MarkRunning(j) \/ Announce(j) \/ Persist(j)
      PROVE  UNCHANGED verdict /\ pc[i] = "persist"
  BY <1>2 DEF MarkRunning, Announce, Persist
<1>3. ASSUME NEW j \in Job, Report(j)
      PROVE  UNCHANGED verdict /\ (pc[i] = "persist" \/ Report(i))
  <2>1. CASE i = j
    BY <1>3, <2>1 DEF Report
  <2>2. CASE i # j
    BY <1>3, <2>2 DEF Report
  <2> QED
    BY <2>1, <2>2
<1>4. ASSUME NEW j \in Job, Body(j) PROVE UNCHANGED verdict /\ pc[i] = "persist"
  BY <1>4 DEF Body, Output, Return
<1>5. ASSUME NEW j \in Job, Decide(j) PROVE verdict'[i] = verdict[i] /\ pc[i] = "persist"
  <2>1. i # j
    BY <1>5 DEF Decide
  <2> QED
    BY <1>5, <2>1 DEF Decide
<1>6. ASSUME NEW c \in Caller, CancelJob(c) PROVE UNCHANGED <<verdict, pc>>
  BY <1>6, CancelFrame
<1>7. CASE Crash
  BY <1>7 DEF Crash, Live, Critical
<1>8. CASE Start \/ UNCHANGED vars
  BY <1>8 DEF Start, vars
<1> QED
  BY <1>1, <1>2, <1>3, <1>4, <1>5, <1>6, <1>7, <1>8 DEF Next, Run

\* whether the outcome s of j must be in its log, and whether it is
MustBeLogged(j, s) == j \notin lost /\ (s = "cancelled" \/ j \notin signalled)
EndsWith(log, s) == log # <<>> /\ log[Len(log)] = s

\* the last line is there from Report on, before the row is terminal
Logged ==
  \A j \in Job :
    /\ pc[j] = "persist" /\ MustBeLogged(j, verdict[j]) => EndsWith(jobLogs[j], verdict[j])
    /\ status[j] \in Terminal /\ MustBeLogged(j, status[j]) => EndsWith(jobLogs[j], status[j])

\* "Job cancelled" is written although the context is done; any other last
\* line is written because no cancel has come.
LEMMA ReportLogs ==
  ASSUME IInv, NEW i \in Job, Report(i), i \notin lost',
         verdict[i] = "cancelled" \/ i \notin signalled
  PROVE  EndsWith(jobLogs'[i], verdict[i])
<1>1. i \notin ctxDone \/ verdict[i] = "cancelled"
  BY DEF IInv, VerdictFollowsBody
<1>2. jobLogs' = [jobLogs EXCEPT ![i] = Append(@, verdict[i])]
  BY <1>1 DEF Report, AddLog, WriteRefused
<1>3. jobLogs[i] \in Seq(Line) /\ verdict[i] \in Line /\ jobLogs'[i] = Append(jobLogs[i], verdict[i])
  BY <1>2 DEF IInv, TypeOK, VerdictFollowsBody, Report, Goto, Line
<1> QED
  BY <1>3 DEF EndsWith

\* Every step keeps Logged.
LEMMA LoggedStep == IInv /\ Logged /\ [Next]_vars => Logged'
<1> SUFFICES ASSUME IInv, Logged, [Next]_vars, NEW i \in Job
             PROVE  /\ pc'[i] = "persist" /\ MustBeLogged(i, verdict[i])'
                         => EndsWith(jobLogs'[i], verdict'[i])
                    /\ status'[i] \in Terminal /\ MustBeLogged(i, status[i])'
                         => EndsWith(jobLogs'[i], status'[i])
  BY DEF Logged
<1>1. ASSUME pc'[i] = "persist", MustBeLogged(i, verdict[i])'
      PROVE  EndsWith(jobLogs'[i], verdict'[i])
  <2>1. verdict'[i] = verdict[i] /\ (pc[i] = "persist" \/ Report(i))
    BY <1>1, BeforePersist
  <2>2. MustBeLogged(i, verdict[i]) /\ i \notin lost'
    BY <1>1, <2>1, Forever DEF MustBeLogged
  <2>3. CASE Report(i)
    BY <2>1, <2>2, <2>3, ReportLogs DEF MustBeLogged
  <2>4. CASE pc[i] = "persist"
    <3>1. jobLogs'[i] = jobLogs[i]
      BY <2>4, LogWrites DEF Announce, Output, Report, Goto
    <3> QED
      BY <2>1, <2>2, <2>4, <3>1 DEF Logged
  <2> QED
    BY <2>1, <2>3, <2>4
<1>2. ASSUME status'[i] \in Terminal, MustBeLogged(i, status[i])'
      PROVE  EndsWith(jobLogs'[i], status'[i])
  <2>1. MustBeLogged(i, status'[i])
    BY <1>2, Forever DEF MustBeLogged
  <2>2. CASE status'[i] = status[i]
    <3>1. jobLogs'[i] = jobLogs[i]
      BY <1>2, <2>2, LogRests DEF LogStep
    <3> QED
      BY <1>2, <2>1, <2>2, <3>1 DEF Logged
  <2>3. CASE pc[i] = "persist" /\ status'[i] = verdict[i]
    <3>1. jobLogs'[i] = jobLogs[i]
      BY <2>3, LogWrites DEF Announce, Output, Report, Goto
    <3> QED
      BY <2>1, <2>3, <3>1 DEF Logged
  <2> QED
    BY <1>2, <2>2, <2>3, StatusWrites DEF Terminal
<1> QED
  BY <1>1, <1>2

\* The log of a finished job ends with its outcome, unless a write was refused
\* or a cancel came after the outcome was decided.
THEOREM OutcomeInLog == Spec => []OutcomeIsLogged
<1>1. Init => Logged
  BY DEF Init, Logged, Terminal
<1>2. Logged => OutcomeIsLogged
  BY DEF Logged, OutcomeIsLogged, MustBeLogged, EndsWith
<1> QED
  BY <1>1, <1>2, LoggedStep, Invariance, PTL DEF Spec

\* what a CancelJob that has read "running" may rely on
Remembered ==
  \A c \in Caller :
    LET j == call[c].job IN
    /\ call[c].pc = "poll" => j \in signalled
    /\ call[c].read = "running" =>
         /\ j \in Job
         /\ call[c].pc = "signal" => status[j] \in {"running"} \cup Terminal
         /\ call[c].pc = "idle" /\ call[c].reply # "error"
              => j \in signalled \/ status[j] \in Terminal \/ j \in lost \/ pc[j] = "dead"

\* A step of others leaves what a request remembers true.
LEMMA RememberedKept ==
  ASSUME IInv, Remembered, [Next]_vars, NEW c \in Caller, call'[c] = call[c]
  PROVE  LET j == call[c].job IN
         /\ call[c].pc = "poll" => j \in signalled'
         /\ call[c].read = "running" =>
              /\ j \in Job
              /\ call[c].pc = "signal" => status'[j] \in {"running"} \cup Terminal
              /\ call[c].pc = "idle" /\ call[c].reply # "error"
                   => j \in signalled' \/ status'[j] \in Terminal \/ j \in lost' \/ pc'[j] = "dead"
<1> DEFINE j == call[c].job
<1>1. call[c].pc = "poll" => j \in Job
  BY DEF IInv, CallHasJob
<1>2. ASSUME j \in Job, status[j] \in {"running"} \cup Terminal
      PROVE  /\ status'[j] \in {"running"} \cup Terminal
             /\ status[j] \in Terminal => status'[j] \in Terminal
  BY <1>2, RowsGoForward DEF ForwardStep, Later, Terminal
<1> QED
  BY <1>1, <1>2, Forever DEF Remembered

\* A request that is answered after it read "running" has cancelled the job, or
\* the job needs no cancel.
LEMMA SignalFinds ==
  ASSUME IInv, NEW j \in Job, status[j] \in {"running"} \cup Terminal, j \notin running
  PROVE  status[j] \in Terminal \/ j \in lost \/ pc[j] = "dead"
BY DEF IInv, TypeOK, RowFollowsPC, PublishedWhileLive, PC, Live, Critical, Terminal

\* The steps of a request itself.
LEMMA RequestStep ==
  ASSUME IInv, Remembered, NEW c \in Caller, CancelJob(c)
  PROVE  Remembered'
<1> DEFINE Good(d) ==
      LET j == call[d].job IN
      /\ call[d].pc = "poll" => j \in signalled
      /\ call[d].read = "running" =>
           /\ j \in Job
           /\ call[d].pc = "signal" => status[j] \in {"running"} \cup Terminal
           /\ call[d].pc = "idle" /\ call[d].reply # "error"
                => j \in signalled \/ status[j] \in Terminal \/ j \in lost \/ pc[j] = "dead"
<1>t. call \in [Caller -> [pc : CallPC, job : Job \cup {NoJob}, read : Seen, reply : Seen]]
  BY DEF IInv, TypeOK
<1>f. UNCHANGED <<status, pc, lost>> /\ signalled \subseteq signalled'
  BY CancelFrame DEF tables
<1>1. ASSUME NEW d \in Caller, d # c PROVE Good(d)'
  <2>1. call'[d] = call[d]
    BY <1>1, <1>t DEF CancelJob, CancelRead, CancelSignal, CancelPoll, CancelAbandon, SetCall
  <2> QED
    BY <1>f, <2>1 DEF Remembered
<1>2. ASSUME NEW j \in Job, CancelRead(c, j) PROVE Good(c)'
  BY <1>2, <1>t, <1>f DEF CancelRead, SetCall, Terminal
<1>3. ASSUME CancelSignal(c) PROVE Good(c)'
  <2>1. CASE call[c].job \in running
    BY <1>3, <1>t, <1>f, <2>1 DEF CancelSignal, SetCall, IInv, TypeOK
  <2>2. CASE call[c].job \notin running
    <3>1. /\ call'[c].pc = "idle" /\ call'[c].job = call[c].job
          /\ call'[c].read = call[c].read /\ call[c].pc = "signal"
      BY <1>3, <1>t, <2>2 DEF CancelSignal, SetCall
    <3>2. call[c].job \in Job
      BY <3>1 DEF IInv, CallHasJob
    <3>3. call[c].read = "running"
            => LET j == call[c].job IN status[j] \in Terminal \/ j \in lost \/ pc[j] = "dead"
      BY <2>2, <3>1, <3>2, SignalFinds DEF Remembered
    <3> QED
      BY <1>f, <3>1, <3>2, <3>3
  <2> QED
    BY <2>1, <2>2
<1>4. ASSUME CancelPoll(c) \/ CancelAbandon(c) PROVE Good(c)'
  <2>1. /\ call[c].pc = "poll" /\ call'[c].pc = "idle" /\ call'[c].job = call[c].job
        /\ call'[c].read = call[c].read
    BY <1>4, <1>t DEF CancelPoll, CancelAbandon, SetCall
  <2>2. call[c].job \in Job /\ call[c].job \in signalled
    BY <2>1 DEF IInv, CallHasJob, Remembered
  <2> QED
    BY <1>f, <2>1, <2>2
<1>5. Good(c)'
  BY <1>2, <1>3, <1>4 DEF CancelJob
<1>6. \A d \in Caller : Good(d)'
  BY <1>1, <1>5
<1> QED
  BY <1>6 DEF Remembered

\* Every step keeps Remembered.
LEMMA RememberedStep == IInv /\ Remembered /\ [Next]_vars => Remembered'
<1> SUFFICES ASSUME IInv, Remembered, [Next]_vars PROVE Remembered'
  OBVIOUS
<1>1. CASE call' = call
  BY <1>1, RememberedKept DEF Remembered
<1>2. ASSUME NEW c \in Caller, CancelJob(c) PROVE Remembered'
  BY <1>2, RequestStep
<1>3. CASE Crash
  <2> SUFFICES ASSUME NEW c \in Caller, call'[c] # call[c]
               PROVE  /\ call'[c].pc = "idle" /\ call'[c].reply = "error"
                      /\ call'[c].read = "running" => call'[c].job \in Job
    BY RememberedKept DEF Remembered
  <2>1. call[c].pc # "idle"
    BY <1>3 DEF Crash
  <2>2. call'[c] = [pc |-> "idle", job |-> call[c].job, read |-> call[c].read, reply |-> "error"]
    BY <1>3, <2>1 DEF Crash
  <2>3. call[c].job \in Job
    BY <2>1 DEF IInv, CallHasJob
  <2> QED
    BY <2>2, <2>3
<1>4. ASSUME NEW j \in Job, Enqueue(j) \/ Run(j) PROVE UNCHANGED call
  BY <1>4 DEF Enqueue, Insert, Publish, Run, Lock, MarkRunning, Announce, Begin, Body, Output,
              Return, Decide, Report, Persist, Unlock, Unregister
<1>5. CASE Start \/ UNCHANGED vars
  BY <1>1, <1>5 DEF Start, vars
<1> QED
  BY <1>1, <1>2, <1>3, <1>4, <1>5 DEF Next

\* A CancelJob that saw the job running was not in vain, whatever the job, a
\* crash and other requests did between its calls.
THEOREM CancelArrives == Spec => []CancelOfRunningArrives
<1>1. Init => Remembered
  BY DEF Init, Remembered
<1>2. Remembered => CancelOfRunningArrives
  BY DEF Remembered, CancelOfRunningArrives
<1> QED
  BY <1>1, <1>2, RememberedStep, Invariance, PTL DEF Spec

-----------------------------------------------------------------------------
(* The runner implements JobLifecycle. *)

\* A step that changes no phase and none of the two columns is a stutter of
\* the abstract specification.
LEMMA Stutter ==
  ASSUME UNCHANGED <<status, deployment>>, \A k \in Job : Phase(k)' = Phase(k)
  PROVE  UNCHANGED Lifecycle!vars
BY DEF Lifecycle!vars

\* Every step of the runner is a step of JobLifecycle or a stutter.
LEMMA LifecycleStep == IInv /\ [Next]_vars => [Lifecycle!Next]_Lifecycle!vars
<1> SUFFICES ASSUME IInv, [Next]_vars PROVE [Lifecycle!Next]_Lifecycle!vars
  OBVIOUS
<1> USE DEF Goto, tables, memory, history
<1>t. TypeOK
  BY DEF IInv
<1>1. ASSUME NEW j \in Job, NEW n \in Name \cup {NoName}, Insert(j, n)
      PROVE  Lifecycle!Submit(j, n)
  <2>1. \A k \in Job : Phase(k)' = Phase(k)
    BY <1>1, <1>t DEF Insert, TypeOK, Phase
  <2>2. status[j] = "none"
    BY <1>1 DEF Insert, IInv, RowFollowsPC
  <2> QED
    BY <1>1, <2>1, <2>2 DEF Insert, Lifecycle!Submit
<1>2. ASSUME NEW j \in Job,
             Publish(j) \/ Lock(j) \/ Announce(j) \/ Output(j) \/ Decide(j) \/ Report(j)
             \/ Unregister(j)
      PROVE  UNCHANGED Lifecycle!vars
  <2>1. UNCHANGED <<status, deployment>>
    BY <1>2 DEF Publish, Lock, Announce, Output, Decide, Report, Unregister, AddLog
  <2>2. \A k \in Job : Phase(k)' = Phase(k)
    BY <1>2, <1>t DEF Publish, Lock, Announce, Output, Decide, Report, Unregister,
                      TypeOK, Phase
  <2> QED
    BY <2>1, <2>2, Stutter
<1>3. ASSUME NEW j \in Job, MarkRunning(j)
      PROVE  Lifecycle!ShowRunning(j) \/ UNCHANGED Lifecycle!vars
  <2>1. \A k \in Job : Phase(k)' = Phase(k)
    BY <1>3, <1>t DEF MarkRunning, TypeOK, Phase
  <2>2. status[j] = "queued" /\ Phase(j) = "waiting"
    BY <1>3 DEF MarkRunning, IInv, RowFollowsPC, Phase
  <2>3. CASE UNCHANGED status
    BY <1>3, <2>1, <2>3, Stutter DEF MarkRunning, UpdateRow
  <2>4. CASE status' = [status EXCEPT ![j] = "running"]
    BY <1>3, <2>1, <2>2, <2>4 DEF MarkRunning, UpdateRow, Lifecycle!ShowRunning
  <2> QED
    BY <1>3, <2>3, <2>4 DEF MarkRunning, UpdateRow
<1>4. ASSUME NEW j \in Job, Begin(j)
      PROVE  Lifecycle!BeginBody(j) \/ Lifecycle!SkipBody(j)
  <2>1. status[j] \in {"queued", "running"} /\ Phase(j) = "waiting"
    BY <1>4 DEF Begin, IInv, RowFollowsPC, Critical, Phase
  <2>2. UNCHANGED <<status, deployment>>
    BY <1>4 DEF Begin
  <2>3. Lifecycle!Free(j)
    <3>1. pc[j] \in Critical
      BY <1>4 DEF Begin, Critical
    <3>2. \A k \in Job : Phase(k) \in {"active", "settling"} => pc[k] \in Critical
      BY <1>t DEF Phase, Critical
    <3> QED
      BY <3>1, <3>2 DEF IInv, HoldsLock, Lifecycle!Free
  <2>4. CASE j \in ctxDone
    <3>1. [k \in Job |-> Phase(k)]' = [[k \in Job |-> Phase(k)] EXCEPT ![j] = "settling"]
      BY <1>4, <1>t, <2>4 DEF Begin, TypeOK, Phase
    <3> QED
      BY <2>1, <2>2, <2>3, <3>1 DEF Lifecycle!SkipBody, Lifecycle!Move, Lifecycle!Open
  <2>5. CASE j \notin ctxDone
    <3>1. [k \in Job |-> Phase(k)]' = [[k \in Job |-> Phase(k)] EXCEPT ![j] = "active"]
      BY <1>4, <1>t, <2>5 DEF Begin, TypeOK, Phase
    <3> QED
      BY <2>1, <2>2, <2>3, <3>1 DEF Lifecycle!BeginBody, Lifecycle!Move, Lifecycle!Open
  <2> QED
    BY <2>4, <2>5
<1>5. ASSUME NEW j \in Job, NEW r \in {"ok", "error"}, Return(j, r) PROVE Lifecycle!EndBody(j)
  <2>1. status[j] \in {"queued", "running"} /\ Phase(j) = "active"
    BY <1>5 DEF Return, IInv, RowFollowsPC, Critical, Phase
  <2>2. [k \in Job |-> Phase(k)]' = [[k \in Job |-> Phase(k)] EXCEPT ![j] = "settling"]
    BY <1>5, <1>t DEF Return, TypeOK, Phase
  <2> QED
    BY <1>5, <2>1, <2>2 DEF Return, Lifecycle!EndBody, Lifecycle!Move, Lifecycle!Open
<1>6. ASSUME NEW j \in Job, Persist(j)
      PROVE  (\E s \in Terminal : Lifecycle!Settle(j, s)) \/ UNCHANGED Lifecycle!vars
  <2>1. \A k \in Job : Phase(k)' = Phase(k)
    BY <1>6, <1>t DEF Persist, TypeOK, Phase
  <2>2. status[j] \in {"queued", "running"} /\ Phase(j) = "settling" /\ verdict[j] \in Terminal
    BY <1>6 DEF Persist, IInv, RowFollowsPC, VerdictFollowsBody, Critical, Phase
  <2>3. CASE UNCHANGED status
    BY <1>6, <2>1, <2>3, Stutter DEF Persist, UpdateRow
  <2>4. CASE status' = [status EXCEPT ![j] = verdict[j]]
    BY <1>6, <2>1, <2>2, <2>4 DEF Persist, UpdateRow, Lifecycle!Settle, Lifecycle!Open
  <2> QED
    BY <1>6, <2>3, <2>4 DEF Persist, UpdateRow
<1>7. ASSUME NEW c \in Caller, CancelJob(c) PROVE UNCHANGED Lifecycle!vars
  <2>1. UNCHANGED <<status, deployment, pc>>
    BY <1>7, CancelFrame
  <2> QED
    BY <2>1, Stutter DEF Phase
<1>8. CASE Crash
  <2>1. ASSUME NEW k \in Job
        PROVE  Phase(k)' = IF status[k] = "none" THEN Phase(k) ELSE "over"
    BY <1>8, <1>t DEF Crash, IInv, RowFollowsPC, TypeOK, PC, Live, Critical, Phase
  <2>2. UNCHANGED <<status, deployment>>
    BY <1>8 DEF Crash
  <2>3. Lifecycle!Die
    BY <2>1, <2>2 DEF Lifecycle!Die
  <2> QED
    BY <2>3 DEF Lifecycle!Next
<1>9. CASE Start \/ UNCHANGED vars
  <2>1. UNCHANGED <<status, deployment, pc>>
    BY <1>9 DEF Start, vars
  <2> QED
    BY <2>1, Stutter DEF Phase
<1>10. ASSUME NEW j \in Job, Unlock(j) PROVE Lifecycle!Release(j)
  <2>1. Phase(j) = "settling"
    BY <1>10 DEF Unlock, Phase
  <2>2. [k \in Job |-> Phase(k)]' = [[k \in Job |-> Phase(k)] EXCEPT ![j] = "over"]
    BY <1>10, <1>t DEF Unlock, TypeOK, Phase
  <2> QED
    BY <1>10, <2>1, <2>2 DEF Unlock, Lifecycle!Release, Lifecycle!Move
<1> QED
  BY <1>1, <1>2, <1>3, <1>4, <1>5, <1>6, <1>7, <1>8, <1>9, <1>10
     DEF Next, Enqueue, Run, Body, Lifecycle!Next, Terminal, Lifecycle!Terminal

\* The detailed runner implements the abstract one: mutexes, contexts, the map
\* of cancel functions and the separate writes of a row are invisible to a
\* client, who sees bodies that exclude each other and rows that go forward.
THEOREM RunnerImplementsLifecycle == Spec => ImplementsLifecycle
<1>1. Init => Lifecycle!Init
  BY DEF Init, Lifecycle!Init, Phase
<1> QED
  BY <1>1, LifecycleStep, Invariance, PTL DEF Spec, ImplementsLifecycle, Lifecycle!Spec

-----------------------------------------------------------------------------
(* Followers and the runner. *)

\* A step of a follower is no step of the runner.
LEMMA WatchIsRunner == [WatchNext]_watchVars => [Next]_vars
<1>1. ASSUME NEW w \in Watcher,
             Stream(w) \/ Leave(w) \/ \E j \in Job, from \in 0..MaxAfter : WatchJob(w, j, from)
      PROVE  UNCHANGED vars
  BY <1>1 DEF Stream, SendLogs, SendFinal, Tick, Leave, WatchJob
<1> QED
  BY <1>1 DEF WatchNext, watchVars, CrashStreams, Next

\* Followers disturb nothing: whatever holds of the runner holds with them.
THEOREM FollowersAreHarmless == WatchSpec => Spec
<1>1. WatchInit => Init
  BY DEF WatchInit
<1> QED
  BY <1>1, WatchIsRunner, PTL DEF WatchSpec, Spec

\* The steps of one stream, from its record v to its record u.
Breaks(v, u) ==
  /\ v.pc \in Open
  /\ u.pc = "closed" /\ u.exit = "error"
  /\ u.job = v.job /\ u.from = v.from /\ u.late = v.late /\ u.after = v.after /\ u.got = v.got
  /\ u.final = v.final
Begins(v, u) ==
  /\ v.pc = "idle" /\ UNCHANGED vars
  /\ u.pc = "logs" /\ u.job \in Job /\ u.from \in Nat /\ u.after = u.from
  /\ u.late \in BOOLEAN /\ (u.late => status[u.job] \in Terminal)
  /\ u.got = v.got /\ u.final = v.final /\ u.exit = v.exit
Sends(v, u) ==
  /\ v.pc = "logs" /\ UNCHANGED vars
  /\ u.pc = "status"
  /\ u.got = v.got \o LogsAfter(v.job, v.after)
  /\ u.after = v.after + Len(LogsAfter(v.job, v.after))
  /\ u.job = v.job /\ u.from = v.from /\ u.late = v.late /\ u.final = v.final /\ u.exit = v.exit
Finishes(v, u) ==
  /\ v.pc = "status" /\ UNCHANGED vars /\ status[v.job] \in Terminal
  /\ u.pc = "closed" /\ u.final = status[v.job] /\ u.exit = ExitOf(status[v.job])
  /\ u.job = v.job /\ u.from = v.from /\ u.late = v.late /\ u.after = v.after /\ u.got = v.got
Goes(v, u) ==
  /\ UNCHANGED vars
  /\ \/ v.pc = "status" /\ status[v.job] \notin Terminal /\ u.pc = "wait"
     \/ v.pc = "wait" /\ u.pc = "logs"
  /\ u.job = v.job /\ u.from = v.from /\ u.late = v.late /\ u.after = v.after /\ u.got = v.got
  /\ u.final = v.final /\ u.exit = v.exit

Stays(v, u) == u = v \/ Breaks(v, u)
StreamStep(v, u) ==
  Stays(v, u) \/ Begins(v, u) \/ Sends(v, u) \/ Finishes(v, u) \/ Goes(v, u)

\* Every step of the whole is one of these for each stream, or none.
LEMMA StreamSteps ==
  ASSUME WatchTypeOK, [WatchNext]_watchVars, NEW w \in Watcher
  PROVE  StreamStep(watch[w], watch'[w])
<1> DEFINE v == watch[w]
<1> DEFINE u == watch'[w]
<1>t. watch \in [Watcher ->
        [pc : {"idle", "closed"} \cup Open, job : Job \cup {NoJob}, from : Nat, late : BOOLEAN,
         after : Nat, got : Seq(Line), final : {"none"} \cup Terminal,
         exit : {"none", "ok", "error"}]]
  BY DEF WatchTypeOK
<1>1. ASSUME NEW j \in Job, NEW from \in 0..MaxAfter, WatchJob(w, j, from) PROVE Begins(v, u)
  BY <1>1, <1>t, MaxAfterIsNat DEF WatchJob, Begins
<1>2. ASSUME SendLogs(w) PROVE Sends(v, u)
  BY <1>2, <1>t DEF SendLogs, Sends
<1>3. ASSUME SendFinal(w) PROVE Finishes(v, u) \/ Goes(v, u)
  BY <1>3, <1>t DEF SendFinal, Finishes, Goes
<1>4. ASSUME Tick(w) PROVE Goes(v, u)
  BY <1>4, <1>t DEF Tick, Goes
<1>5. ASSUME Leave(w) PROVE Breaks(v, u)
  BY <1>5, <1>t DEF Leave, Broken, Breaks
<1>6. ASSUME CrashStreams PROVE Stays(v, u)
  <2>1. u = Broken(v)
    BY <1>6 DEF CrashStreams
  <2> QED
    BY <2>1, <1>t DEF Broken, Stays, Breaks
<1>7. ASSUME NEW x \in Watcher, x # w,
             Stream(x) \/ Leave(x) \/ \E j \in Job, from \in 0..MaxAfter : WatchJob(x, j, from)
      PROVE  u = v
  BY <1>7, <1>t DEF Stream, SendLogs, SendFinal, Tick, Leave, WatchJob
<1>8. ASSUME UNCHANGED watch PROVE u = v
  BY <1>8
<1> HIDE DEF u, v
<1>9. Stays(v, u) \/ Begins(v, u) \/ Sends(v, u) \/ Finishes(v, u) \/ Goes(v, u)
  BY <1>1, <1>2, <1>3, <1>4, <1>5, <1>6, <1>7, <1>8 DEF WatchNext, Stream, watchVars, Stays
<1> QED
  BY <1>9 DEF StreamStep, u, v

-----------------------------------------------------------------------------
(* Sequences. *)

\* The lines after a position, and what comes of a log that has grown by one.
LEMMA LogParts ==
  ASSUME NEW log \in Seq(Line), NEW a \in Nat
  PROVE  /\ SubSeq(log, a + 1, Len(log)) \in Seq(Line)
         /\ Len(SubSeq(log, a + 1, Len(log))) = IF a < Len(log) THEN Len(log) - a ELSE 0
<1>1. \A i \in a + 1 .. Len(log) : log[i] \in Line
  OBVIOUS
<1> QED
  BY <1>1, SubSeqProperties, Z3

\* A log that has grown by one line has the same parts before it.
LEMMA PartsStay ==
  ASSUME NEW log \in Seq(Line), NEW line \in Line, NEW a \in Nat, NEW k \in 0..Len(log)
  PROVE  SubSeq(Append(log, line), a + 1, k) = SubSeq(log, a + 1, k)
OBVIOUS

\* What was received and the lines after it make one part of the log.
LEMMA PartsJoin ==
  ASSUME NEW log \in Seq(Line), NEW a \in Nat, NEW k \in 0..Len(log),
         NEW got, got = SubSeq(log, a + 1, k)
  PROVE  got \o SubSeq(log, a + Len(got) + 1, Len(log)) = SubSeq(log, a + 1, Len(log))
<1>1. CASE a < k
  <2>1. Len(got) = k - a
    <3>1. \A i \in a + 1 .. k : log[i] \in Line
      OBVIOUS
    <3> QED
      BY <1>1, <3>1, SubSeqProperties
  <2>2. /\ a + 1 \in 1 .. Len(log) + 1 /\ k \in (a + 1) - 1 .. Len(log) /\ Len(log) \in k .. Len(log)
    BY <1>1
  <2>3. SubSeq(log, a + 1, k) \o SubSeq(log, k + 1, Len(log)) = SubSeq(log, a + 1, Len(log))
    BY <2>2, ConcatAdjacentSubSeq
  <2>4. a + Len(got) + 1 = k + 1
    BY <2>1
  <2> QED
    BY <2>3, <2>4, Zenon
<1>2. CASE k <= a
  <2>1. got = <<>>
    <3>1. k < a + 1 /\ a + 1 \in Int /\ k \in Int
      BY <1>2
    <3> QED
      BY <3>1, SubSeqEmpty
  <2>2. SubSeq(log, a + 1, Len(log)) \in Seq(Line)
    BY LogParts
  <2>3. <<>> \o SubSeq(log, a + 1, Len(log)) = SubSeq(log, a + 1, Len(log))
    BY <2>2, ConcatEmptySeq, Zenon
  <2>4. a + Len(got) + 1 = a + 1
    BY <2>1
  <2> QED
    BY <2>1, <2>3, <2>4, Zenon
<1>3. a < k \/ k <= a
  OBVIOUS
<1> QED
  BY <1>1, <1>2, <1>3, Zenon

-----------------------------------------------------------------------------
(* The inductive invariant. *)

\* what was received is a part of the log, and the cursor counts it
Delivered(v, log) ==
  /\ \E k \in 0..Len(log) : v.got = SubSeq(log, v.from + 1, k)
  /\ v.after = v.from + Len(v.got)

\* a late stream that has read the log has all of it
Complete(v, log) ==
  v.late /\ (v.pc \in {"status", "wait"} \/ v.final # "none") /\ v.from <= Len(log)
    => v.after = Len(log)

\* what a stream has learned of the row stays true
Learned(v, s) == (v.exit = "ok" => s = "succeeded") /\ (v.late => s \in Terminal)

StreamOK(v, log, s) == Delivered(v, log) /\ Complete(v, log) /\ Learned(v, s)

Phases(v) ==
  /\ v.pc = "idle" => v.job = NoJob /\ v.got = <<>> /\ v.final = "none" /\ v.exit = "none"
  /\ v.pc \in Open => v.final = "none" /\ v.exit = "none"
  /\ v.pc # "idle" => v.job \in Job

WInv ==
  /\ WatchTypeOK
  /\ \A w \in Watcher :
       /\ Phases(watch[w])
       /\ watch[w].job \in Job
            => StreamOK(watch[w], jobLogs[watch[w].job], status[watch[w].job])

-----------------------------------------------------------------------------
(* Types. *)

\* The lines that a read of the log returns are lines.
LEMMA NewLines ==
  ASSUME IInv, WInv, NEW w \in Watcher, watch[w].pc = "logs"
  PROVE  LET lines == LogsAfter(watch[w].job, watch[w].after) IN
         /\ watch[w].got \o lines \in Seq(Line)
         /\ Len(lines) \in Nat
         /\ watch[w].after + Len(lines) \in Nat
<1>1. watch[w].job \in Job /\ watch[w].after \in Nat /\ watch[w].got \in Seq(Line)
  BY DEF WInv, WatchTypeOK, Phases
<1>2. jobLogs[watch[w].job] \in Seq(Line)
  BY <1>1 DEF IInv, TypeOK
<1>3. LogsAfter(watch[w].job, watch[w].after) \in Seq(Line)
  BY <1>1, <1>2, LogParts DEF LogsAfter
<1> QED
  BY <1>1, <1>3

\* The records of streams keep their fields and types.
LEMMA WatchTypeStep ==
  ASSUME IInv, WInv, [WatchNext]_watchVars
  PROVE  WatchTypeOK'
<1> DEFINE PCs == {"idle", "closed"} \cup Open
<1> DEFINE Jobs == Job \cup {NoJob}
<1> DEFINE Finals == {"none"} \cup Terminal
<1> DEFINE Exits == {"none", "ok", "error"}
<1> DEFINE Bools == BOOLEAN
<1> DEFINE Logs == Seq(Line)
<1> DEFINE Record ==
       [pc : PCs, job : Jobs, from : Nat, late : Bools,
        after : Nat, got : Logs, final : Finals, exit : Exits]
<1>t. watch \in [Watcher -> Record]
  BY DEF WInv, WatchTypeOK
<1>r. TypeOK'
  BY WatchIsRunner, IInvStep DEF IInv
<1>p. {"logs", "status", "wait", "closed"} \subseteq PCs
  BY DEF Open
<1>q. watch' \in [Watcher -> Record] => WatchTypeOK'
  BY <1>r DEF WatchTypeOK
<1>1. ASSUME NEW w \in Watcher, NEW j \in Job, NEW from \in 0..MaxAfter, WatchJob(w, j, from)
      PROVE  watch' \in [Watcher -> Record]
  <2> DEFINE late == status[j] \in Terminal
  <2> DEFINE opened == [watch EXCEPT ![w].pc = "logs", ![w].job = j, ![w].from = from]
  <2>1. watch' = [opened EXCEPT ![w].after = from, ![w].late = late]
    BY <1>1, Zenon DEF WatchJob
  <2>2. "logs" \in PCs /\ j \in Jobs /\ from \in Nat
    BY <1>p, MaxAfterIsNat
  <2>3. late \in Bools
    OBVIOUS
  <2> HIDE DEF late, PCs, Jobs, Finals, Exits, Bools, Logs
  <2>4. opened \in [Watcher -> Record]
    BY <1>t, <2>2
  <2> HIDE DEF opened
  <2> QED
    BY <2>1, <2>2, <2>3, <2>4
<1>2. ASSUME NEW w \in Watcher, SendLogs(w) PROVE watch' \in [Watcher -> Record]
  <2> DEFINE lines == LogsAfter(watch[w].job, watch[w].after)
  <2> DEFINE got == watch[w].got \o lines
  <2> DEFINE after == watch[w].after + Len(lines)
  <2>1. got \in Logs /\ after \in Nat
    BY <1>2, NewLines DEF SendLogs
  <2>2. watch' = [watch EXCEPT ![w].pc = "status", ![w].got = got, ![w].after = after]
    BY <1>2, <1>t DEF SendLogs
  <2>3. "status" \in PCs
    BY <1>p
  <2> HIDE DEF got, after, PCs, Jobs, Finals, Exits, Bools, Logs
  <2> QED
    BY <1>t, <2>1, <2>2, <2>3
<1>3. ASSUME NEW w \in Watcher, SendFinal(w) PROVE watch' \in [Watcher -> Record]
  <2> DEFINE s == status[watch[w].job]
  <2>1. CASE s \in Terminal
    <3>1. ExitOf(s) \in Exits /\ s \in Finals /\ "closed" \in PCs
      BY <1>p, <2>1 DEF ExitOf
    <3>2. watch' = [watch EXCEPT ![w].pc = "closed", ![w].final = s, ![w].exit = ExitOf(s)]
      BY <1>3, <2>1, Zenon DEF SendFinal
    <3> HIDE DEF s, PCs, Jobs, Finals, Exits, Bools, Logs
    <3> QED
      BY <1>t, <3>1, <3>2
  <2>2. CASE s \notin Terminal
    <3>1. watch' = [watch EXCEPT ![w].pc = "wait"]
      BY <1>3, <2>2, Zenon DEF SendFinal
    <3> HIDE DEF s, PCs, Jobs, Finals, Exits, Bools, Logs
    <3> QED
      BY <1>t, <1>p, <3>1
  <2> QED
    BY <2>1, <2>2
<1>4. ASSUME NEW w \in Watcher, Tick(w) PROVE watch' \in [Watcher -> Record]
  <2>1. watch' = [watch EXCEPT ![w].pc = "logs"]
    BY <1>4, Zenon DEF Tick
  <2> HIDE DEF PCs, Jobs, Finals, Exits, Bools, Logs
  <2> QED
    BY <1>t, <1>p, <2>1
<1>5. \A w \in Watcher : Broken(watch[w]) \in Record
  <2> SUFFICES ASSUME NEW w \in Watcher PROVE Broken(watch[w]) \in Record
    OBVIOUS
  <2>1. watch[w] \in Record /\ "error" \in Exits
    BY <1>t
  <2> HIDE DEF PCs, Jobs, Finals, Exits, Bools, Logs
  <2> QED
    BY <2>1, <1>p DEF Broken
<1>6. ASSUME NEW w \in Watcher, Leave(w) PROVE watch' \in [Watcher -> Record]
  <2>1. watch' = [watch EXCEPT ![w] = Broken(watch[w])]
    BY <1>6, Zenon DEF Leave
  <2> HIDE DEF Record
  <2> QED
    BY <1>t, <1>5, <2>1
<1>7. ASSUME CrashStreams PROVE watch' \in [Watcher -> Record]
  <2>1. watch' = [w \in Watcher |-> Broken(watch[w])]
    BY <1>7, Zenon DEF CrashStreams
  <2> HIDE DEF Record
  <2> QED
    BY <1>5, <2>1
<1>8. CASE UNCHANGED watch
  BY <1>8, <1>r DEF WInv, WatchTypeOK
<1> QED
  BY <1>1, <1>2, <1>3, <1>4, <1>6, <1>7, <1>8, <1>q DEF WatchNext, Stream, watchVars

-----------------------------------------------------------------------------
(* The steps. *)

\* The log of a job grows by one line or not at all.
LEMMA LogsGrow ==
  ASSUME IInv, [Next]_vars, NEW i \in Job
  PROVE  jobLogs'[i] = jobLogs[i] \/ \E line \in Line : jobLogs'[i] = Append(jobLogs[i], line)
<1>1. ASSUME NEW line \in Line, NEW b \in BOOLEAN, AddLog(i, line, b)
      PROVE  jobLogs'[i] = jobLogs[i] \/ jobLogs'[i] = Append(jobLogs[i], line)
  BY <1>1 DEF AddLog, IInv, TypeOK
<1>2. Announce(i) => AddLog(i, "started", TRUE)
  BY DEF Announce
<1>3. Output(i) => AddLog(i, "output", TRUE)
  BY DEF Output
<1>4. Report(i) => AddLog(i, verdict[i], verdict[i] # "cancelled") /\ verdict[i] \in Terminal
  BY DEF Report, Goto, IInv, VerdictFollowsBody
<1> QED
  BY <1>1, <1>2, <1>3, <1>4, LogWrites DEF Line

\* What the runner does leaves a stream right.
LEMMA RunnerKeepsStreams ==
  ASSUME IInv, [Next]_vars, NEW i \in Job, NEW v,
         v.from \in Nat, v.after \in Nat, StreamOK(v, jobLogs[i], status[i])
  PROVE  StreamOK(v, jobLogs'[i], status'[i])
<1>1. jobLogs[i] \in Seq(Line)
  BY DEF IInv, TypeOK
<1>2. Learned(v, status'[i])
  BY RowsGoForward DEF ForwardStep, Later, StreamOK, Learned, Terminal
<1>3. CASE jobLogs'[i] = jobLogs[i]
  BY <1>2, <1>3 DEF StreamOK
<1>4. ASSUME NEW line \in Line, jobLogs'[i] = Append(jobLogs[i], line), jobLogs'[i] # jobLogs[i]
      PROVE  StreamOK(v, jobLogs'[i], status'[i])
  <2>1. status[i] \notin Terminal
    BY <1>4, LogRests DEF LogStep
  <2>2. ~v.late
    BY <2>1 DEF StreamOK, Learned
  <2>3. PICK k \in 0..Len(jobLogs[i]) : v.got = SubSeq(jobLogs[i], v.from + 1, k)
    BY DEF StreamOK, Delivered
  <2>4. v.got = SubSeq(jobLogs'[i], v.from + 1, k)
    BY <1>1, <1>4, <2>3, PartsStay
  <2>5. k \in 0..Len(jobLogs'[i])
    BY <1>1, <1>4
  <2> QED
    BY <1>2, <2>2, <2>4, <2>5 DEF StreamOK, Delivered, Complete
<1> QED
  BY <1>3, <1>4, LogsGrow

\* What a stream does itself leaves it right.
LEMMA StreamKeepsItself ==
  ASSUME IInv, WInv, NEW w \in Watcher, NEW u,
         \/ Breaks(watch[w], u) \/ Begins(watch[w], u) \/ Sends(watch[w], u)
         \/ Finishes(watch[w], u) \/ Goes(watch[w], u)
  PROVE  /\ Phases(u)
         /\ u.job \in Job /\ StreamOK(u, jobLogs[u.job], status[u.job])
<1> DEFINE v == watch[w]
<1>t. /\ v.from \in Nat /\ v.after \in Nat /\ v.got \in Seq(Line) /\ v.late \in BOOLEAN
      /\ jobLogs \in [Job -> Seq(Line)]
  BY DEF IInv, WInv, TypeOK, WatchTypeOK
<1>v. Phases(v) /\ (v.job \in Job => StreamOK(v, jobLogs[v.job], status[v.job]))
  BY DEF WInv
<1> HIDE DEF v
<1>1. ASSUME Breaks(v, u)
      PROVE  Phases(u) /\ u.job \in Job /\ StreamOK(u, jobLogs[u.job], status[u.job])
  BY <1>1, <1>v DEF Breaks, Open, Phases, StreamOK, Delivered, Complete, Learned
<1>2. ASSUME Begins(v, u)
      PROVE  Phases(u) /\ u.job \in Job /\ StreamOK(u, jobLogs[u.job], status[u.job])
  <2>1. u.got = <<>> /\ u.final = "none" /\ u.exit = "none" /\ u.pc = "logs" /\ u.job \in Job
    BY <1>2, <1>v DEF Begins, Phases
  <2>2. SubSeq(jobLogs[u.job], u.from + 1, 0) = <<>>
    <3>1. u.from + 1 \in Int /\ 0 \in Int /\ 0 < u.from + 1
      BY <1>2 DEF Begins
    <3> QED
      BY <3>1, SubSeqEmpty
  <2>3. Delivered(u, jobLogs[u.job])
    <3>1. 0 \in 0..Len(jobLogs[u.job])
      BY <1>t, <2>1
    <3>2. u.after = u.from + Len(u.got)
      BY <1>2, <2>1 DEF Begins
    <3> QED
      BY <2>1, <2>2, <3>1, <3>2 DEF Delivered
  <2>4. Complete(u, jobLogs[u.job])
    BY <2>1 DEF Complete
  <2>5. Learned(u, status[u.job])
    BY <1>2, <2>1 DEF Begins, Learned
  <2> QED
    BY <2>1, <2>3, <2>4, <2>5 DEF Phases, StreamOK, Open
<1>3. ASSUME Sends(v, u)
      PROVE  Phases(u) /\ u.job \in Job /\ StreamOK(u, jobLogs[u.job], status[u.job])
  <2> DEFINE log == jobLogs[v.job]
  <2>1. v.job \in Job /\ u.job = v.job /\ log \in Seq(Line)
    BY <1>3, <1>t, <1>v DEF Sends, Phases
  <2>2. PICK k \in 0..Len(log) : v.got = SubSeq(log, v.from + 1, k)
    BY <1>v, <2>1 DEF StreamOK, Delivered
  <2>3. v.after = v.from + Len(v.got)
    BY <1>v, <2>1 DEF StreamOK, Delivered
  <2>4. u.got = v.got \o SubSeq(log, v.after + 1, Len(log)) /\ u.from = v.from
    BY <1>3 DEF Sends, LogsAfter
  <2> HIDE DEF log
  <2>5. u.got = SubSeq(log, u.from + 1, Len(log))
    BY <1>t, <2>1, <2>2, <2>3, <2>4, PartsJoin
  <2>6. Len(log) \in 0..Len(log)
    BY <2>1
  <2>7. SubSeq(log, v.after + 1, Len(log)) \in Seq(Line)
    BY <1>t, <2>1, LogParts
  <2>8. Len(u.got) = Len(v.got) + Len(SubSeq(log, v.after + 1, Len(log)))
    BY <1>t, <2>4, <2>7
  <2>9. u.after = v.after + Len(SubSeq(log, v.after + 1, Len(log)))
    BY <1>3 DEF Sends, LogsAfter, log
  <2>10. u.after = u.from + Len(u.got)
    BY <1>t, <2>3, <2>4, <2>7, <2>8, <2>9
  <2>11. u.from <= Len(log) => u.after = Len(log)
    <3>1. Len(u.got) = IF u.from < Len(log) THEN Len(log) - u.from ELSE 0
      BY <1>t, <2>1, <2>4, <2>5, LogParts
    <3>2. u.from \in Nat /\ Len(log) \in Nat
      BY <1>t, <2>1, <2>4
    <3> QED
      BY <2>10, <3>1, <3>2
  <2>12. Delivered(u, log) /\ Complete(u, log)
    BY <2>5, <2>6, <2>10, <2>11 DEF Delivered, Complete
  <2>13. Phases(u) /\ Learned(u, status[u.job])
    BY <1>3, <1>v, <2>1 DEF Sends, Phases, Open, Learned, StreamOK
  <2> QED
    BY <2>1, <2>12, <2>13 DEF StreamOK, log
<1>4. ASSUME Finishes(v, u)
      PROVE  Phases(u) /\ u.job \in Job /\ StreamOK(u, jobLogs[u.job], status[u.job])
  BY <1>4, <1>v DEF Finishes, Open, Phases, StreamOK, Delivered, Complete, Learned, ExitOf
<1>5. ASSUME Goes(v, u)
      PROVE  Phases(u) /\ u.job \in Job /\ StreamOK(u, jobLogs[u.job], status[u.job])
  BY <1>5, <1>v DEF Goes, Open, Phases, StreamOK, Delivered, Complete, Learned
<1> QED
  BY <1>1, <1>2, <1>3, <1>4, <1>5 DEF v

\* Every step keeps the invariant.
LEMMA WInvStep == IInv /\ WInv /\ [WatchNext]_watchVars => WInv'
<1> SUFFICES ASSUME IInv, WInv, [WatchNext]_watchVars PROVE WInv'
  OBVIOUS
<1>n. [Next]_vars
  BY WatchIsRunner
<1>t. WatchTypeOK'
  BY WatchTypeStep
<1> SUFFICES ASSUME NEW w \in Watcher
             PROVE  /\ Phases(watch'[w])
                    /\ watch'[w].job \in Job
                         => StreamOK(watch'[w], jobLogs'[watch'[w].job], status'[watch'[w].job])
  BY <1>t DEF WInv, Phases, StreamOK, Delivered, Complete, Learned
<1> DEFINE v == watch[w]
<1> DEFINE u == watch'[w]
<1>1. StreamStep(v, u)
  BY StreamSteps DEF WInv
<1>2. CASE u = v
  <2>1. Phases(v) /\ (v.job \in Job => StreamOK(v, jobLogs[v.job], status[v.job]))
    BY DEF WInv
  <2>2. v.from \in Nat /\ v.after \in Nat
    BY DEF WInv, WatchTypeOK
  <2> HIDE DEF u, v
  <2>3. v.job \in Job => StreamOK(v, jobLogs'[v.job], status'[v.job])
    BY <1>n, <2>1, <2>2, RunnerKeepsStreams
  <2>4. Phases(u) /\ (u.job \in Job => StreamOK(u, jobLogs'[u.job], status'[u.job]))
    BY <1>2, <2>1, <2>3
  <2> QED
    BY <2>4 DEF u
<1>3. CASE Breaks(v, u) \/ Begins(v, u) \/ Sends(v, u) \/ Finishes(v, u) \/ Goes(v, u)
  <2>1. Phases(u) /\ u.job \in Job /\ StreamOK(u, jobLogs[u.job], status[u.job])
    BY <1>3, StreamKeepsItself
  <2>2. u.from \in Nat /\ u.after \in Nat
    BY <1>t DEF WatchTypeOK
  <2> HIDE DEF u, v
  <2>3. StreamOK(u, jobLogs'[u.job], status'[u.job])
    BY <1>n, <2>1, <2>2, RunnerKeepsStreams
  <2> QED
    BY <2>1, <2>3 DEF u
<1> QED
  BY <1>1, <1>2, <1>3 DEF StreamStep, Stays

-----------------------------------------------------------------------------
(* The results. *)

\* The invariant of the runner and the one of the streams hold in every
\* reachable state.
THEOREM WatchInvariance == WatchSpec => [](IInv /\ WInv)
<1>1. WatchInit => WInv
  <2> SUFFICES ASSUME WatchInit PROVE WInv
    OBVIOUS
  <2>1. WatchTypeOK
    <3>1. TypeOK
      BY InitIInv DEF WatchInit, IInv
    <3>2. <<>> \in Seq(Line)
      OBVIOUS
    <3> QED
      BY <3>1, <3>2 DEF WatchInit, WatchTypeOK
  <2>2. \A w \in Watcher : Phases(watch[w]) /\ watch[w].job \notin Job
    BY NoJobIsNoJob DEF WatchInit, Phases, Open
  <2> QED
    BY <2>1, <2>2 DEF WInv
<1> QED
  BY <1>1, WInvStep, FollowersAreHarmless, Invariance, PTL DEF WatchSpec

\* A follower receives a part of the log, from the line it asked for, in order,
\* without gap or repetition, however its reads interleave with the job.
THEOREM ExactDelivery == WatchSpec => []DeliveredExactly
<1>1. WInv => DeliveredExactly
  BY DEF WInv, StreamOK, Delivered, DeliveredExactly
<1> QED
  BY <1>1, WatchInvariance, PTL

\* The command line reports success only of a job whose body returned nil.
THEOREM SuccessTruthful == WatchSpec => []SuccessIsReal
<1>1. IInv /\ WInv => SuccessIsReal
  <2> SUFFICES ASSUME IInv, WInv, NEW w \in Watcher, watch[w].exit = "ok"
               PROVE  returned[watch[w].job] = "ok"
    BY DEF SuccessIsReal
  <2>1. watch[w].job \in Job
    BY DEF WInv, Phases
  <2>2. status[watch[w].job] = "succeeded"
    BY <2>1 DEF WInv, StreamOK, Learned
  <2> QED
    BY <2>1, <2>2 DEF IInv, VerdictFollowsBody, Explains
<1> QED
  BY <1>1, WatchInvariance, PTL

\* A stream opened on a finished job ends with the whole log.
THEOREM LateWatchGetsAll == WatchSpec => []LateWatchIsComplete
<1>1. WInv => LateWatchIsComplete
  <2> SUFFICES ASSUME WInv, NEW w \in Watcher, watch[w].late, watch[w].final # "none",
                      watch[w].from <= Len(jobLogs[watch[w].job])
               PROVE  watch[w].after = Len(jobLogs[watch[w].job])
    BY DEF LateWatchIsComplete
  <2>1. watch[w].job \in Job
    BY DEF WInv, Phases
  <2> QED
    BY <2>1 DEF WInv, StreamOK, Complete
<1> QED
  BY <1>1, WatchInvariance, PTL
=============================================================================
