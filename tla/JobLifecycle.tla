----------------------------- MODULE JobLifecycle -----------------------------
(***************************************************************************)
(* What the job runner promises to the clients of the daemon, without      *)
(* mutexes, contexts or goroutines.  The body of a job runs at most once,  *)
(* and only when every job of the same named deployment that began before  *)
(* has returned AND has had its outcome written (or the write refused).    *)
(* A row goes forward only, becomes terminal only when the body is over,   *)
(* and then stays as it is.                                                *)
(***************************************************************************)
CONSTANTS Job, Name, NoName

VARIABLES status,      \* what GetJob and ListJobs show
          deployment,
          phase        \* "waiting", "active" in the body, "settling" or "over"

vars == <<status, deployment, phase>>

Terminal == {"succeeded", "failed", "cancelled"}
Open == {"queued", "running"}

Init ==
  /\ status = [j \in Job |-> "none"]
  /\ deployment = [j \in Job |-> NoName]
  /\ phase = [j \in Job |-> "waiting"]

Submit(j, n) ==
  /\ status[j] = "none"
  /\ status' = [status EXCEPT ![j] = "queued"]
  /\ deployment' = [deployment EXCEPT ![j] = n]
  /\ UNCHANGED phase

ShowRunning(j) ==
  /\ status[j] = "queued"
  /\ phase[j] = "waiting"
  /\ status' = [status EXCEPT ![j] = "running"]
  /\ UNCHANGED <<deployment, phase>>

\* nobody is between the begin and the outcome of a job of this deployment
Free(j) ==
  \A k \in Job \ {j} :
    deployment[k] = deployment[j] /\ deployment[j] \in Name
      => phase[k] \notin {"active", "settling"}

Move(j, from, to) ==
  /\ phase[j] = from
  /\ phase' = [phase EXCEPT ![j] = to]
  /\ UNCHANGED <<status, deployment>>

BeginBody(j) == status[j] \in Open /\ Free(j) /\ Move(j, "waiting", "active")

\* a job that was cancelled while it waited has no body
SkipBody(j) == status[j] \in Open /\ Free(j) /\ Move(j, "waiting", "settling")

EndBody(j) == status[j] \in Open /\ Move(j, "active", "settling")

Settle(j, s) ==
  /\ status[j] \in Open
  /\ phase[j] = "settling"
  /\ status' = [status EXCEPT ![j] = s]
  /\ UNCHANGED <<deployment, phase>>

Release(j) == Move(j, "settling", "over")

\* the daemon dies: every body is over, and no row tells
Die ==
  /\ phase' = [j \in Job |-> IF status[j] = "none" THEN phase[j] ELSE "over"]
  /\ UNCHANGED <<status, deployment>>

Next ==
  \/ \E j \in Job :
       \/ \E n \in Name \cup {NoName} : Submit(j, n)
       \/ ShowRunning(j) \/ BeginBody(j) \/ SkipBody(j) \/ EndBody(j) \/ Release(j)
       \/ \E s \in Terminal : Settle(j, s)
  \/ Die

Spec == Init /\ [][Next]_vars
=============================================================================
