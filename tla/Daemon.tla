-------------------------------- MODULE Daemon --------------------------------
(***************************************************************************)
(* Processes of the daemon and the path of their Unix socket: deployctld   *)
(* in the units of systemd (user and system, which share the path), and    *)
(* "deployctl daemon start", which a user runs in the foreground.          *)
(* ListenUnix removes what is at the path, binds a socket there and        *)
(* changes its mode; only then the database is opened and requests are     *)
(* served.  Nothing keeps two processes from running at once: a second one *)
(* takes the path over, and the first goes on with a socket nobody can     *)
(* reach.  A process that is killed or stopped leaves its socket behind,   *)
(* and closing a listener unlinks the path, whoever has bound a socket     *)
(* there meanwhile.                                                        *)
(***************************************************************************)
EXTENDS Naturals

CONSTANTS Unit,        \* deployctld as the units of systemd run it
          Foreground,  \* runs of "deployctl daemon start"
          MaxFail      \* bound: processes that crash or fail

Process == Unit \cup Foreground

ASSUME KindsDiffer == Unit \cap Foreground = {}
ASSUME DaemonBounds == MaxFail \in Nat
ASSUME PathIsNoProcess == "nobody" \notin Process /\ "stale" \notin Process

VARIABLES
  pc,          \* what each process does next; "failed": systemd starts it again
  path,        \* whose socket is at the path: a process, "nobody" or "stale"
  failures

vars == <<pc, path, failures>>

\* the steps of a process whose listener is open
Bound == {"chmod", "open", "serve", "close"}

TypeOK ==
  /\ pc \in [Process -> {"off", "failed", "remove", "listen"} \cup Bound]
  /\ \A p \in Foreground : pc[p] # "failed"
  /\ path \in Process \cup {"nobody", "stale"}
  /\ path \in Process => pc[path] \in Bound
  /\ failures \in 0..MaxFail

Init ==
  /\ pc = [p \in Process |-> "off"]
  /\ path \in {"nobody", "stale"}
  /\ failures = 0

-----------------------------------------------------------------------------
Goto(p, step) == pc' = [pc EXCEPT ![p] = step]

Under(p) == pc[p] \notin {"off", "failed"}

\* The process ends with an error: its unit has failed, a shell has its prompt.
Exit(p) == Goto(p, IF p \in Unit THEN "failed" ELSE "off")

\* Mutant: whoever ends tidies the path up
Tidied(p) == "nobody"

\* what becomes of the path when p ends without closing its listener
Orphaned(p) == IF path = p THEN "stale" ELSE path

Fail ==
  /\ failures < MaxFail
  /\ failures' = failures + 1

\* systemctl start or restart, the boot of the machine, or a user in a shell;
\* no process asks whether another one is there.
Boot(p) ==
  /\ pc[p] = "off"
  /\ Goto(p, "remove")
  /\ UNCHANGED <<path, failures>>

\* Restart=on-failure of the unit
Restart(p) ==
  /\ pc[p] = "failed"
  /\ Goto(p, "remove")
  /\ UNCHANGED <<path, failures>>

\* Mutant: a socket that is left behind is not made room for
RemoveNothing(p) ==
  /\ pc[p] = "remove"
  /\ Goto(p, "listen")
  /\ UNCHANGED <<path, failures>>

\* os.Remove, which does not ask whether the socket is in use
Remove(p) ==
  /\ pc[p] = "remove"
  /\ path' = "nobody"
  /\ Goto(p, "listen")
  /\ UNCHANGED failures

\* net.Listen fails if there is anything at the path
Listen(p) ==
  /\ pc[p] = "listen"
  /\ IF path = "nobody" THEN path' = p /\ Goto(p, "chmod") ELSE path' = path /\ Exit(p)
  /\ UNCHANGED failures

\* os.Chmod of whatever is at the path; if nothing is, the listener is closed
Chmod(p) ==
  /\ pc[p] = "chmod"
  /\ Goto(p, IF path = "nobody" THEN "close" ELSE "open")
  /\ UNCHANGED <<path, failures>>

\* store.Open and its migrations
OpenStore(p) ==
  /\ pc[p] = "open"
  /\ Goto(p, "serve")
  /\ UNCHANGED <<path, failures>>

\* daemon start closes its listener; deployctld leaves with os.Exit, which
\* runs no deferred Close
OpenFails(p) ==
  /\ pc[p] = "open"
  /\ Fail
  /\ IF p \in Foreground THEN path' = path /\ Goto(p, "close") ELSE path' = Orphaned(p) /\ Exit(p)

\* when gRPC stops serving it closes the listener
ServeFails(p) ==
  /\ pc[p] = "serve"
  /\ Fail
  /\ Goto(p, "close")
  /\ UNCHANGED path

\* Close of a Unix listener unlinks the path, whoever's socket is there
Close(p) ==
  /\ pc[p] = "close"
  /\ path' = "nobody"
  /\ Exit(p)
  /\ UNCHANGED failures

\* A panic or a kill -9 ends the process at once.
Crash(p) ==
  /\ Under(p)
  /\ Fail
  /\ path' = Orphaned(p)
  /\ Exit(p)

\* systemctl stop (and the first half of restart), a SIGTERM or a control-C:
\* no signal is handled, and systemd starts nothing again.
Stop(p) ==
  /\ pc[p] # "off"
  /\ path' = Orphaned(p)
  /\ Goto(p, "off")
  /\ UNCHANGED failures

Run(p) == Remove(p) \/ Listen(p) \/ Chmod(p) \/ OpenStore(p) \/ Close(p)

Next == \E p \in Process :
  Boot(p) \/ Restart(p) \/ Run(p) \/ OpenFails(p) \/ ServeFails(p) \/ Crash(p) \/ Stop(p)

Spec == Init /\ [][Next]_vars

\* A process that runs goes on, and systemd starts a unit that has failed; a
\* unit that was stopped and a run in a shell are started by nobody.
FairSpec ==
  /\ Spec
  /\ \A p \in Unit : WF_vars(Restart(p))
  /\ \A p \in Process : WF_vars(Run(p))

-----------------------------------------------------------------------------
(* Properties. *)

\* The daemon that clients reach stays reachable until it ends, another one
\* starts, or another one closes its own listener, which unlinks a path that
\* is no longer its own.  Others that are killed or stopped take it from nobody,
\* nor do those that fail to bind a socket or, as units, to open the database.
ReachedUntilDisplaced == [][\A p \in Process : path = p /\ path' # p =>
  \/ pc[p] = "close" \/ pc'[p] \in {"off", "failed"}
  \/ \E q \in Process \ {p} : pc[q] \in {"remove", "close"} /\ pc'[q] # pc[q]]_vars

\* A process that starts, or a unit that has failed anywhere, is reached in the
\* end, whatever is at the path and whether or not others serve meanwhile,
\* unless it is stopped (or, in the foreground, ends), or another process
\* starts after it or closes a listener.
StartTakesOver == \A p \in Process :
  pc[p] \in {"remove", "failed"} ~>
    \/ pc[p] = "serve" /\ path = p
    \/ pc[p] = "off"
    \/ \E q \in Process \ {p} : pc[q] \in {"remove", "close"}
=============================================================================
