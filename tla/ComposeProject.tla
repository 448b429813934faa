---------------------------- MODULE ComposeProject ----------------------------
(***************************************************************************)
(* The state of a deployment as ComposeStatus reads it from Docker, and    *)
(* what the bodies of deploy, restart and stop decide from it.             *)
(*                                                                         *)
(* The services that count are those of the Compose file that is checked   *)
(* out; the containers are those that carry the label of the project, also *)
(* of services that an update has taken out of the file.  One body works   *)
(* on a deployment at a time (JobRunner), but up and down go through the   *)
(* services one after the other, and containers exit and come back by      *)
(* themselves between any two steps, also between the status that a body   *)
(* reads and what it decides from it.                                      *)
(***************************************************************************)
CONSTANTS Service,     \* names of services
          Provider     \* services without containers, run by a provider

ASSUME ProvidersAreServices == Provider \subseteq Service

VARIABLES
  defined,     \* the services of the Compose file
  container,   \* the state of the container of each service, or "none"
  body,        \* the body that runs, or "idle"
  step,        \* what it does next
  todo,        \* the services that its up or down has not come to yet
  seen,        \* the status it has read and not yet decided from
  moved        \* history: services whose container exited or came back by itself
               \* since the status the body relies on, or since its up or down
               \* came to them

vars == <<defined, container, body, step, todo, seen, moved>>

Body == {"deploy", "restart", "stop"}
File == SUBSET Service \ {{}}
ContainerState == {"none", "created", "running", "exited"}
StatusRead == [exist : BOOLEAN, any : BOOLEAN, missing : SUBSET Service]
NothingRead == [exist |-> FALSE, any |-> FALSE, missing |-> {}]

TypeOK ==
  /\ defined \in File
  /\ container \in [Service -> ContainerState]
  /\ body \in {"idle"} \cup Body
  /\ step \in {"none", "status", "decide", "down", "up", "failed"}
  /\ body = "idle" <=> step \in {"none", "failed"}
  /\ todo \subseteq Service
  /\ seen \in StatusRead
  /\ moved \subseteq Service

Init ==
  /\ defined \in File
  /\ container = [s \in Service |-> "none"]
  /\ body = "idle"
  /\ step = "none"
  /\ todo = {}
  /\ seen = NothingRead
  /\ moved = {}

-----------------------------------------------------------------------------
(* DeploymentStatus. *)

Existing == {s \in Service : container[s] # "none"}
Runs(s) == container[s] = "running"

\* a provider is never missing
Missing == {s \in defined \ Provider : ~Runs(s)}

\* ComposeStatus: whether there are containers, whether one runs, what is missing
Status == [exist |-> Existing # {}, any |-> (\E s \in Service : Runs(s)), missing |-> Missing]

\* no service is missing and there are containers at all
AllRunning(st) == st.exist /\ st.missing = {}
AnyRunning(st) == st.any

\* deploymentState
DeploymentState ==
  CASE AllRunning(Status) -> "running"
    [] ~AllRunning(Status) /\ AnyRunning(Status) -> "partial"
    [] ~AllRunning(Status) /\ ~AnyRunning(Status) /\ Status.exist -> "stopped"
    [] OTHER -> "not_created"

-----------------------------------------------------------------------------
(* What the dashboard makes of it. *)

\* Mutant: whatever has containers can be stopped
OfferedIfCreated ==
  {"Pull"} \cup (IF DeploymentState # "running" THEN {"Deploy"} ELSE {})
           \cup (IF Existing # {} THEN {"Stop", "Restart"} ELSE {})

\* the buttons of DeploymentDetailView
Offered ==
  {"Pull"} \cup (IF DeploymentState # "running" THEN {"Deploy"} ELSE {})
           \cup (IF DeploymentState \in {"running", "partial"} THEN {"Stop", "Restart"} ELSE {})

\* ActionMenu, the menu of a row of the list
ActionMenu == Offered \cup {"View details"}

\* the tabs of the list
Tab == {"all", "running", "attention", "stopped"}
Matches(tab, state) ==
  \/ tab \in {"all", state}
  \/ tab = "attention" /\ state \notin {"running", "stopped"}

\* a row for each container and one, "Not created", for each missing service:
\* a service whose container has exited has both
ServicesTable ==
  [service : Existing, row : {"container"}] \cup [service : Missing, row : {"not created"}]

-----------------------------------------------------------------------------
(* The world around. *)

bodyVars == <<body, step, todo, seen>>

\* an update pulls another Compose file
Pull(S) ==
  /\ body = "idle"
  /\ defined' = S
  /\ UNCHANGED <<container, bodyVars, moved>>

\* a container ends by itself, and its restart policy may start it again
Becomes(s, state) ==
  /\ container' = [container EXCEPT ![s] = state]
  /\ moved' = IF body = "idle" THEN {} ELSE moved \cup {s}
  /\ UNCHANGED <<defined, bodyVars>>
Exit(s) == Runs(s) /\ Becomes(s, "exited")
Revive(s) == container[s] = "exited" /\ Becomes(s, "running")

-----------------------------------------------------------------------------
(* The bodies. *)

Own == defined \ Provider

\* the body ends, without an error or with one
End(s) ==
  /\ body' = "idle"
  /\ step' = s
  /\ todo' = {}
  /\ seen' = NothingRead
  /\ moved' = {}

\* Mutant: up starts what the status named as missing
CallMissing(b, c) ==
  /\ body' = b
  /\ step' = c
  /\ todo' = IF c = "up" THEN seen.missing ELSE defined
  /\ seen' = NothingRead
  /\ moved' = {}

\* ComposeUp or ComposeDown is called with the whole file
Call(b, c) ==
  /\ body' = b
  /\ step' = c
  /\ todo' = IF c = "up" THEN Own ELSE defined
  /\ seen' = NothingRead
  /\ moved' = {}

\* with the build flag, a deploy does not ask for the status
Begin(b) ==
  /\ body = "idle"
  /\ \/ /\ body' = b /\ step' = "status"
        /\ UNCHANGED <<todo, seen, moved>>
     \/ b = "deploy" /\ Call(b, "up")
  /\ UNCHANGED <<defined, container>>

ReadStatus ==
  /\ step = "status"
  /\ step' = "decide"
  /\ seen' = Status
  /\ moved' = {}
  /\ UNCHANGED <<defined, container, body, todo>>

\* what ran is not deployed again, what did not run is not stopped
Decide ==
  /\ step = "decide"
  /\ \/ body = "deploy" /\ AllRunning(seen) /\ End("none")
     \/ body = "deploy" /\ ~AllRunning(seen) /\ Call(body, "up")
     \/ body = "stop" /\ ~AnyRunning(seen) /\ End("none")
     \/ body = "stop" /\ AnyRunning(seen) /\ Call(body, "down")
     \/ body = "restart" /\ Call(body, "down")
  /\ UNCHANGED <<defined, container>>

\* The call comes to a service and brings its container to a state.
Handle(s, state) ==
  /\ container' = [container EXCEPT ![s] = state]
  /\ todo' = todo \ {s}
  /\ moved' = moved \ {s}
  /\ UNCHANGED <<defined, body, step, seen>>

\* service.Down removes the containers of the services of the file; those of
\* other services are orphans and stay, because RemoveOrphans is not set
DownService(s) ==
  /\ step = "down" /\ s \in todo
  /\ Handle(s, "none")

Down ==
  /\ step = "down" /\ todo = {}
  /\ IF body = "restart" THEN Call(body, "up") ELSE End("none")
  /\ UNCHANGED <<defined, container>>

\* service.Up creates the containers of the file that do not exist ...
CreateService(s) ==
  /\ step = "up" /\ s \in todo
  /\ container[s] = "none"
  /\ container' = [container EXCEPT ![s] = "created"]
  /\ UNCHANGED <<defined, bodyVars, moved>>

\* ... and then starts them one after the other
StartService(s) ==
  /\ step = "up" /\ s \in todo
  /\ \A t \in todo : container[t] # "none"
  /\ Handle(s, "running")

Up ==
  /\ step = "up" /\ todo = {}
  /\ End("none")
  /\ UNCHANGED <<defined, container>>

\* A call of Docker fails or is cancelled, half way if it has come so far.
Fails ==
  /\ step \in {"status", "down", "up"}
  /\ End("failed")
  /\ UNCHANGED <<defined, container>>

Next ==
  \/ \E S \in File : Pull(S)
  \/ \E s \in Service :
       Exit(s) \/ Revive(s) \/ DownService(s) \/ CreateService(s) \/ StartService(s)
  \/ \E b \in Body : Begin(b)
  \/ ReadStatus \/ Decide \/ Down \/ Up \/ Fails

Spec == Init /\ [][Next]_vars

-----------------------------------------------------------------------------
(* Properties. *)

\* The state that is shown means what it says about the services of the file,
\* and "stopped" or "not created" is never said of a deployment of which
\* anything runs, also what a stop has left running because an update took it
\* out of the file.  A file of providers only is running as soon as there is
\* any container.
StateMeansServices ==
  /\ Own # {} => (DeploymentState = "running" <=> \A s \in Own : Runs(s))
  /\ Own = {} => (DeploymentState = "running" <=> Existing # {})
  /\ DeploymentState \in {"stopped", "not_created"} => \A s \in Service : ~Runs(s)
  /\ DeploymentState = "not_created" => Existing = {}

\* Stop and Restart are offered as long as anything of the project runs (they
\* work on the services of the file; what has left the file keeps running, and
\* the buttons stay), Deploy as long as a service of the file does not; a
\* deployment is under one tab besides "all", and the table of services has a
\* row for each service of the file.
OffersFit ==
  /\ StateMeansServices
  /\ (\E s \in Service : Runs(s)) => {"Stop", "Restart"} \subseteq Offered \cap ActionMenu
  /\ Own # {} =>
       /\ {"Stop", "Restart"} \cap (Offered \cup ActionMenu) # {} => \E s \in Service : Runs(s)
       /\ "Deploy" \notin Offered <=> \A s \in Own : Runs(s)
  /\ \E tab \in Tab : {t \in Tab : Matches(t, DeploymentState)} = {tab, "all"}
  /\ Own \subseteq {row.service : row \in ServicesTable}

\* A body that ends without an error leaves the services of the file as it
\* promises, except for those whose containers exited or came back by
\* themselves after it had come to them.  A body that decides that there is
\* nothing to do came to them when it read the status; one that goes on comes
\* to each of them again, however its status has aged.
EndsWithSuccess(b) == body = b /\ body' = "idle" /\ step' = "none"
BodyStep ==
  /\ EndsWithSuccess("deploy") \/ EndsWithSuccess("restart") =>
       \A s \in Own : Runs(s)' \/ s \in moved
  /\ EndsWithSuccess("stop") => \A s \in defined : ~Runs(s)' \/ s \in moved
BodiesKeepTheirWord == [][BodyStep]_vars
=============================================================================
