----------------------------- MODULE Deployments -----------------------------
(***************************************************************************)
(* What the bodies of the jobs do to a deployment: its row in the table    *)
(* repositories, its checkout below the repository directory, the images   *)
(* built from it and the containers of its Compose project.                *)
(*                                                                         *)
(* The runner is taken as JobLifecycle promises it (JobRunner implements   *)
(* it).  A body is a sequence of steps; between two steps other jobs run,  *)
(* the job is cancelled, or the daemon crashes.  git and Docker are        *)
(* external: a command does its work, fails, or is killed half way.        *)
(***************************************************************************)
EXTENDS Naturals, FiniteSets

CONSTANTS Job, Name, NoName,
          Kind,        \* the kinds of job the clients ask for
          Unnamed,     \* whether clients create deployments without a name
          MaxHead,     \* bound: commits of the upstream repository
          MaxCrash     \* bound: crashes of the daemon

AllKinds == {"create", "delete", "build", "update", "deploy", "restart", "stop"}

ASSUME NameIsNotEmpty == NoName \notin Name
ASSUME KindIsKnown == Kind \subseteq AllKinds
ASSUME UnnamedIsBoolean == Unnamed \in BOOLEAN
ASSUME DeployBounds == MaxHead \in Nat \ {0} /\ MaxCrash \in Nat

VARIABLES
  status, deployment, phase,   \* the jobs, as in JobLifecycle
  request,     \* what each job was asked: kind, build flag, and its target
  step,        \* the next step of the body
  result,      \* what the body returns: "none" yet, "ok" or "error"
  ctxDone,     \* jobs whose context is cancelled
  records,     \* names that have a row in repositories
  checkout,    \* the directory: "absent", "partial" or "full"
  source,      \* the commit that is checked out (0 before the first clone)
  images,      \* the commit the images were built from (0: no image)
  containers,  \* how many of the services run, and from which commit
  head,        \* the newest commit upstream
  crashes

jobVars == <<status, deployment, phase>>
bodyVars == <<request, step, result>>
world == <<records, checkout, source, images, containers>>
vars == <<jobVars, bodyVars, ctxDone, world, head, crashes>>

Jobs == INSTANCE JobLifecycle

Commit == 0..MaxHead
Step == {"none", "lookup", "clone", "cloning", "resolve", "insert", "remove", "unrecord",
         "pull", "build", "status", "ensure", "down", "up", "return"}
Running == [run : {"none", "some", "all"}, commit : Commit]

TypeOK ==
  /\ status \in [Job -> {"none", "queued", "running"} \cup Jobs!Terminal]
  /\ deployment \in [Job -> Name \cup {NoName}]
  /\ phase \in [Job -> {"waiting", "active", "settling", "over"}]
  /\ request \in [Job -> [kind : AllKinds \cup {"none"}, build : BOOLEAN, target : Name \cup {NoName}]]
  /\ step \in [Job -> Step]
  /\ result \in [Job -> {"none", "ok", "error"}]
  /\ ctxDone \subseteq Job
  /\ records \subseteq Name
  /\ checkout \in [Name -> {"absent", "partial", "full"}]
  /\ source \in [Name -> Commit]
  /\ images \in [Name -> Commit]
  /\ containers \in [Name -> Running]
  /\ head \in 1..MaxHead
  /\ crashes \in 0..MaxCrash

\* what a daemon that starts knows of jobs
NoJobYet ==
  /\ Jobs!Init
  /\ request = [j \in Job |-> [kind |-> "none", build |-> FALSE, target |-> NoName]]
  /\ step = [j \in Job |-> "none"]
  /\ result = [j \in Job |-> "none"]
  /\ ctxDone = {}
  /\ crashes = 0

Stopped == [run |-> "none", commit |-> 0]
Runs == {r \in Running : r.run # "none" /\ r.commit # 0}

Init ==
  /\ NoJobYet
  /\ records = {}
  /\ checkout = [n \in Name |-> "absent"]
  /\ source = [n \in Name |-> 0]
  /\ images = [n \in Name |-> 0]
  /\ containers = [n \in Name |-> Stopped]
  /\ head = 1

\* the daemon starts on deployments that earlier jobs created and perhaps
\* updated, built and started: the images are not newer than the checkout, and
\* what runs is not newer than the images
InitEarlier ==
  /\ NoJobYet
  /\ records = Name
  /\ checkout = [n \in Name |-> "full"]
  /\ source \in [Name -> 1..MaxHead]
  /\ images \in [Name -> Commit]
  /\ \A n \in Name : images[n] <= source[n]
  /\ containers \in [Name -> {Stopped} \cup Runs]
  /\ \A n \in Name : containers[n].commit <= images[n]
  /\ head = MaxHead

Target(j) == request[j].target

-----------------------------------------------------------------------------
(* The programs of the bodies. *)

\* a create clones; every other body first looks its repository up
FirstStep(r) == IF r.kind = "create" THEN "clone" ELSE "lookup"

BuildOrEnsure(r) == IF r.build THEN "build" ELSE "ensure"

\* Mutant: a delete removes the row and forgets the files
NextStepKeepsFiles(r, s) ==
  CASE s = "clone" -> "cloning"
    [] s = "cloning" -> "resolve"
    [] s = "resolve" -> "insert"
    [] s = "lookup" -> IF r.kind = "delete" THEN "unrecord" ELSE "status"
    [] s = "status" -> "ensure"
    [] s = "ensure" -> "up"
    [] OTHER -> "return"

\* the step that follows a step that succeeds
NextStep(r, s) ==
  CASE s = "clone" -> "cloning"
    [] s = "cloning" -> "resolve"
    [] s = "resolve" -> "insert"
    [] s = "lookup" ->
         CASE r.kind = "delete" -> "remove"
           [] r.kind = "build" -> "build"
           [] r.kind = "update" -> "pull"
           [] r.kind = "deploy" /\ r.build -> "build"
           [] OTHER -> "status"
    [] s = "remove" -> "unrecord"
    [] s = "pull" /\ r.build -> "build"
    [] s = "status" /\ r.kind = "stop" -> "down"
    [] s = "status" /\ r.kind # "stop" -> BuildOrEnsure(r)
    [] s \in {"build", "ensure"} /\ r.kind = "deploy" -> "up"
    [] s \in {"build", "ensure"} /\ r.kind = "restart" -> "down"
    [] s = "down" /\ r.kind = "restart" -> "up"
    [] OTHER -> "return"

At(j, s) == phase[j] = "active" /\ step[j] = s

Goto(j, s, r) ==
  /\ step' = [step EXCEPT ![j] = s]
  /\ result' = [result EXCEPT ![j] = r]
  /\ UNCHANGED <<jobVars, request, ctxDone, head, crashes>>

Done(j) == Goto(j, "return", "ok")
Fail(j) == Goto(j, "return", "error")
Continue(j) ==
  LET s == NextStep(request[j], step[j]) IN
  IF s = "return" THEN Done(j) ELSE Goto(j, s, "none")

\* a call that takes the context has no effect once it is done
Allowed(j) == j \notin ctxDone

-----------------------------------------------------------------------------
(* Clients, the runner and the world around. *)

\* CreateDeployment takes any name, also none: CloneRepo then derives it from
\* the URL.  enqueueRepositoryJob refuses the empty name.
Submit(j, kind, build, n, named) ==
  /\ ~named => kind = "create" /\ Unnamed
  /\ Jobs!Submit(j, IF named THEN n ELSE NoName)
  /\ request' = [request EXCEPT ![j] = [kind |-> kind, build |-> build, target |-> n]]
  /\ UNCHANGED <<step, result, ctxDone, world, head, crashes>>

\* the flag is part of update, deploy and restart requests only
Flags(kind) == IF kind \in {"update", "deploy", "restart"} THEN BOOLEAN ELSE {FALSE}

Cancel(j) ==
  /\ status[j] \in Jobs!Open
  /\ phase[j] # "over"
  /\ ctxDone' = ctxDone \cup {j}
  /\ UNCHANGED <<jobVars, bodyVars, world, head, crashes>>

Begin(j) ==
  /\ Allowed(j)
  /\ Jobs!BeginBody(j)
  /\ step' = [step EXCEPT ![j] = FirstStep(request[j])]
  /\ UNCHANGED <<request, result, ctxDone, world, head, crashes>>

Skip(j) ==
  /\ ~Allowed(j)
  /\ Jobs!SkipBody(j)
  /\ result' = [result EXCEPT ![j] = "error"]
  /\ UNCHANGED <<request, step, ctxDone, world, head, crashes>>

Return(j) ==
  /\ At(j, "return")
  /\ Jobs!EndBody(j)
  /\ UNCHANGED <<bodyVars, ctxDone, world, head, crashes>>

Outcome(j) ==
  IF j \in ctxDone THEN "cancelled"
  ELSE IF result[j] = "error" THEN "failed" ELSE "succeeded"

Settle(j) ==
  /\ Jobs!Settle(j, Outcome(j))
  /\ UNCHANGED <<bodyVars, ctxDone, world, head, crashes>>

Release(j) ==
  /\ status[j] \notin Jobs!Open
  /\ Jobs!Release(j)
  /\ UNCHANGED <<bodyVars, ctxDone, world, head, crashes>>

Push ==
  /\ head < MaxHead
  /\ head' = head + 1
  /\ UNCHANGED <<jobVars, bodyVars, ctxDone, world, crashes>>

\* the daemon and its git processes die; directories and containers stay
Crash ==
  /\ crashes < MaxCrash
  /\ crashes' = crashes + 1
  /\ Jobs!Die
  /\ ctxDone' = {}
  /\ UNCHANGED <<bodyVars, world, head>>

-----------------------------------------------------------------------------
(* The steps of the bodies. *)

\* any step but the return can fail without an effect: the row or the file is
\* missing, the context is done, git or Docker refuses
StepFails(j) ==
  /\ phase[j] = "active"
  /\ step[j] # "return"
  /\ Fail(j)
  /\ UNCHANGED world

\* Mutant: the repository is looked up when the job is enqueued
LookupStale(j) ==
  /\ At(j, "lookup") /\ Allowed(j)
  /\ Continue(j)
  /\ UNCHANGED world

\* getRepository, when the body starts and not when the job was enqueued
Lookup(j) ==
  /\ At(j, "lookup") /\ Allowed(j)
  /\ Target(j) \in records
  /\ Continue(j)
  /\ UNCHANGED world

\* git clone refuses a directory that exists
Clone(j) ==
  /\ At(j, "clone") /\ Allowed(j)
  /\ checkout[Target(j)] = "absent"
  /\ checkout' = [checkout EXCEPT ![Target(j)] = "partial"]
  /\ Continue(j)
  /\ UNCHANGED <<records, source, images, containers>>

CloneFinishes(j) ==
  /\ At(j, "cloning") /\ Allowed(j)
  /\ checkout[Target(j)] = "partial"
  /\ checkout' = [checkout EXCEPT ![Target(j)] = "full"]
  /\ source' = [source EXCEPT ![Target(j)] = head]
  /\ Continue(j)
  /\ UNCHANGED <<records, images, containers>>

\* Mutant: the error of git clone is ignored
CloneErrorIgnored(j) ==
  /\ At(j, "cloning")
  /\ checkout' = [checkout EXCEPT ![Target(j)] = "absent"]
  /\ Continue(j)
  /\ UNCHANGED <<records, source, images, containers>>

\* git that fails removes what it made; git that is killed does not (StepFails)
CloneCleansUp(j) ==
  /\ At(j, "cloning")
  /\ checkout' = [checkout EXCEPT ![Target(j)] = "absent"]
  /\ Fail(j)
  /\ UNCHANGED <<records, source, images, containers>>

\* resolveComposePath and resolveEnvFile do not look at the context
Resolve(j) ==
  /\ At(j, "resolve")
  /\ Continue(j)
  /\ UNCHANGED world

InsertRecord(j) ==
  /\ At(j, "insert") /\ Allowed(j)
  /\ Target(j) \notin records
  /\ records' = records \cup {Target(j)}
  /\ Continue(j)
  /\ UNCHANGED <<checkout, source, images, containers>>

\* RemoveAllInside, file by file and whatever the context says
RemoveSome(j) ==
  /\ At(j, "remove")
  /\ checkout[Target(j)] = "full"
  /\ checkout' = [checkout EXCEPT ![Target(j)] = "partial"]
  /\ UNCHANGED <<jobVars, bodyVars, ctxDone, records, source, images, containers, head, crashes>>

RemoveAll(j) ==
  /\ At(j, "remove")
  /\ checkout' = [checkout EXCEPT ![Target(j)] = "absent"]
  /\ Continue(j)
  /\ UNCHANGED <<records, source, images, containers>>

DeleteRecord(j) ==
  /\ At(j, "unrecord") /\ Allowed(j)
  /\ Target(j) \in records
  /\ records' = records \ {Target(j)}
  /\ Continue(j)
  /\ UNCHANGED <<checkout, source, images, containers>>

\* every git and Compose command needs the directory
Usable(j, s) == At(j, s) /\ Allowed(j) /\ checkout[Target(j)] = "full"

Pull(j) ==
  /\ Usable(j, "pull")
  /\ source' = [source EXCEPT ![Target(j)] = head]
  /\ Continue(j)
  /\ UNCHANGED <<records, checkout, images, containers>>

Build(j) ==
  /\ Usable(j, "build")
  /\ images' = [images EXCEPT ![Target(j)] = source[Target(j)]]
  /\ Continue(j)
  /\ UNCHANGED <<records, checkout, source, containers>>

\* Mutant: AnyRunning in the place of AllRunning
NothingToDoIfAny(j) ==
  LET run == containers[Target(j)].run IN
  \/ request[j].kind = "deploy" /\ run # "none"
  \/ request[j].kind = "stop" /\ run = "none"

\* ComposeStatus: a deploy of what runs and a stop of what does not run are
\* over with it
NothingToDo(j) ==
  LET run == containers[Target(j)].run IN
  \/ request[j].kind = "deploy" /\ run = "all"
  \/ request[j].kind = "stop" /\ run = "none"

ReadStatus(j) ==
  /\ Usable(j, "status")
  /\ IF NothingToDo(j) THEN Done(j) ELSE Continue(j)
  /\ UNCHANGED world

\* EnsureBuildAvailable builds only when there is no image
Ensure(j) ==
  LET n == Target(j) IN
  /\ Usable(j, "ensure")
  /\ images' = [images EXCEPT ![n] = IF @ = 0 THEN source[n] ELSE @]
  /\ Continue(j)
  /\ UNCHANGED <<records, checkout, source, containers>>

Run(n, run, commit) == containers' = [containers EXCEPT ![n] = [run |-> run, commit |-> commit]]

Down(j) ==
  /\ Usable(j, "down")
  /\ Run(Target(j), "none", 0)
  /\ Continue(j)
  /\ UNCHANGED <<records, checkout, source, images>>

\* Mutant: Up starts what is checked out, not what was built
UpRunsSource(j) ==
  LET n == Target(j) IN
  /\ Usable(j, "up")
  /\ images[n] # 0
  /\ Run(n, "all", source[n])
  /\ Continue(j)
  /\ UNCHANGED <<records, checkout, source, images>>

Up(j) ==
  LET n == Target(j) IN
  /\ Usable(j, "up")
  /\ images[n] # 0
  /\ Run(n, "all", images[n])
  /\ Continue(j)
  /\ UNCHANGED <<records, checkout, source, images>>

\* Up or Down that fails or is cancelled half way
HalfWay(j) ==
  LET n == Target(j) IN
  /\ At(j, "down") \/ At(j, "up")
  /\ checkout[n] = "full"
  /\ \/ At(j, "up") /\ images[n] # 0 /\ Run(n, "some", images[n])
     \/ containers[n].run # "none" /\ Run(n, "some", containers[n].commit)
  /\ Fail(j)
  /\ UNCHANGED <<records, checkout, source, images>>

BodyStep(j) ==
  \/ StepFails(j) \/ Lookup(j)
  \/ Clone(j) \/ CloneFinishes(j) \/ CloneCleansUp(j) \/ Resolve(j) \/ InsertRecord(j)
  \/ RemoveSome(j) \/ RemoveAll(j) \/ DeleteRecord(j)
  \/ Pull(j) \/ Build(j) \/ ReadStatus(j) \/ Ensure(j) \/ Down(j) \/ Up(j) \/ HalfWay(j)

Next ==
  \/ \E j \in Job :
       \/ \E kind \in Kind, n \in Name, named \in BOOLEAN :
            \E build \in Flags(kind) : Submit(j, kind, build, n, named)
       \/ Cancel(j) \/ Begin(j) \/ Skip(j) \/ BodyStep(j) \/ Return(j) \/ Settle(j) \/ Release(j)
  \/ Push
  \/ Crash

Spec == Init /\ [][Next]_vars

EarlierSpec == (Init \/ InitEarlier) /\ [][Next]_vars

-----------------------------------------------------------------------------
(* Properties. *)

\* A body that returns without an error has done its work, and the work is
\* still there when the outcome is written: nobody undoes it in between.
Works(r) ==
  LET n == r.target
      runs == containers[n].run = "all"
      current == r.build => containers[n].commit = source[n]
  IN
  CASE r.kind = "create" -> n \in records /\ checkout[n] = "full"
    [] r.kind = "delete" -> n \notin records /\ checkout[n] = "absent"
    [] r.kind = "build" -> images[n] = source[n]
    [] r.kind = "update" -> r.build => images[n] = source[n]
    [] r.kind \in {"deploy", "restart"} -> runs /\ current
    [] r.kind = "stop" -> containers[n].run = "none"
SuccessMeansDone ==
  \A j \in Job : phase[j] = "settling" /\ result[j] = "ok" => Works(request[j])

Broke(kind, n) ==
  \E j \in Job : /\ request[j].kind = kind /\ Target(j) = n
                 /\ phase[j] # "waiting" /\ status[j] # "succeeded"

\* A deployment that is listed has its checkout, unless a delete removed the
\* directory and then failed, was cancelled or died before it removed the row.
ListedMeansCheckedOut ==
  \A n \in records : checkout[n] = "full" \/ Broke("delete", n)

\* A directory without a row, which no job can use or remove any more, is left
\* only by a create that failed, was cancelled or died after its clone began.
OrphanHasCause ==
  \A n \in Name \ records : checkout[n] = "absent" \/ Broke("create", n)

\* What runs was built from a commit that was pulled: no order of updates,
\* builds, failed starts and re-creations runs something newer than the build
\* or has a build that is newer than the checkout.
RunsWhatWasBuilt ==
  \A n \in Name : containers[n].commit <= images[n] /\ images[n] <= source[n]

\* Images and containers are touched only while the deployment is listed: a
\* job that queued behind a delete does not act on what was deleted.
ListedStep ==
  \A n \in Name :
    images'[n] # images[n] \/ containers'[n] # containers[n] => n \in records
OnlyListedIsTouched == [][ListedStep]_vars

\* The daemon advertises "per-deployment-locking": no two bodies work on one
\* deployment at a time.
OneJobPerCheckout ==
  \A j, k \in Job :
    j # k /\ phase[j] = "active" /\ phase[k] = "active" => Target(j) # Target(k)
=============================================================================
