--------------------------- MODULE DeploymentsProofs ---------------------------
(***************************************************************************)
(* Machine-checked proofs about Deployments, for every set of jobs and     *)
(* names, every history before the daemon starts and every bound.          *)
(***************************************************************************)
EXTENDS Deployments, TLAPS

-----------------------------------------------------------------------------
(* The inductive invariant, for clients that create with and without a     *)
(* name.                                                                   *)

Flagged == {"update", "deploy", "restart"}

\* how the row, the lock name and the request of a job go with its phase
JobsFollow ==
  \A j \in Job :
    /\ status[j] = "none" => phase[j] = "waiting"
    /\ phase[j] = "active" => status[j] \in Jobs!Open
    /\ phase[j] = "waiting" => result[j] = "none"
    /\ status[j] # "none" => /\ request[j].kind \in AllKinds
                             /\ Target(j) \in Name
                             /\ \/ deployment[j] = Target(j)
                                \/ deployment[j] = NoName /\ request[j].kind = "create" /\ Unnamed
    /\ request[j].build => request[j].kind \in Flagged

Held == {"active", "settling"}

\* what the mutex of a name gives
Exclusive ==
  \A j, k \in Job :
    j # k /\ deployment[j] \in Name /\ phase[j] \in Held /\ phase[k] \in Held
      => deployment[k] # deployment[j]

\* the steps of the body of each kind
StepsOf(kind) ==
  CASE kind = "create" -> {"clone", "cloning", "resolve", "insert", "return"}
    [] kind = "delete" -> {"lookup", "remove", "unrecord", "return"}
    [] kind = "build" -> {"lookup", "build", "return"}
    [] kind = "update" -> {"lookup", "pull", "build", "return"}
    [] kind = "deploy" -> {"lookup", "build", "status", "ensure", "up", "return"}
    [] kind = "restart" -> {"lookup", "status", "build", "ensure", "down", "up", "return"}
    [] kind = "stop" -> {"lookup", "status", "down", "return"}

\* a body follows its program, and knows its result when it returns
BodyFollows ==
  \A j \in Job :
    /\ phase[j] = "active" => step[j] \in StepsOf(request[j].kind)
    /\ phase[j] = "active" /\ step[j] # "return" => result[j] = "none"
    /\ phase[j] = "active" /\ step[j] = "return" => result[j] \in {"ok", "error"}
    /\ phase[j] = "settling" => result[j] \in {"ok", "error"}

\* the steps after the lookup, while the row must still be there
Found == {"remove", "unrecord", "pull", "build", "status", "ensure", "down", "up"}
RowStays == \A j \in Job : phase[j] = "active" /\ step[j] \in Found => Target(j) \in records

\* nothing is newer than what it was made from
Built == RunsWhatWasBuilt /\ \A n \in Name : source[n] <= head

IInv == TypeOK /\ JobsFollow /\ Exclusive /\ BodyFollows /\ RowStays /\ Built

-----------------------------------------------------------------------------
(* Rows and directories. *)

\* only a body that returned without an error succeeds
ResultFirst ==
  \A j \in Job : status[j] = "succeeded" => result[j] = "ok" /\ phase[j] \in {"settling", "over"}

\* a job that has begun and has not returned without an error
Unended(kind, n) ==
  \E j \in Job : request[j].kind = kind /\ Target(j) = n /\ phase[j] # "waiting" /\ result[j] # "ok"

\* a directory without a row, and one that is about to lose its row
Orphans ==
  /\ \A n \in Name \ records : checkout[n] = "absent" \/ Unended("create", n)
  /\ \A j \in Job : phase[j] = "active" /\ step[j] = "unrecord"
                  => checkout[Target(j)] = "absent" \/ Unended("create", Target(j))

\* a body that is over, or will be, and has not reached its end
GaveUp(j) ==
  /\ result[j] # "ok"
  /\ \/ phase[j] \in {"settling", "over"}
     \/ phase[j] = "active" /\ step[j] = "return"
Lost(n) == \E j \in Job : request[j].kind = "delete" /\ Target(j) = n /\ GaveUp(j)

\* the steps of a create that has made the directory and not yet the row
Making == {"cloning", "resolve", "insert"}
Makes(j, n) == phase[j] = "active" /\ step[j] \in Making /\ Target(j) = n
Deletes(j, n, s) == phase[j] = "active" /\ step[j] \in s /\ Target(j) = n

\* the directory of n, unless a delete was lost: one create at most makes it,
\* and not while there is a row, unless a delete is about to remove the row
Tidy(n) ==
  /\ \A j, k \in Job : Makes(j, n) /\ Makes(k, n) => j = k
  /\ \A j \in Job : Makes(j, n)
       => /\ checkout[n] = IF step[j] = "cloning" THEN "partial" ELSE "full"
          /\ n \in records => \E k \in Job : Deletes(k, n, {"unrecord"})
  /\ n \in records => checkout[n] = "full" \/ \E k \in Job : Deletes(k, n, {"remove", "unrecord"})
  /\ \A j \in Job : Deletes(j, n, {"remove"}) => checkout[n] # "absent"
Kept == \A n \in Name : Lost(n) \/ Tidy(n)

DInv == ResultFirst /\ Orphans /\ Kept

-----------------------------------------------------------------------------
(* What holds in addition when every create has a name. *)

\* what a body that is under way has reached
Reached(j) ==
  LET n == Target(j) IN
  /\ step[j] = "cloning" => checkout[n] = "partial"
  /\ step[j] \in {"resolve", "insert"} => checkout[n] = "full"
  /\ step[j] = "unrecord" => checkout[n] = "absent"
  /\ step[j] = "ensure" => ~request[j].build
  /\ step[j] = "status" /\ request[j].kind = "deploy" => ~request[j].build
  /\ step[j] \in {"down", "up"} /\ request[j].build => images[n] = source[n]
  /\ step[j] = "return" /\ result[j] = "ok" => Works(request[j])
Progress == \A j \in Job : phase[j] = "active" => Reached(j)

WInv == Progress /\ SuccessMeansDone

-----------------------------------------------------------------------------
(* The programs. *)

\* Every program is made of steps, and stays among those of its kind.
LEMMA ProgramSteps ==
  /\ \A r, s : NextStep(r, s) \in Step
  /\ \A r : FirstStep(r) \in Step \ {"return"}
  /\ \A r : r.kind \in AllKinds => FirstStep(r) \in StepsOf(r.kind)
  /\ \A r, s : r.kind \in AllKinds /\ s \in StepsOf(r.kind) => NextStep(r, s) \in StepsOf(r.kind)
<1>1. \A r, s : NextStep(r, s) \in Step
  BY DEF NextStep, BuildOrEnsure, Step
<1>2. \A r : FirstStep(r) \in Step \ {"return"}
  BY DEF FirstStep, Step
<1>3. \A r : r.kind \in AllKinds => FirstStep(r) \in StepsOf(r.kind)
  BY DEF FirstStep, StepsOf, AllKinds
<1>4. ASSUME NEW r, NEW s, r.kind \in AllKinds, s \in StepsOf(r.kind)
      PROVE  NextStep(r, s) \in StepsOf(r.kind)
  <2>1. CASE r.kind = "create"
    BY <1>4, <2>1 DEF NextStep, StepsOf
  <2>2. CASE r.kind = "delete"
    BY <1>4, <2>2 DEF NextStep, StepsOf
  <2>3. CASE r.kind = "build"
    BY <1>4, <2>3 DEF NextStep, StepsOf
  <2>4. CASE r.kind = "update"
    BY <1>4, <2>4 DEF NextStep, StepsOf
  <2>5. CASE r.kind = "deploy"
    BY <1>4, <2>5 DEF NextStep, StepsOf, BuildOrEnsure
  <2>6. CASE r.kind = "restart"
    BY <1>4, <2>6 DEF NextStep, StepsOf, BuildOrEnsure
  <2>7. CASE r.kind = "stop"
    BY <1>4, <2>7 DEF NextStep, StepsOf
  <2> QED
    BY <1>4, <2>1, <2>2, <2>3, <2>4, <2>5, <2>6, <2>7 DEF AllKinds
<1> QED
  BY <1>1, <1>2, <1>3, <1>4

-----------------------------------------------------------------------------
(* The frame of the steps. *)

\* what a step of a body does to its counter and its result
Failed(s, r) == s = "return" /\ r = "error"
Continued(j, s, r) == s = NextStep(request[j], step[j]) /\ r = IF s = "return" THEN "ok" ELSE "none"
Ended(j, s, r) == step[j] = "status" /\ s = "return" /\ r = "ok"
GoesOn(j, s, r) ==
  /\ step' = [step EXCEPT ![j] = s]
  /\ result' = [result EXCEPT ![j] = r]
  /\ Failed(s, r) \/ Continued(j, s, r) \/ Ended(j, s, r)

\* A step of a body touches no row of a job and the counter and result of its
\* own only.
LEMMA BodyMoves ==
  ASSUME NEW j \in Job, BodyStep(j)
  PROVE  /\ phase[j] = "active" /\ step[j] # "return"
         /\ UNCHANGED <<jobVars, request, ctxDone, head, crashes>>
         /\ \/ step[j] = "remove" /\ UNCHANGED <<step, result>>
            \/ \E s, r : GoesOn(j, s, r)
<1> DEFINE Quiet == UNCHANGED <<jobVars, request, ctxDone, head, crashes>>
<1> DEFINE Moves == Quiet /\ \E s, r : GoesOn(j, s, r)
<1>1. phase[j] = "active" /\ step[j] # "return"
  BY DEF BodyStep, StepFails, Lookup, Clone, CloneFinishes, CloneCleansUp, Resolve, InsertRecord,
         RemoveSome, RemoveAll, DeleteRecord, Pull, Build, ReadStatus, Ensure, Down, Up, HalfWay,
         Usable, At
<1>2. Fail(j) => Moves
  <2> SUFFICES ASSUME Goto(j, "return", "error") PROVE Moves
    BY DEF Fail
  <2>1. Failed("return", "error")
    BY DEF Failed
  <2> QED
    BY <2>1, Zenon DEF Goto, GoesOn
<1>3. Continue(j) => Moves
  <2> DEFINE s == NextStep(request[j], step[j])
  <2> DEFINE r == IF s = "return" THEN "ok" ELSE "none"
  <2>1. Continue(j) => Goto(j, s, r)
    BY DEF Continue, Done
  <2>2. Continued(j, s, r)
    BY DEF Continued
  <2> HIDE DEF s, r
  <2>3. Goto(j, s, r) => Moves
    BY <2>2, Zenon DEF Goto, GoesOn
  <2> QED
    BY <2>1, <2>3
<1>4. step[j] = "status" /\ Done(j) => Moves
  <2> SUFFICES ASSUME step[j] = "status", Goto(j, "return", "ok") PROVE Moves
    BY DEF Done
  <2>1. Ended(j, "return", "ok")
    BY DEF Ended
  <2> QED
    BY <2>1, Zenon DEF Goto, GoesOn
<1> HIDE DEF Moves
<1>5. CASE StepFails(j) \/ CloneCleansUp(j) \/ HalfWay(j)
  BY <1>1, <1>2, <1>5 DEF StepFails, CloneCleansUp, HalfWay, Moves
<1>6. CASE \/ Lookup(j) \/ Clone(j) \/ CloneFinishes(j) \/ Resolve(j) \/ InsertRecord(j) \/ RemoveAll(j)
           \/ DeleteRecord(j) \/ Pull(j) \/ Build(j) \/ Ensure(j) \/ Down(j) \/ Up(j)
  <2>1. Continue(j)
    BY <1>6 DEF Lookup, Clone, CloneFinishes, Resolve, InsertRecord, RemoveAll, DeleteRecord, Pull,
                Build, Ensure, Down, Up
  <2> QED
    BY <1>1, <1>3, <2>1 DEF Moves
<1>7. CASE RemoveSome(j)
  BY <1>1, <1>7 DEF RemoveSome, At, bodyVars
<1>8. CASE ReadStatus(j)
  <2>1. step[j] = "status" /\ (Done(j) \/ Continue(j))
    BY <1>8 DEF ReadStatus, Usable, At
  <2> QED
    BY <1>1, <1>3, <1>4, <2>1 DEF Moves
<1> QED
  BY <1>5, <1>6, <1>7, <1>8 DEF BodyStep

\* what the steps of one body leave of a deployment
SameWorldAt(m) ==
  /\ m \in records' <=> m \in records
  /\ checkout'[m] = checkout[m]
  /\ source'[m] = source[m]
  /\ images'[m] = images[m]
  /\ containers'[m] = containers[m]

\* A step of a body touches the deployment it is for and no other.
LEMMA BodyStays ==
  ASSUME TypeOK, NEW j \in Job, BodyStep(j), NEW m \in Name, m # Target(j)
  PROVE  SameWorldAt(m)
<1> USE DEF TypeOK, SameWorldAt
<1>1. CASE StepFails(j) \/ Lookup(j) \/ Resolve(j) \/ ReadStatus(j)
  BY <1>1 DEF StepFails, Lookup, Resolve, ReadStatus, world
<1>2. CASE Clone(j) \/ CloneFinishes(j) \/ CloneCleansUp(j)
  BY <1>2 DEF Clone, CloneFinishes, CloneCleansUp
<1>3. CASE InsertRecord(j) \/ DeleteRecord(j)
  BY <1>3 DEF InsertRecord, DeleteRecord
<1>4. CASE RemoveSome(j) \/ RemoveAll(j)
  BY <1>4 DEF RemoveSome, RemoveAll
<1>5. CASE Pull(j) \/ Build(j) \/ Ensure(j)
  BY <1>5 DEF Pull, Build, Ensure
<1>6. CASE Down(j) \/ Up(j) \/ HalfWay(j)
  BY <1>6 DEF Down, Up, HalfWay, Run
<1> QED
  BY <1>1, <1>2, <1>3, <1>4, <1>5, <1>6 DEF BodyStep

\* Only bodies touch deployments.
LEMMA OthersAreQuiet ==
  ASSUME [Next]_vars, ~\E j \in Job : BodyStep(j)
  PROVE  UNCHANGED world
BY DEF Next, vars, Submit, Cancel, Begin, Skip, Return, Settle, Release, Push, Crash

-----------------------------------------------------------------------------
(* Types. *)

\* A step of a body leaves the deployment well typed.
LEMMA WorldType ==
  ASSUME TypeOK, NEW j \in Job, BodyStep(j), Target(j) \in Name
  PROVE  /\ records' \subseteq Name
         /\ checkout' \in [Name -> {"absent", "partial", "full"}]
         /\ source' \in [Name -> Commit]
         /\ images' \in [Name -> Commit]
         /\ containers' \in [Name -> Running]
<1> USE DEF TypeOK
<1>1. CASE StepFails(j) \/ Lookup(j) \/ Resolve(j) \/ ReadStatus(j)
  BY <1>1 DEF StepFails, Lookup, Resolve, ReadStatus, world
<1>2. CASE Clone(j) \/ CloneFinishes(j) \/ CloneCleansUp(j) \/ Pull(j)
  <2>1. head \in Commit
    BY DeployBounds DEF Commit
  <2> QED
    BY <1>2, <2>1 DEF Clone, CloneFinishes, CloneCleansUp, Pull
<1>3. CASE InsertRecord(j) \/ DeleteRecord(j)
  BY <1>3 DEF InsertRecord, DeleteRecord
<1>4. CASE RemoveSome(j) \/ RemoveAll(j)
  BY <1>4 DEF RemoveSome, RemoveAll
<1>5. CASE Build(j) \/ Ensure(j)
  BY <1>5 DEF Build, Ensure
<1>6. CASE Down(j) \/ Up(j) \/ HalfWay(j)
  <2>1. ASSUME NEW n \in Name, NEW run \in {"none", "some", "all"}, NEW c \in Commit, Run(n, run, c)
        PROVE  containers' \in [Name -> Running]
    BY <2>1 DEF Run, Running
  <2>2. 0 \in Commit
    BY DeployBounds DEF Commit
  <2>3. images[Target(j)] \in Commit /\ containers[Target(j)].commit \in Commit
    BY DEF Running
  <2>4. containers' \in [Name -> Running]
    BY <1>6, <2>1, <2>2, <2>3 DEF Down, Up, HalfWay
  <2> QED
    BY <1>6, <2>4 DEF Down, Up, HalfWay
<1> QED
  BY <1>1, <1>2, <1>3, <1>4, <1>5, <1>6 DEF BodyStep

\* A body has a target.
LEMMA ActiveHasTarget ==
  ASSUME JobsFollow, NEW j \in Job, phase[j] \in Held
  PROVE  Target(j) \in Name /\ request[j].kind \in AllKinds /\ status[j] # "none"
BY DEF JobsFollow, Held

\* Every step keeps every variable in its type.
LEMMA TypeStep ==
  ASSUME TypeOK, JobsFollow, [Next]_vars
  PROVE  TypeOK'
<1> USE DEF TypeOK, jobVars, bodyVars, world
<1>1. ASSUME NEW j \in Job, NEW kind \in Kind, NEW n \in Name, NEW named \in BOOLEAN,
             NEW build \in Flags(kind), Submit(j, kind, build, n, named)
      PROVE  TypeOK'
  <2>1. kind \in AllKinds /\ build \in BOOLEAN
    BY KindIsKnown DEF Flags
  <2>2. request' \in [Job -> [kind : AllKinds \cup {"none"}, build : BOOLEAN, target : Name \cup {NoName}]]
    BY <1>1, <2>1 DEF Submit
  <2> QED
    BY <1>1, <2>2 DEF Submit, Jobs!Submit
<1>2. ASSUME NEW j \in Job, Cancel(j) PROVE TypeOK'
  BY <1>2 DEF Cancel
<1>3. ASSUME NEW j \in Job, Begin(j) PROVE TypeOK'
  <2>1. step' \in [Job -> Step]
    BY <1>3, ProgramSteps DEF Begin
  <2> QED
    BY <1>3, <2>1 DEF Begin, Jobs!BeginBody, Jobs!Move
<1>4. ASSUME NEW j \in Job, Skip(j) \/ Return(j) \/ Release(j) PROVE TypeOK'
  BY <1>4 DEF Skip, Return, Release, Jobs!SkipBody, Jobs!EndBody, Jobs!Release, Jobs!Move
<1>5. ASSUME NEW j \in Job, BodyStep(j) PROVE TypeOK'
  <2>1. Target(j) \in Name
    BY <1>5, BodyMoves, ActiveHasTarget DEF Held
  <2>2. step' \in [Job -> Step] /\ result' \in [Job -> {"none", "ok", "error"}]
    <3>1. CASE UNCHANGED <<step, result>>
      BY <3>1
    <3>2. ASSUME NEW s, NEW r, GoesOn(j, s, r)
          PROVE  step' \in [Job -> Step] /\ result' \in [Job -> {"none", "ok", "error"}]
      <4>1. s \in Step /\ r \in {"none", "ok", "error"}
        BY <3>2, ProgramSteps DEF GoesOn, Failed, Continued, Ended, Step
      <4> QED
        BY <3>2, <4>1 DEF GoesOn
    <3> QED
      BY <1>5, <3>1, <3>2, BodyMoves
  <2>3. UNCHANGED <<jobVars, request, ctxDone, head, crashes>>
    BY <1>5, BodyMoves
  <2> QED
    BY <1>5, <2>1, <2>2, <2>3, WorldType
<1>6. ASSUME NEW j \in Job, Settle(j) PROVE TypeOK'
  <2>1. Outcome(j) \in Jobs!Terminal
    BY DEF Outcome, Jobs!Terminal
  <2> QED
    BY <1>6, <2>1 DEF Settle, Jobs!Settle
<1>7. CASE Push
  BY <1>7, DeployBounds DEF Push
<1>8. CASE Crash
  BY <1>8, DeployBounds DEF Crash, Jobs!Die
<1>9. CASE UNCHANGED vars
  BY <1>9 DEF vars
<1> QED
  BY <1>1, <1>2, <1>3, <1>4, <1>5, <1>6, <1>7, <1>8, <1>9 DEF Next

-----------------------------------------------------------------------------
(* The jobs. *)

\* Every step keeps JobsFollow: phases and rows go forward together.
LEMMA FollowStep ==
  ASSUME TypeOK, JobsFollow, [Next]_vars
  PROVE  JobsFollow'
<1> USE DEF TypeOK, JobsFollow, Target, jobVars, bodyVars
<1>1. ASSUME NEW j \in Job, NEW kind \in Kind, NEW n \in Name, NEW named \in BOOLEAN,
             NEW build \in Flags(kind), Submit(j, kind, build, n, named)
      PROVE  JobsFollow'
  <2> DEFINE r == [kind |-> kind, build |-> build, target |-> n]
  <2>1. kind \in AllKinds /\ (build => kind \in Flagged)
    BY KindIsKnown DEF Flags, Flagged
  <2>2. /\ request' = [request EXCEPT ![j] = r]
        /\ status[j] = "none" /\ status' = [status EXCEPT ![j] = "queued"]
        /\ deployment' = [deployment EXCEPT ![j] = IF named THEN n ELSE NoName]
        /\ UNCHANGED <<phase, result>>
        /\ ~named => kind = "create" /\ Unnamed
    BY <1>1 DEF Submit, Jobs!Submit
  <2>3. r.kind = kind /\ r.build = build /\ r.target = n
    OBVIOUS
  <2> HIDE DEF r
  <2> QED
    BY <2>1, <2>2, <2>3
<1>2. ASSUME NEW j \in Job, Cancel(j) PROVE JobsFollow'
  BY <1>2 DEF Cancel
<1>3. ASSUME NEW j \in Job, Begin(j) PROVE JobsFollow'
  BY <1>3 DEF Begin, Jobs!BeginBody, Jobs!Move, Jobs!Open
<1>4. ASSUME NEW j \in Job, Skip(j) PROVE JobsFollow'
  BY <1>4 DEF Skip, Jobs!SkipBody, Jobs!Move, Jobs!Open
<1>5. ASSUME NEW j \in Job, Return(j) \/ Release(j) PROVE JobsFollow'
  BY <1>5 DEF Return, Release, Jobs!EndBody, Jobs!Release, Jobs!Move
<1>6. ASSUME NEW j \in Job, BodyStep(j) PROVE JobsFollow'
  <2>1. /\ UNCHANGED <<status, deployment, phase, request>>
        /\ \A k \in Job \ {j} : result'[k] = result[k]
        /\ phase[j] = "active"
    BY <1>6, BodyMoves DEF GoesOn
  <2> QED
    BY <2>1
<1>7. ASSUME NEW j \in Job, Settle(j) PROVE JobsFollow'
  <2>1. Outcome(j) # "none"
    BY DEF Outcome
  <2> QED
    BY <1>7, <2>1 DEF Settle, Jobs!Settle, Jobs!Open
<1>8. CASE Push
  BY <1>8 DEF Push
<1>9. CASE Crash
  BY <1>9 DEF Crash, Jobs!Die
<1>10. CASE UNCHANGED vars
  BY <1>10 DEF vars
<1> QED
  BY <1>1, <1>2, <1>3, <1>4, <1>5, <1>6, <1>7, <1>8, <1>9, <1>10 DEF Next

\* Every step keeps Exclusive: a job waits until the others of its name are over.
LEMMA ExclusiveStep ==
  ASSUME TypeOK, JobsFollow, Exclusive, [Next]_vars
  PROVE  Exclusive'
<1> USE DEF TypeOK, Exclusive, Held, jobVars, bodyVars
<1>1. ASSUME NEW j \in Job, NEW kind \in Kind, NEW n \in Name, NEW named \in BOOLEAN,
             NEW build \in Flags(kind), Submit(j, kind, build, n, named)
      PROVE  Exclusive'
  BY <1>1 DEF Submit, Jobs!Submit, JobsFollow
<1>2. ASSUME NEW j \in Job, Begin(j) \/ Skip(j) PROVE Exclusive'
  BY <1>2 DEF Begin, Skip, Jobs!BeginBody, Jobs!SkipBody, Jobs!Move, Jobs!Free
<1>3. ASSUME NEW j \in Job, Return(j) \/ Release(j) PROVE Exclusive'
  BY <1>3 DEF Return, Release, Jobs!EndBody, Jobs!Release, Jobs!Move
<1>4. ASSUME NEW j \in Job, Cancel(j) \/ BodyStep(j) \/ Settle(j) PROVE Exclusive'
  BY <1>4, BodyMoves DEF Cancel, Settle, Jobs!Settle
<1>5. CASE Push \/ UNCHANGED vars
  BY <1>5 DEF Push, vars
<1>6. CASE Crash
  BY <1>6 DEF Crash, Jobs!Die
<1> QED
  BY <1>1, <1>2, <1>3, <1>4, <1>5, <1>6 DEF Next

\* Every step keeps BodyFollows: a body goes through the steps of its program.
LEMMA BodyFollowsStep ==
  ASSUME TypeOK, JobsFollow, BodyFollows, [Next]_vars
  PROVE  BodyFollows'
<1> USE DEF TypeOK, BodyFollows, jobVars, bodyVars
<1>1. ASSUME NEW j \in Job, NEW kind \in Kind, NEW n \in Name, NEW named \in BOOLEAN,
             NEW build \in Flags(kind), Submit(j, kind, build, n, named)
      PROVE  BodyFollows'
  <2>1. phase[j] = "waiting"
    BY <1>1 DEF JobsFollow, Submit, Jobs!Submit
  <2>2. UNCHANGED <<phase, step, result>> /\ \A k \in Job \ {j} : request'[k] = request[k]
    BY <1>1 DEF Submit, Jobs!Submit
  <2> QED
    BY <2>1, <2>2
<1>2. ASSUME NEW j \in Job, Begin(j) PROVE BodyFollows'
  <2>1. /\ phase[j] = "waiting" /\ phase' = [phase EXCEPT ![j] = "active"]
        /\ step' = [step EXCEPT ![j] = FirstStep(request[j])]
        /\ UNCHANGED <<request, result>>
        /\ status[j] # "none"
    BY <1>2 DEF Begin, Jobs!BeginBody, Jobs!Move, Jobs!Open
  <2>2. /\ request[j].kind \in AllKinds /\ result[j] = "none"
    BY <2>1 DEF JobsFollow
  <2>3. FirstStep(request[j]) \in StepsOf(request[j].kind) \ {"return"}
    BY <2>2, ProgramSteps
  <2> QED
    BY <2>1, <2>2, <2>3
<1>3. ASSUME NEW j \in Job, Skip(j) PROVE BodyFollows'
  BY <1>3 DEF Skip, Jobs!SkipBody, Jobs!Move
<1>4. ASSUME NEW j \in Job, Return(j) PROVE BodyFollows'
  BY <1>4 DEF Return, At, Jobs!EndBody, Jobs!Move
<1>5. ASSUME NEW j \in Job, Release(j) PROVE BodyFollows'
  BY <1>5 DEF Release, Jobs!Release, Jobs!Move
<1>6. ASSUME NEW j \in Job, BodyStep(j) PROVE BodyFollows'
  <2>1. /\ UNCHANGED <<phase, request>> /\ phase[j] = "active" /\ step[j] # "return"
        /\ request[j].kind \in AllKinds
    BY <1>6, BodyMoves, ActiveHasTarget DEF Held
  <2>2. CASE UNCHANGED <<step, result>>
    BY <2>1, <2>2
  <2>3. ASSUME NEW s, NEW r, GoesOn(j, s, r) PROVE BodyFollows'
    <3>1. s \in StepsOf(request[j].kind)
      BY <2>1, <2>3, ProgramSteps DEF GoesOn, Failed, Continued, Ended, StepsOf, AllKinds
    <3>2. s # "return" => r = "none"
      BY <2>3 DEF GoesOn, Failed, Continued, Ended
    <3>3. s = "return" => r \in {"ok", "error"}
      BY <2>3 DEF GoesOn, Failed, Continued, Ended
    <3>4. step' = [step EXCEPT ![j] = s] /\ result' = [result EXCEPT ![j] = r]
      BY <2>3 DEF GoesOn
    <3> QED
      BY <2>1, <3>1, <3>2, <3>3, <3>4
  <2> QED
    BY <1>6, <2>2, <2>3, BodyMoves
<1>7. ASSUME NEW j \in Job, Cancel(j) \/ Settle(j) PROVE BodyFollows'
  BY <1>7 DEF Cancel, Settle, Jobs!Settle
<1>8. CASE Push \/ UNCHANGED vars
  BY <1>8 DEF Push, vars
<1>9. CASE Crash
  BY <1>9 DEF Crash, Jobs!Die
<1> QED
  BY <1>1, <1>2, <1>3, <1>4, <1>5, <1>6, <1>7, <1>8, <1>9 DEF Next

-----------------------------------------------------------------------------
(* The deployment is listed while it is worked on. *)

\* A body that has looked its deployment up is no create, and has its mutex.
LEMMA FoundIsNamed ==
  ASSUME JobsFollow, BodyFollows, NEW j \in Job, phase[j] = "active", step[j] \in Found
  PROVE  deployment[j] = Target(j) /\ Target(j) \in Name
<1>1. request[j].kind \in AllKinds /\ Target(j) \in Name /\ step[j] \in StepsOf(request[j].kind)
  BY ActiveHasTarget DEF Held, BodyFollows
<1>2. request[j].kind # "create"
  BY <1>1 DEF StepsOf, Found
<1> QED
  BY <1>1, <1>2, ActiveHasTarget DEF JobsFollow, Held

\* Only a lookup leads to the steps that need the row.
LEMMA FoundComesFromLookup ==
  ASSUME NEW r, NEW s, NextStep(r, s) \in Found
  PROVE  s \in Found \cup {"lookup"} /\ s # "unrecord"
BY DEF NextStep, BuildOrEnsure, Found

\* Rows come and go by the last steps of a create and a delete.
LEMMA RecordsChange ==
  ASSUME NEW j \in Job, BodyStep(j)
  PROVE  \/ UNCHANGED records
         \/ step[j] = "insert" /\ Target(j) \notin records /\ records' = records \cup {Target(j)}
         \/ step[j] = "unrecord" /\ records' = records \ {Target(j)}
BY DEF BodyStep, StepFails, Lookup, Clone, CloneFinishes, CloneCleansUp, Resolve, InsertRecord,
       RemoveSome, RemoveAll, DeleteRecord, Pull, Build, ReadStatus, Ensure, Down, Up, HalfWay,
       At, world

\* A body that goes from its lookup to a later step has found the row.
LEMMA LookupFinds ==
  ASSUME NEW j \in Job, BodyStep(j), step[j] = "lookup"
  PROVE  \/ Target(j) \in records
         \/ Fail(j)
BY DEF BodyStep, StepFails, Lookup, Clone, CloneFinishes, CloneCleansUp, Resolve, InsertRecord,
       RemoveSome, RemoveAll, DeleteRecord, Pull, Build, ReadStatus, Ensure, Down, Up, HalfWay,
       Usable, At

\* The row that a body has found stays until the body is over.
LEMMA RowStaysStep ==
  ASSUME TypeOK, JobsFollow, Exclusive, BodyFollows, RowStays, [Next]_vars
  PROVE  RowStays'
<1> USE DEF RowStays, Target
<1>1. ASSUME NEW j \in Job, NEW kind \in Kind, NEW n \in Name, NEW named \in BOOLEAN,
             NEW build \in Flags(kind), Submit(j, kind, build, n, named)
      PROVE  RowStays'
  <2>1. phase[j] = "waiting"
    BY <1>1 DEF JobsFollow, Submit, Jobs!Submit
  <2>2. UNCHANGED <<phase, step, records>> /\ \A k \in Job \ {j} : request'[k] = request[k]
    BY <1>1 DEF TypeOK, Submit, Jobs!Submit, world
  <2> QED
    BY <2>1, <2>2
<1>2. ASSUME NEW j \in Job, Begin(j) PROVE RowStays'
  <2>1. FirstStep(request[j]) \notin Found
    BY DEF FirstStep, Found
  <2> QED
    BY <1>2, <2>1 DEF TypeOK, Begin, Jobs!BeginBody, Jobs!Move, world
<1>3. ASSUME NEW j \in Job, Skip(j) \/ Return(j) \/ Release(j) PROVE RowStays'
  BY <1>3 DEF TypeOK, Skip, Return, Release, Jobs!SkipBody, Jobs!EndBody, Jobs!Release, Jobs!Move,
              bodyVars, world
<1>4. ASSUME NEW j \in Job, BodyStep(j) PROVE RowStays'
  <2> SUFFICES ASSUME NEW k \in Job, phase'[k] = "active", step'[k] \in Found
               PROVE  Target(k) \in records'
    BY <1>4, BodyMoves
  <2>0. phase[k] = "active" /\ phase[j] = "active"
    BY <1>4, BodyMoves DEF jobVars
  <2>1. CASE k # j
    <3>1. step[k] \in Found
      BY <1>4, <2>1, BodyMoves DEF GoesOn, TypeOK
    <3>2. deployment[k] = Target(k) /\ Target(k) \in Name /\ Target(k) \in records
      BY <2>0, <3>1, FoundIsNamed
    <3>3. CASE step[j] = "unrecord"
      <4>1. deployment[j] = Target(j)
        BY <2>0, <3>3, FoundIsNamed DEF Found
      <4>2. Target(j) # Target(k)
        BY <2>0, <2>1, <3>2, <4>1 DEF Exclusive, Held
      <4> QED
        BY <1>4, <3>2, <4>2, RecordsChange
    <3>4. CASE step[j] # "unrecord"
      BY <1>4, <3>2, <3>4, RecordsChange
    <3> QED
      BY <3>3, <3>4
  <2>2. CASE k = j
    <3>1. CASE step[j] = "remove" /\ UNCHANGED <<step, result>>
      BY <1>4, <2>0, <2>2, <3>1, RecordsChange DEF Found
    <3>2. ASSUME NEW s, NEW r, GoesOn(j, s, r)
          PROVE  Target(j) \in records'
      <4>1. s \in Found
        BY <2>2, <3>2 DEF GoesOn, TypeOK
      <4>2. s = NextStep(request[j], step[j])
        BY <3>2, <4>1 DEF GoesOn, Failed, Continued, Ended, Found
      <4>3. step[j] \in Found \cup {"lookup"} /\ step[j] # "unrecord"
        BY <4>1, <4>2, FoundComesFromLookup
      <4>4. ~Fail(j)
        BY <3>2, <4>1 DEF Fail, Goto, GoesOn, Found, TypeOK
      <4>5. Target(j) \in records
        BY <1>4, <2>0, <4>3, <4>4, LookupFinds
      <4> QED
        BY <1>4, <4>3, <4>5, RecordsChange
    <3> QED
      BY <1>4, <2>2, <3>1, <3>2, BodyMoves
  <2> QED
    BY <2>1, <2>2
<1>5. ASSUME NEW j \in Job, Cancel(j) \/ Settle(j) PROVE RowStays'
  BY <1>5 DEF Cancel, Settle, Jobs!Settle, jobVars, bodyVars, world
<1>6. CASE Push \/ UNCHANGED vars
  BY <1>6 DEF Push, vars, jobVars, bodyVars, world
<1>7. CASE Crash
  BY <1>7 DEF Crash, Jobs!Die, bodyVars, world
<1> QED
  BY <1>1, <1>2, <1>3, <1>4, <1>5, <1>6, <1>7 DEF Next

\* Images and containers are touched by bodies that have found their row.
LEMMA TouchNeedsRow ==
  ASSUME TypeOK, JobsFollow, BodyFollows, RowStays, NEW j \in Job, BodyStep(j)
  PROVE  ListedStep
<1> SUFFICES ASSUME NEW n \in Name, images'[n] # images[n] \/ containers'[n] # containers[n]
             PROVE  n \in records
  BY DEF ListedStep
<1>1. n = Target(j)
  BY BodyStays DEF SameWorldAt
<1>2. step[j] \in {"build", "ensure", "down", "up"}
  BY DEF BodyStep, StepFails, Lookup, Clone, CloneFinishes, CloneCleansUp, Resolve, InsertRecord,
         RemoveSome, RemoveAll, DeleteRecord, Pull, Build, ReadStatus, Ensure, Down, Up, HalfWay,
         Usable, At, world
<1>3. phase[j] = "active"
  BY BodyMoves
<1> QED
  BY <1>1, <1>2, <1>3 DEF RowStays, Found

-----------------------------------------------------------------------------
(* Commits. *)

\* What runs is never newer than the images, nor the images than the checkout,
\* nor the checkout than the upstream repository, even when a create without a
\* name works on the same directory.
LEMMA BuiltStep ==
  ASSUME TypeOK, TypeOK', JobsFollow, Built, [Next]_vars
  PROVE  Built'
<1> USE DEF Built, RunsWhatWasBuilt
<1>t. /\ source \in [Name -> Nat] /\ images \in [Name -> Nat] /\ head \in Nat
      /\ \A n \in Name : containers[n].commit \in Nat
  BY DeployBounds DEF TypeOK, Commit, Running
<1>1. CASE UNCHANGED world /\ head <= head'
  <2>1. head' \in Nat
    BY DeployBounds DEF TypeOK
  <2> QED
    BY <1>1, <1>t, <2>1 DEF world
<1>2. ASSUME NEW j \in Job, BodyStep(j) PROVE Built'
  <2>1. UNCHANGED head /\ Target(j) \in Name
    BY <1>2, BodyMoves, ActiveHasTarget DEF Held
  <2> SUFFICES ASSUME NEW n \in Name
               PROVE  containers'[n].commit <= images'[n] /\ images'[n] <= source'[n] /\ source'[n] <= head
    BY <2>1
  <2>2. CASE n # Target(j)
    BY <1>2, <2>2, BodyStays DEF SameWorldAt
  <2>3. CASE n = Target(j)
    <3>1. CASE UNCHANGED <<source, images, containers>>
      BY <3>1
    <3>2. CASE CloneFinishes(j) \/ Pull(j)
      BY <1>t, <2>3, <3>2 DEF CloneFinishes, Pull
    <3>3. CASE Build(j) \/ Ensure(j)
      BY <1>t, <2>3, <3>3 DEF Build, Ensure
    <3>4. CASE Down(j) \/ Up(j) \/ HalfWay(j)
      <4>1. UNCHANGED <<source, images>>
        BY <3>4 DEF Down, Up, HalfWay
      <4>2. containers'[n].commit \in {0, images[n], containers[n].commit}
        BY <2>3, <3>4 DEF Down, Up, HalfWay, Run, TypeOK
      <4> QED
        BY <1>t, <4>1, <4>2
    <3>5. CASE \/ StepFails(j) \/ Lookup(j) \/ Clone(j) \/ CloneCleansUp(j) \/ Resolve(j)
               \/ InsertRecord(j) \/ RemoveSome(j) \/ RemoveAll(j) \/ DeleteRecord(j) \/ ReadStatus(j)
      <4>1. UNCHANGED <<source, images, containers>>
        BY <3>5 DEF StepFails, Lookup, Clone, CloneCleansUp, Resolve, InsertRecord, RemoveSome,
                    RemoveAll, DeleteRecord, ReadStatus, world
      <4> QED
        BY <3>1, <4>1
    <3> QED
      BY <1>2, <3>2, <3>3, <3>4, <3>5 DEF BodyStep
  <2> QED
    BY <2>2, <2>3
<1>3. CASE ~\E j \in Job : BodyStep(j)
  <2>1. UNCHANGED world
    BY <1>3, OthersAreQuiet
  <2>2. head <= head'
    BY <1>t, <1>3 DEF Next, vars, Submit, Cancel, Begin, Skip, Return, Settle, Release, Push, Crash
  <2> QED
    BY <1>1, <2>1, <2>2
<1> QED
  BY <1>2, <1>3

-----------------------------------------------------------------------------
(* The theorems for clients that create with and without a name. *)

\* The invariant holds when the daemon starts, whatever it finds.
LEMMA InitIInv == Init \/ InitEarlier => IInv
<1> SUFFICES ASSUME Init \/ InitEarlier PROVE IInv
  OBVIOUS
<1>1. NoJobYet
  BY DEF Init, InitEarlier
<1>2. JobsFollow /\ Exclusive /\ BodyFollows /\ RowStays
  BY <1>1 DEF NoJobYet, Jobs!Init, JobsFollow, Exclusive, BodyFollows, RowStays, Held
<1>3. 1..MaxHead \subseteq Commit /\ 0 \in Commit /\ MaxHead \in Nat \ {0} /\ MaxCrash \in Nat
  BY DeployBounds DEF Commit
<1>4. /\ status \in [Job -> {"none", "queued", "running"} \cup Jobs!Terminal]
      /\ deployment \in [Job -> Name \cup {NoName}]
      /\ phase \in [Job -> {"waiting", "active", "settling", "over"}]
      /\ request \in [Job -> [kind : AllKinds \cup {"none"}, build : BOOLEAN, target : Name \cup {NoName}]]
      /\ step \in [Job -> Step]
      /\ result \in [Job -> {"none", "ok", "error"}]
      /\ ctxDone \subseteq Job
      /\ crashes \in 0..MaxCrash
  BY <1>1, <1>3 DEF NoJobYet, Jobs!Init, Step
<1>5. /\ records \subseteq Name
      /\ checkout \in [Name -> {"absent", "partial", "full"}]
      /\ source \in [Name -> Commit]
      /\ images \in [Name -> Commit]
      /\ containers \in [Name -> Running]
      /\ head \in 1..MaxHead
  <2>1. Stopped \in Running /\ Runs \subseteq Running
    BY <1>3 DEF Stopped, Runs, Running
  <2>2. CASE Init
    BY <1>3, <2>1, <2>2 DEF Init
  <2>3. CASE InitEarlier
    BY <1>3, <2>1, <2>3 DEF InitEarlier
  <2> QED
    BY <2>2, <2>3
<1>6. Built
  <2>1. CASE Init
    BY <1>3, <2>1 DEF Init, Built, RunsWhatWasBuilt, Stopped
  <2>2. CASE InitEarlier
    BY <1>3, <2>2 DEF InitEarlier, Built, RunsWhatWasBuilt
  <2> QED
    BY <2>1, <2>2
<1> QED
  BY <1>2, <1>4, <1>5, <1>6 DEF IInv, TypeOK

\* Every step keeps the invariant.
LEMMA NextIInv == IInv /\ [Next]_vars => IInv'
<1> SUFFICES ASSUME IInv, [Next]_vars PROVE IInv'
  OBVIOUS
<1>1. TypeOK'
  BY TypeStep DEF IInv
<1>2. JobsFollow' /\ Exclusive' /\ BodyFollows'
  BY FollowStep, ExclusiveStep, BodyFollowsStep DEF IInv
<1>3. RowStays' /\ Built'
  BY <1>1, RowStaysStep, BuiltStep DEF IInv
<1> QED
  BY <1>1, <1>2, <1>3 DEF IInv

\* The invariant holds always, after any history of the deployments.
THEOREM Invariance == EarlierSpec => []IInv
<1> QED
  BY InitIInv, NextIInv, PTL DEF EarlierSpec

\* Every variable keeps its type.
THEOREM TypeCorrect == EarlierSpec => []TypeOK
<1>1. IInv => TypeOK
  BY DEF IInv
<1> QED
  BY <1>1, Invariance, PTL

\* What runs was built from a commit that was pulled: no order of updates,
\* builds, failed starts, deletes and re-creations, crashes or cancels runs
\* something newer than the build, or has a build newer than the checkout.
THEOREM NothingNewer == EarlierSpec => []RunsWhatWasBuilt
<1>1. IInv => RunsWhatWasBuilt
  BY DEF IInv, Built
<1> QED
  BY <1>1, Invariance, PTL

\* Images and containers are touched only while the deployment is listed: a
\* body looks its row up when it begins, and the row stays until it is over.
THEOREM ListedOnly == EarlierSpec => OnlyListedIsTouched
<1>1. IInv /\ [Next]_vars => [ListedStep]_vars
  <2> SUFFICES ASSUME IInv, [Next]_vars PROVE ListedStep
    OBVIOUS
  <2>1. CASE \E j \in Job : BodyStep(j)
    BY <2>1, TouchNeedsRow DEF IInv
  <2>2. CASE ~\E j \in Job : BodyStep(j)
    BY <2>2, OthersAreQuiet DEF ListedStep, world
  <2> QED
    BY <2>1, <2>2
<1> QED
  BY <1>1, Invariance, PTL DEF EarlierSpec, OnlyListedIsTouched

\* The jobs, with the bodies that this module gives them, are still the jobs
\* that the runner promises.
THEOREM BodiesAreJobs == EarlierSpec => Jobs!Spec
<1>1. Init \/ InitEarlier => Jobs!Init
  BY DEF Init, InitEarlier, NoJobYet
<1>2. IInv /\ [Next]_vars => [Jobs!Next]_(Jobs!vars)
  <2> SUFFICES ASSUME IInv, [Next]_vars PROVE [Jobs!Next]_(Jobs!vars)
    OBVIOUS
  <2> USE DEF Jobs!Next, Jobs!vars
  <2>1. ASSUME NEW j \in Job, NEW kind \in Kind, NEW n \in Name, NEW named \in BOOLEAN,
               NEW build \in Flags(kind), Submit(j, kind, build, n, named)
        PROVE  Jobs!Next
    <3>1. \E m \in Name \cup {NoName} : Jobs!Submit(j, m)
      BY <2>1 DEF Submit
    <3> QED
      BY <3>1
  <2>2. ASSUME NEW j \in Job, Begin(j) \/ Skip(j) \/ Release(j) PROVE Jobs!Next
    BY <2>2 DEF Begin, Skip, Release
  <2>3. ASSUME NEW j \in Job, Return(j) PROVE Jobs!Next
    BY <2>3 DEF Return
  <2>4. ASSUME NEW j \in Job, Settle(j) PROVE Jobs!Next
    <3>1. Outcome(j) \in Jobs!Terminal
      BY DEF Outcome, Jobs!Terminal
    <3> QED
      BY <2>4, <3>1 DEF Settle
  <2>5. ASSUME NEW j \in Job, Cancel(j) \/ BodyStep(j) PROVE UNCHANGED Jobs!vars
    BY <2>5, BodyMoves DEF Cancel, jobVars
  <2>6. CASE Push \/ UNCHANGED vars
    BY <2>6 DEF Push, vars, jobVars
  <2>7. CASE Crash
    BY <2>7 DEF Crash
  <2> QED
    BY <2>1, <2>2, <2>3, <2>4, <2>5, <2>6, <2>7 DEF Next
<1> QED
  BY <1>1, <1>2, Invariance, PTL DEF EarlierSpec, Jobs!Spec

-----------------------------------------------------------------------------
(* Rows and directories, for clients that create with and without a name.  *)

\* The step of a body tells what it can do.
LEMMA StepTells ==
  ASSUME NEW j \in Job, BodyStep(j)
  PROVE  /\ step[j] = "lookup" => StepFails(j) \/ Lookup(j)
         /\ step[j] = "clone" => StepFails(j) \/ Clone(j)
         /\ step[j] = "cloning" => StepFails(j) \/ CloneFinishes(j) \/ CloneCleansUp(j)
         /\ step[j] = "resolve" => StepFails(j) \/ Resolve(j)
         /\ step[j] = "insert" => StepFails(j) \/ InsertRecord(j)
         /\ step[j] = "remove" => StepFails(j) \/ RemoveSome(j) \/ RemoveAll(j)
         /\ step[j] = "unrecord" => StepFails(j) \/ DeleteRecord(j)
         /\ step[j] \notin {"clone", "cloning", "remove"} => UNCHANGED checkout
         /\ step[j] \notin {"insert", "unrecord"} => UNCHANGED records
BY DEF BodyStep, StepFails, Lookup, Clone, CloneFinishes, CloneCleansUp, Resolve, InsertRecord,
       RemoveSome, RemoveAll, DeleteRecord, Pull, Build, ReadStatus, Ensure, Down, Up, HalfWay,
       Usable, At, world

\* The step of a body tells its kind.
LEMMA StepTellsKind ==
  ASSUME JobsFollow, BodyFollows, NEW j \in Job, phase[j] = "active"
  PROVE  /\ step[j] \in Making \cup {"clone"} => request[j].kind = "create"
         /\ step[j] \in {"remove", "unrecord"} => request[j].kind = "delete"
<1>1. request[j].kind \in AllKinds /\ step[j] \in StepsOf(request[j].kind)
  BY ActiveHasTarget DEF Held, BodyFollows
<1> QED
  BY <1>1 DEF AllKinds, StepsOf, Making

\* A create and a delete return without an error from their last step only.
LEMMA LastStep ==
  ASSUME NEW r, NEW s, NextStep(r, s) = "return"
  PROVE  /\ r.kind = "create" /\ s \in StepsOf("create") => s \in {"insert", "return"}
         /\ r.kind = "delete" /\ s \in StepsOf("delete") => s \in {"unrecord", "return"}
BY DEF NextStep, BuildOrEnsure, StepsOf

\* Only a body that returned without an error succeeds, and it stays so.
LEMMA ResultFirstStep ==
  ASSUME TypeOK, JobsFollow, BodyFollows, ResultFirst, [Next]_vars
  PROVE  ResultFirst'
<1> USE DEF TypeOK, ResultFirst, jobVars, bodyVars
<1>1. ASSUME NEW j \in Job, NEW kind \in Kind, NEW n \in Name, NEW named \in BOOLEAN,
             NEW build \in Flags(kind), Submit(j, kind, build, n, named)
      PROVE  ResultFirst'
  BY <1>1 DEF Submit, Jobs!Submit
<1>2. ASSUME NEW j \in Job, Begin(j) \/ Cancel(j) PROVE ResultFirst'
  BY <1>2 DEF Begin, Cancel, Jobs!BeginBody, Jobs!Move, Jobs!Open
<1>3. ASSUME NEW j \in Job, Skip(j) PROVE ResultFirst'
  BY <1>3 DEF Skip, Jobs!SkipBody, Jobs!Move, Jobs!Open
<1>4. ASSUME NEW j \in Job, Return(j) \/ Release(j) PROVE ResultFirst'
  BY <1>4 DEF Return, Release, Jobs!EndBody, Jobs!Release, Jobs!Move
<1>5. ASSUME NEW j \in Job, BodyStep(j) PROVE ResultFirst'
  <2>1. /\ UNCHANGED <<status, phase>> /\ phase[j] = "active"
        /\ \A k \in Job \ {j} : result'[k] = result[k]
    BY <1>5, BodyMoves DEF GoesOn
  <2> QED
    BY <2>1
<1>6. ASSUME NEW j \in Job, Settle(j) PROVE ResultFirst'
  <2>1. Outcome(j) = "succeeded" => result[j] = "ok"
    BY <1>6 DEF Outcome, BodyFollows, Settle, Jobs!Settle
  <2> QED
    BY <1>6, <2>1 DEF Settle, Jobs!Settle
<1>7. CASE Push \/ UNCHANGED vars
  BY <1>7 DEF Push, vars
<1>8. CASE Crash
  BY <1>8 DEF Crash, Jobs!Die
<1> QED
  BY <1>1, <1>2, <1>3, <1>4, <1>5, <1>6, <1>7, <1>8 DEF Next

\* A job that has begun keeps its request.
LEMMA RequestStays ==
  ASSUME TypeOK, JobsFollow, [Next]_vars, NEW j \in Job, phase[j] # "waiting"
  PROVE  request'[j] = request[j] /\ phase'[j] # "waiting"
<1> USE DEF TypeOK, jobVars, bodyVars
<1>1. ASSUME NEW k \in Job, NEW kind \in Kind, NEW n \in Name, NEW named \in BOOLEAN,
             NEW build \in Flags(kind), Submit(k, kind, build, n, named)
      PROVE  request'[j] = request[j] /\ phase' = phase
  BY <1>1 DEF Submit, Jobs!Submit, JobsFollow
<1>2. ASSUME NEW k \in Job,
             \/ Begin(k) \/ Cancel(k) \/ Skip(k) \/ Return(k) \/ Settle(k) \/ Release(k) \/ BodyStep(k)
      PROVE  request' = request /\ phase'[j] # "waiting"
  BY <1>2, BodyMoves DEF Begin, Cancel, Skip, Return, Settle, Release, Jobs!BeginBody, Jobs!SkipBody,
     Jobs!EndBody, Jobs!Settle, Jobs!Release, Jobs!Move
<1>3. CASE Push \/ Crash \/ UNCHANGED vars
  BY <1>3 DEF Push, Crash, vars, Jobs!Die
<1> QED
  BY <1>1, <1>2, <1>3 DEF Next

\* Only a body changes the result of a job that has begun.
LEMMA ResultStays ==
  ASSUME TypeOK, JobsFollow, [Next]_vars, NEW j \in Job, phase[j] # "waiting", ~BodyStep(j)
  PROVE  result'[j] = result[j]
<1> USE DEF TypeOK, jobVars, bodyVars
<1>1. ASSUME NEW k \in Job, BodyStep(k) PROVE result'[j] = result[j]
  <2>1. k # j
    BY <1>1
  <2> QED
    BY <1>1, <2>1, BodyMoves DEF GoesOn
<1>2. ASSUME NEW k \in Job, Skip(k) PROVE result'[j] = result[j]
  BY <1>2 DEF Skip, Jobs!SkipBody, Jobs!Move
<1> QED
  BY <1>1, <1>2 DEF Next, Submit, Begin, Cancel, Return, Settle, Release, Push, Crash, vars

\* A body that gave up does not change its mind.
LEMMA GaveUpStays ==
  ASSUME TypeOK, JobsFollow, [Next]_vars, NEW j \in Job, GaveUp(j)
  PROVE  GaveUp(j)' /\ request'[j] = request[j]
<1> USE DEF TypeOK, GaveUp, jobVars, bodyVars
<1>1. request'[j] = request[j] /\ phase[j] # "waiting"
  BY RequestStays
<1>2. ~BodyStep(j)
  BY BodyMoves
<1>3. result'[j] = result[j]
  BY <1>1, <1>2, ResultStays
<1>4. \/ phase'[j] \in {"settling", "over"}
      \/ phase'[j] = "active" /\ step'[j] = "return"
  <2>1. ASSUME NEW k \in Job, Begin(k) PROVE phase'[j] = phase[j] /\ step'[j] = step[j]
    BY <1>1, <2>1 DEF Begin, Jobs!BeginBody, Jobs!Move
  <2>2. ASSUME NEW k \in Job, BodyStep(k) PROVE phase'[j] = phase[j] /\ step'[j] = step[j]
    <3>1. k # j
      BY <1>2, <2>2
    <3> QED
      BY <2>2, <3>1, BodyMoves DEF GoesOn
  <2>3. ASSUME NEW k \in Job, Skip(k) \/ Return(k) \/ Release(k)
        PROVE  phase'[j] \in {phase[j], "settling", "over"} /\ UNCHANGED step
    BY <2>3 DEF Skip, Return, Release, Jobs!SkipBody, Jobs!EndBody, Jobs!Release, Jobs!Move
  <2>4. CASE Crash
    BY <2>4 DEF Crash, Jobs!Die
  <2>5. ASSUME NEW k \in Job, Cancel(k) \/ Settle(k) PROVE UNCHANGED <<phase, step>>
    BY <2>5 DEF Cancel, Settle, Jobs!Settle
  <2>6. ASSUME NEW k \in Job, NEW kind \in Kind, NEW n \in Name, NEW named \in BOOLEAN,
               NEW build \in Flags(kind), Submit(k, kind, build, n, named)
        PROVE  UNCHANGED <<phase, step>>
    BY <2>6 DEF Submit, Jobs!Submit
  <2>7. CASE Push \/ UNCHANGED vars
    BY <2>7 DEF Push, vars
  <2> QED
    BY <2>1, <2>2, <2>3, <2>4, <2>5, <2>6, <2>7 DEF Next
<1> QED
  BY <1>1, <1>3, <1>4

\* A job that is in its body was there before, or begins.
LEMMA ActiveBefore ==
  ASSUME TypeOK, JobsFollow, [Next]_vars, NEW j \in Job, phase'[j] = "active"
  PROVE  /\ request'[j] = request[j]
         /\ \/ phase[j] = "active" /\ BodyStep(j)
            \/ phase[j] = "active" /\ ~BodyStep(j) /\ step'[j] = step[j]
            \/ phase[j] = "waiting" /\ step'[j] = FirstStep(request[j])
<1> USE DEF TypeOK, jobVars, bodyVars
<1>1. ASSUME NEW k \in Job, NEW kind \in Kind, NEW n \in Name, NEW named \in BOOLEAN,
             NEW build \in Flags(kind), Submit(k, kind, build, n, named)
      PROVE  phase[j] = "active" /\ step'[j] = step[j] /\ request'[j] = request[j]
  BY <1>1 DEF Submit, Jobs!Submit, JobsFollow
<1>2. ASSUME NEW k \in Job, Begin(k)
      PROVE  /\ request'[j] = request[j]
             /\ \/ phase[j] = "active" /\ step'[j] = step[j]
                \/ phase[j] = "waiting" /\ step'[j] = FirstStep(request[j])
  BY <1>2 DEF Begin, Jobs!BeginBody, Jobs!Move
<1>3. ASSUME NEW k \in Job, Skip(k) \/ Return(k) \/ Release(k)
      PROVE  phase[j] = "active" /\ step' = step /\ request' = request
  BY <1>3 DEF Skip, Return, Release, Jobs!SkipBody, Jobs!EndBody, Jobs!Release, Jobs!Move
<1>4. ASSUME NEW k \in Job, Cancel(k) \/ Settle(k)
      PROVE  phase[j] = "active" /\ step' = step /\ request' = request
  BY <1>4 DEF Cancel, Settle, Jobs!Settle
<1>5. ASSUME NEW k \in Job, BodyStep(k)
      PROVE  /\ phase[j] = "active" /\ request' = request
             /\ k = j \/ step'[j] = step[j]
  BY <1>5, BodyMoves DEF GoesOn
<1>6. CASE Push \/ UNCHANGED vars
  BY <1>6 DEF Push, vars
<1>7. CASE Crash
  BY <1>7 DEF Crash, Jobs!Die, JobsFollow
<1>8. \A k \in Job : BodyStep(k) => phase[k] = "active"
  BY BodyMoves
<1> QED
  BY <1>1, <1>2, <1>3, <1>4, <1>5, <1>6, <1>7, <1>8 DEF Next

\* A create that is not over stays so until it has inserted its row.
LEMMA UnendedStays ==
  ASSUME TypeOK, JobsFollow, BodyFollows, [Next]_vars, NEW n \in Name, Unended("create", n)
  PROVE  Unended("create", n)' \/ (n \notin records /\ n \in records')
<1> USE DEF Target
<1>1. PICK j \in Job : request[j].kind = "create" /\ Target(j) = n /\ phase[j] # "waiting" /\ result[j] # "ok"
  BY DEF Unended
<1>2. request'[j] = request[j] /\ phase'[j] # "waiting"
  BY <1>1, RequestStays
<1>3. CASE result'[j] # "ok"
  <2>1. request'[j].kind = "create" /\ request'[j].target = n /\ phase'[j] # "waiting"
    BY <1>1, <1>2
  <2> QED
    BY <1>3, <2>1 DEF Unended
<1>4. CASE result'[j] = "ok"
  <2>1. BodyStep(j)
    BY <1>1, <1>4, ResultStays
  <2>2. phase[j] = "active" /\ step[j] # "return" /\ step[j] \in StepsOf("create")
    BY <1>1, <2>1, BodyMoves DEF BodyFollows
  <2>3. PICK s, r : GoesOn(j, s, r)
    BY <1>1, <1>4, <2>1, BodyMoves
  <2>4. r = "ok"
    BY <1>4, <2>3 DEF GoesOn, TypeOK
  <2>5. step[j] # "status"
    BY <2>2 DEF StepsOf
  <2>6. NextStep(request[j], step[j]) = "return"
    BY <2>3, <2>4, <2>5 DEF GoesOn, Failed, Continued, Ended
  <2>7. step[j] = "insert"
    BY <1>1, <2>2, <2>6, LastStep
  <2>8. ~StepFails(j)
    BY <1>4 DEF StepFails, Fail, Goto, TypeOK
  <2>9. InsertRecord(j)
    BY <2>1, <2>7, <2>8, StepTells
  <2> QED
    BY <1>1, <2>9 DEF InsertRecord
<1> QED
  BY <1>3, <1>4

\* Only a create that begins to clone makes a directory.
LEMMA AbsentOrMade ==
  ASSUME TypeOK, JobsFollow, BodyFollows, [Next]_vars, NEW n \in Name, checkout[n] = "absent"
  PROVE  checkout'[n] = "absent" \/ Unended("create", n)'
<1>1. ASSUME NEW j \in Job, BodyStep(j), checkout'[n] # "absent" PROVE Unended("create", n)'
  <2>1. Target(j) = n /\ phase[j] = "active"
    BY <1>1, BodyStays, BodyMoves DEF SameWorldAt
  <2>2. step[j] \in {"clone", "cloning", "remove"}
    BY <1>1, StepTells
  <2>3. Clone(j)
    BY <1>1, <2>1, <2>2, StepTells DEF StepFails, CloneFinishes, CloneCleansUp, RemoveSome, RemoveAll,
       TypeOK, world
  <2>4. request[j].kind = "create" /\ step[j] = "clone"
    BY <2>1, <2>3, StepTellsKind DEF Clone, At
  <2>5. result'[j] = "none"
    BY <2>3, <2>4 DEF Clone, Continue, NextStep, Goto, TypeOK
  <2>6. UNCHANGED <<phase, request>>
    BY <1>1, BodyMoves DEF jobVars
  <2> QED
    BY <2>1, <2>4, <2>5, <2>6 DEF Unended, Target
<1>2. CASE ~\E j \in Job : BodyStep(j)
  BY <1>2, OthersAreQuiet DEF world
<1> QED
  BY <1>1, <1>2

\* Every step keeps Orphans: a row goes only after its directory.
LEMMA OrphansStep ==
  ASSUME TypeOK, JobsFollow, BodyFollows, RowStays, Orphans, [Next]_vars
  PROVE  Orphans'
<1> USE DEF Orphans
<1>1. ASSUME NEW n \in Name, n \notin records' PROVE checkout'[n] = "absent" \/ Unended("create", n)'
  <2>1. CASE checkout[n] = "absent" \/ Unended("create", n)
    BY <1>1, <2>1, UnendedStays, AbsentOrMade
  <2>2. CASE n \in records
    <3>1. PICK j \in Job : BodyStep(j)
      BY <1>1, <2>2, OthersAreQuiet DEF world
    <3>2. step[j] = "unrecord" /\ Target(j) = n
      BY <1>1, <2>2, <3>1, RecordsChange
    <3>3. checkout[n] = "absent" \/ Unended("create", n)
      BY <3>1, <3>2, BodyMoves
    <3> QED
      BY <2>1, <3>3
  <2> QED
    BY <2>1, <2>2
<1>2. ASSUME NEW k \in Job, phase'[k] = "active", step'[k] = "unrecord"
      PROVE  (checkout[Target(k)] = "absent" \/ Unended("create", Target(k)))'
  <2>4. FirstStep(request[k]) # "unrecord"
    BY DEF FirstStep
  <2>0. PICK n \in Name : n = Target(k)
    BY <1>2, <2>4, ActiveBefore, ActiveHasTarget DEF Held
  <2>1. Target(k)' = n
    BY <1>2, <2>0, ActiveBefore DEF Target
  <2>2. CASE phase[k] = "active" /\ step[k] = "unrecord"
    <3>1. n \in records
      BY <2>0, <2>2 DEF RowStays, Found
    <3>2. checkout[n] = "absent" \/ Unended("create", n)
      BY <2>0, <2>2
    <3>3. checkout'[n] = "absent" \/ Unended("create", n)'
      BY <3>1, <3>2, UnendedStays, AbsentOrMade
    <3> QED
      BY <2>1, <3>3 DEF Unended
  <2>3. CASE BodyStep(k) /\ step[k] # "unrecord"
    <3>1. PICK s, r : GoesOn(k, s, r)
      BY <1>2, <2>3, BodyMoves
    <3>2. NextStep(request[k], step[k]) = "unrecord"
      BY <1>2, <3>1 DEF GoesOn, Failed, Continued, Ended, TypeOK
    <3>3. step[k] = "remove"
      BY <3>2 DEF NextStep, BuildOrEnsure
    <3>4. RemoveAll(k)
      BY <1>2, <2>3, <3>3, StepTells DEF StepFails, Fail, Goto, RemoveSome, bodyVars, TypeOK
    <3>5. checkout'[n] = "absent"
      BY <2>0, <3>4 DEF RemoveAll, TypeOK
    <3> QED
      BY <2>1, <3>5
  <2> QED
    BY <1>2, <2>2, <2>3, <2>4, ActiveBefore
<1> QED
  BY <1>1, <1>2

\* Deletes of one deployment exclude each other: their requests have its name.
LEMMA DeletesAlone ==
  ASSUME JobsFollow, Exclusive, NEW j \in Job, NEW k \in Job,
         phase[j] = "active", phase[k] = "active", request[j].kind = "delete",
         request[k].kind = "delete", Target(j) = Target(k)
  PROVE  j = k
<1>1. deployment[j] = Target(j) /\ deployment[k] = Target(k) /\ Target(j) \in Name
  BY ActiveHasTarget DEF JobsFollow, Held
<1> QED
  BY <1>1 DEF Exclusive, Held

\* A step of a body leaves the counters of the others.
LEMMA OthersStand ==
  ASSUME TypeOK, NEW j \in Job, BodyStep(j), NEW k \in Job, k # j, NEW n, NEW S
  PROVE  /\ Makes(k, n)' <=> Makes(k, n)
         /\ Deletes(k, n, S)' <=> Deletes(k, n, S)
         /\ step'[k] = step[k]
<1>1. UNCHANGED <<phase, request>> /\ step'[k] = step[k]
  BY BodyMoves DEF jobVars, GoesOn, TypeOK
<1> QED
  BY <1>1 DEF Makes, Deletes, Target

\* What does not touch n leaves its creates and deletes, or loses a delete.
LEMMA OutsideTidy ==
  ASSUME TypeOK, JobsFollow, BodyFollows, [Next]_vars, NEW n \in Name, Tidy(n), SameWorldAt(n),
         \A j \in Job : BodyStep(j) => Target(j) # n
  PROVE  Lost(n)' \/ Tidy(n)'
<1>1. ASSUME NEW j \in Job, Makes(j, n)' PROVE Makes(j, n) /\ step'[j] = step[j]
  <2>1. FirstStep(request[j]) \notin Making
    BY DEF FirstStep, Making
  <2> QED
    BY <1>1, <2>1, ActiveBefore DEF Makes, Target
<1>2. ASSUME NEW j \in Job, Deletes(j, n, {"remove"})' PROVE Deletes(j, n, {"remove"})
  <2>1. FirstStep(request[j]) # "remove"
    BY DEF FirstStep
  <2> QED
    BY <1>2, <2>1, ActiveBefore DEF Deletes, Target
<1>3. ASSUME ~Lost(n)', NEW j \in Job, NEW S \in SUBSET {"remove", "unrecord"}, Deletes(j, n, S)
      PROVE  Deletes(j, n, S)'
  <2>1. phase[j] = "active" /\ step[j] \in S /\ Target(j) = n /\ ~BodyStep(j)
    BY <1>3 DEF Deletes
  <2>2. request[j].kind = "delete" /\ result[j] = "none"
    BY <2>1, StepTellsKind DEF BodyFollows
  <2>3. request'[j] = request[j] /\ result'[j] = "none"
    BY <2>1, <2>2, RequestStays, ResultStays
  <2>4. phase'[j] \notin {"settling", "over"}
    BY <1>3, <2>1, <2>2, <2>3 DEF Lost, GaveUp, Target
  <2>5. phase'[j] = "active"
    BY <2>1, <2>4, RequestStays, TypeStep DEF TypeOK
  <2> QED
    BY <2>1, <2>3, <2>5, ActiveBefore DEF Deletes, Target
<1> SUFFICES ASSUME ~Lost(n)' PROVE Tidy(n)'
  OBVIOUS
<1>4. \A j, k \in Job : Makes(j, n)' /\ Makes(k, n)' => j = k
  BY <1>1 DEF Tidy
<1>5. ASSUME NEW j \in Job, Makes(j, n)'
      PROVE  /\ checkout'[n] = IF step'[j] = "cloning" THEN "partial" ELSE "full"
             /\ n \in records' => \E k \in Job : Deletes(k, n, {"unrecord"})'
  BY <1>1, <1>3, <1>5 DEF Tidy, SameWorldAt
<1>6. n \in records' => checkout'[n] = "full" \/ \E k \in Job : Deletes(k, n, {"remove", "unrecord"})'
  BY <1>3 DEF Tidy, SameWorldAt
<1>7. \A j \in Job : Deletes(j, n, {"remove"})' => checkout'[n] # "absent"
  BY <1>2 DEF Tidy, SameWorldAt
<1> QED
  BY <1>4, <1>5, <1>6, <1>7 DEF Tidy

\* A lookup, a pull, a build, an up or a down leaves rows and directories.
LEMMA ElsewhereTidy ==
  ASSUME TypeOK, JobsFollow, Exclusive, BodyFollows, NEW n \in Name, Tidy(n),
         NEW j \in Job, BodyStep(j), Target(j) = n,
         step[j] \notin Making \cup {"clone", "remove", "unrecord"}
  PROVE  Tidy(n)'
<1>1. UNCHANGED <<records, checkout, phase, request>> /\ phase[j] = "active" /\ step[j] # "return"
  BY StepTells, BodyMoves DEF Making, jobVars
<1>2. ~Makes(j, n)'
  <2> SUFFICES ASSUME step'[j] \in Making PROVE FALSE
    BY DEF Makes
  <2>1. PICK s, r : GoesOn(j, s, r)
    BY BodyMoves
  <2>2. NextStep(request[j], step[j]) \in Making
    BY <2>1 DEF GoesOn, Failed, Continued, Ended, Making, TypeOK
  <2> QED
    BY <2>2 DEF NextStep, BuildOrEnsure, Making
<1>3. \A S \in SUBSET {"remove", "unrecord"} : ~Deletes(j, n, S)
  BY DEF Deletes
<1>4. ASSUME Deletes(j, n, {"remove"})' PROVE checkout[n] = "full"
  <2>0. step'[j] = "remove"
    BY <1>4 DEF Deletes
  <2>1. PICK s, r : GoesOn(j, s, r)
    BY <2>0, BodyMoves
  <2>2. NextStep(request[j], step[j]) = "remove"
    BY <2>0, <2>1 DEF GoesOn, Failed, Continued, Ended, TypeOK
  <2>3. step[j] = "lookup" /\ request[j].kind = "delete"
    BY <2>2 DEF NextStep, BuildOrEnsure
  <2>4. n \in records
    BY <2>0, <2>3, LookupFinds DEF Fail, Goto, TypeOK
  <2>5. ASSUME NEW k \in Job, Deletes(k, n, {"remove", "unrecord"}) PROVE FALSE
    <3>1. phase[k] = "active" /\ request[k].kind = "delete" /\ Target(k) = n /\ step[k] # "lookup"
      BY <2>5, StepTellsKind DEF Deletes
    <3> QED
      BY <1>1, <2>3, <3>1, DeletesAlone
  <2> QED
    BY <2>4, <2>5 DEF Tidy
<1>5. \A k, l \in Job : Makes(k, n)' /\ Makes(l, n)' => k = l
  BY <1>2, OthersStand DEF Tidy
<1>6. ASSUME NEW k \in Job, Makes(k, n)'
      PROVE  /\ checkout'[n] = IF step'[k] = "cloning" THEN "partial" ELSE "full"
             /\ n \in records' => \E l \in Job : Deletes(l, n, {"unrecord"})'
  BY <1>1, <1>2, <1>3, <1>6, OthersStand DEF Tidy
<1>7. n \in records' => checkout'[n] = "full" \/ \E k \in Job : Deletes(k, n, {"remove", "unrecord"})'
  BY <1>1, <1>3, OthersStand DEF Tidy
<1>8. \A k \in Job : Deletes(k, n, {"remove"})' => checkout'[n] # "absent"
  BY <1>1, <1>4, OthersStand DEF Tidy
<1> QED
  BY <1>5, <1>6, <1>7, <1>8 DEF Tidy

\* The steps of a create.
LEMMA CreateTidy ==
  ASSUME TypeOK, JobsFollow, Exclusive, BodyFollows, RowStays, NEW n \in Name, Tidy(n),
         NEW j \in Job, BodyStep(j), Target(j) = n, step[j] \in Making \cup {"clone"}
  PROVE  Tidy(n)'
<1>1. UNCHANGED <<phase, request>> /\ phase[j] = "active" /\ request[j].kind = "create"
  BY BodyMoves, StepTellsKind DEF jobVars
<1>2. PICK s, r : GoesOn(j, s, r)
  BY BodyMoves DEF Making
<1>3. step'[j] = s /\ s # "remove"
  BY <1>1, <1>2 DEF GoesOn, Failed, Continued, Ended, NextStep, Making, TypeOK
<1>4. \A S \in SUBSET {"remove", "unrecord"} : ~Deletes(j, n, S) /\ ~Deletes(j, n, {"remove"})'
  BY <1>3 DEF Deletes, Making
<1>5. \A k \in Job \ {j}, S \in SUBSET {"remove", "unrecord"} : Deletes(k, n, S)' <=> Deletes(k, n, S)
  BY OthersStand
<1>6. \A k \in Job \ {j} : Makes(k, n)' <=> Makes(k, n)
  BY OthersStand
<1>7. step[j] \in Making => Makes(j, n) /\ \A k \in Job \ {j} : ~Makes(k, n)
  BY <1>1 DEF Makes, Tidy
<1>d. ASSUME NEW k \in Job, Deletes(k, n, {"remove"}) PROVE n \in records
  BY <1>d DEF Deletes, RowStays, Found
<1>e. ASSUME NEW k \in Job, Deletes(k, n, {"remove"}), NEW l \in Job, Deletes(l, n, {"unrecord"})
      PROVE  FALSE
  BY <1>e, StepTellsKind, DeletesAlone DEF Deletes
<1>f. ASSUME StepFails(j), step'[j] = "return", UNCHANGED <<records, checkout>> PROVE Tidy(n)'
  <2>1. ~Makes(j, n)'
    BY <1>f DEF Makes, Making
  <2>2. \A k \in Job \ {j} : step'[k] = step[k]
    BY OthersStand
  <2> QED
    BY <1>f, <1>4, <1>5, <1>6, <2>1, <2>2 DEF Tidy
<1>8. StepFails(j) => step'[j] = "return" /\ UNCHANGED <<records, checkout>>
  BY DEF StepFails, Fail, Goto, world, TypeOK
<1>9. CASE Clone(j)
  <2>1. checkout[n] = "absent" /\ checkout'[n] = "partial" /\ UNCHANGED records
    BY <1>9 DEF Clone, TypeOK
  <2>2. step'[j] = "cloning"
    BY <1>9 DEF Clone, At, Continue, NextStep, Goto, TypeOK
  <2>3. \A k \in Job : ~Makes(k, n)
    BY <2>1 DEF Tidy
  <2>4. n \in records => \E k \in Job : Deletes(k, n, {"unrecord"})
    BY <2>1 DEF Tidy, Deletes
  <2>5. n \in records' => \E k \in Job : Deletes(k, n, {"unrecord"})'
    BY <1>4, <1>5, <2>1, <2>4
  <2>6. \A k \in Job : Deletes(k, n, {"unrecord"})' => Deletes(k, n, {"remove", "unrecord"})'
    BY DEF Deletes
  <2> QED
    BY <1>6, <2>1, <2>2, <2>3, <2>5, <2>6 DEF Tidy
<1>10. CASE CloneFinishes(j)
  <2>1. step[j] = "cloning" /\ checkout'[n] = "full" /\ UNCHANGED records
    BY <1>10 DEF CloneFinishes, At, TypeOK
  <2>2. step'[j] = "resolve"
    BY <1>10 DEF CloneFinishes, At, Continue, NextStep, Goto, TypeOK
  <2>3. \A k \in Job \ {j} : ~Makes(k, n)'
    BY <1>6, <1>7, <2>1 DEF Making
  <2>4. n \in records' => \E k \in Job : Deletes(k, n, {"unrecord"})'
    BY <1>4, <1>5, <1>7, <2>1 DEF Tidy, Making
  <2> QED
    BY <2>1, <2>2, <2>3, <2>4 DEF Tidy
<1>11. CASE CloneCleansUp(j)
  <2>1. step[j] = "cloning" /\ checkout'[n] = "absent" /\ UNCHANGED records
    BY <1>11 DEF CloneCleansUp, At, TypeOK
  <2>2. step'[j] = "return"
    BY <1>11 DEF CloneCleansUp, Fail, Goto, TypeOK
  <2>3. \A k \in Job : ~Makes(k, n)'
    BY <1>6, <1>7, <2>1, <2>2 DEF Makes, Making
  <2>4. n \in records => \E k \in Job : Deletes(k, n, {"unrecord"})
    BY <1>7, <2>1 DEF Tidy, Making
  <2>5. n \in records' => \E k \in Job : Deletes(k, n, {"unrecord"})'
    BY <1>4, <1>5, <2>1, <2>4
  <2>6. \A k \in Job : Deletes(k, n, {"unrecord"})' => Deletes(k, n, {"remove", "unrecord"})'
    BY DEF Deletes
  <2>7. \A k \in Job : ~Deletes(k, n, {"remove"})'
    BY <1>4, <1>5, <1>d, <1>e, <2>4
  <2> QED
    BY <2>3, <2>5, <2>6, <2>7 DEF Tidy
<1>12. CASE Resolve(j)
  <2>1. step[j] = "resolve" /\ UNCHANGED <<records, checkout>>
    BY <1>12 DEF Resolve, At, world
  <2>2. step'[j] = "insert"
    BY <1>12 DEF Resolve, At, Continue, NextStep, Goto, TypeOK
  <2>3. \A k \in Job \ {j} : ~Makes(k, n)'
    BY <1>6, <1>7, <2>1 DEF Making
  <2>4. checkout'[n] = "full"
    BY <1>7, <2>1 DEF Tidy, Making
  <2>5. n \in records' => \E k \in Job : Deletes(k, n, {"unrecord"})'
    BY <1>4, <1>5, <1>7, <2>1 DEF Tidy, Making
  <2> QED
    BY <2>2, <2>3, <2>4, <2>5 DEF Tidy
<1>13. CASE InsertRecord(j)
  <2>1. step[j] = "insert" /\ UNCHANGED checkout
    BY <1>13 DEF InsertRecord, At
  <2>2. step'[j] = "return"
    BY <1>1, <1>13 DEF InsertRecord, At, Continue, Done, NextStep, Goto, TypeOK
  <2>3. \A k \in Job : ~Makes(k, n)'
    BY <1>6, <1>7, <2>1, <2>2 DEF Makes, Making
  <2>4. checkout'[n] = "full"
    BY <1>7, <2>1 DEF Tidy, Making
  <2> QED
    BY <2>3, <2>4 DEF Tidy
<1> QED
  BY <1>f, <1>8, <1>9, <1>10, <1>11, <1>12, <1>13, StepTells DEF Making

\* The steps of a delete.
LEMMA DeleteTidy ==
  ASSUME TypeOK, JobsFollow, Exclusive, BodyFollows, RowStays, NEW n \in Name, Tidy(n),
         NEW j \in Job, BodyStep(j), Target(j) = n, step[j] \in {"remove", "unrecord"}
  PROVE  Lost(n)' \/ Tidy(n)'
<1>1. UNCHANGED <<phase, request>> /\ phase[j] = "active" /\ request[j].kind = "delete" /\ n \in records
  BY BodyMoves, StepTellsKind DEF jobVars, RowStays, Found
<1>2. \A k \in Job \ {j}, S \in SUBSET {"remove", "unrecord"} : ~Deletes(k, n, S)
  BY <1>1, StepTellsKind, DeletesAlone DEF Deletes
<1>3. \A k \in Job \ {j}, S \in SUBSET {"remove", "unrecord"} : ~Deletes(k, n, S)'
  BY <1>2, OthersStand
<1>4. ~Makes(j, n)
  BY DEF Makes, Making
<1>5. \A k \in Job \ {j} : (Makes(k, n)' <=> Makes(k, n)) /\ step'[k] = step[k]
  BY OthersStand
<1>6. CASE StepFails(j)
  <2>1. step'[j] = "return" /\ result'[j] = "error"
    BY <1>6 DEF StepFails, Fail, Goto, TypeOK
  <2>2. GaveUp(j)'
    BY <1>1, <2>1 DEF GaveUp
  <2>3. (request[j].kind = "delete" /\ Target(j) = n)'
    BY <1>1 DEF Target
  <2> QED
    BY <2>2, <2>3 DEF Lost
<1>7. CASE RemoveSome(j) \/ RemoveAll(j)
  <2>1. step[j] = "remove" /\ UNCHANGED records
    BY <1>7 DEF RemoveSome, RemoveAll, At
  <2>2. \A k \in Job : ~Deletes(k, n, {"unrecord"})
    BY <1>2, <2>1 DEF Deletes
  <2>3. \A k \in Job : ~Makes(k, n)
    BY <1>1, <2>2 DEF Tidy
  <2>4. step'[j] \in {"remove", "unrecord"}
    BY <1>7, <2>1 DEF RemoveSome, RemoveAll, Continue, NextStep, Goto, bodyVars, TypeOK
  <2>5. ~Makes(j, n)' /\ Deletes(j, n, {"remove", "unrecord"})'
    BY <1>1, <2>4 DEF Makes, Making, Deletes, Target
  <2>6. Deletes(j, n, {"remove"})' => checkout'[n] # "absent"
    <3>1. CASE RemoveSome(j)
      BY <3>1 DEF RemoveSome, TypeOK
    <3>2. CASE RemoveAll(j)
      <4>1. step'[j] = "unrecord"
        BY <2>1, <3>2 DEF RemoveAll, Continue, NextStep, Goto, TypeOK
      <4> QED
        BY <4>1 DEF Deletes
    <3> QED
      BY <1>7, <3>1, <3>2
  <2> QED
    BY <1>3, <1>5, <2>3, <2>5, <2>6 DEF Tidy
<1>8. CASE DeleteRecord(j)
  <2>1. n \notin records' /\ UNCHANGED checkout /\ step[j] = "unrecord"
    BY <1>8 DEF DeleteRecord, At
  <2>2. step'[j] = "return"
    BY <1>1, <2>1, <1>8 DEF DeleteRecord, Continue, Done, NextStep, Goto, TypeOK
  <2>3. ~Makes(j, n)' /\ ~Deletes(j, n, {"remove"})'
    BY <2>2 DEF Makes, Making, Deletes
  <2> QED
    BY <1>3, <1>5, <2>1, <2>3 DEF Tidy
<1> QED
  BY <1>6, <1>7, <1>8, StepTells

\* Every step keeps Kept.
LEMMA KeptStep ==
  ASSUME TypeOK, JobsFollow, Exclusive, BodyFollows, RowStays, Kept, [Next]_vars
  PROVE  Kept'
<1> SUFFICES ASSUME NEW n \in Name PROVE Lost(n)' \/ Tidy(n)'
  BY DEF Kept
<1>1. CASE Lost(n)
  <2>1. PICK j \in Job : request[j].kind = "delete" /\ Target(j) = n /\ GaveUp(j)
    BY <1>1 DEF Lost
  <2>2. GaveUp(j)' /\ request'[j] = request[j]
    BY <2>1, GaveUpStays
  <2>3. (request[j].kind = "delete" /\ Target(j) = n)'
    BY <2>1, <2>2 DEF Target
  <2> QED
    BY <2>2, <2>3 DEF Lost
<1>2. CASE Tidy(n)
  <2>1. ASSUME NEW j \in Job, BodyStep(j), Target(j) = n PROVE Lost(n)' \/ Tidy(n)'
    BY <1>2, <2>1, ElsewhereTidy, CreateTidy, DeleteTidy
  <2>2. CASE \A j \in Job : BodyStep(j) => Target(j) # n
    <3>1. SameWorldAt(n)
      BY <2>2, BodyStays, OthersAreQuiet DEF SameWorldAt, world
    <3> QED
      BY <1>2, <2>2, <3>1, OutsideTidy
  <2> QED
    BY <2>1, <2>2
<1> QED
  BY <1>1, <1>2 DEF Kept

\* The daemon starts on a tidy directory.
LEMMA InitDInv == Init \/ InitEarlier => DInv
<1> SUFFICES ASSUME Init \/ InitEarlier PROVE DInv
  OBVIOUS
<1>1. /\ status = [j \in Job |-> "none"] /\ phase = [j \in Job |-> "waiting"]
      /\ \/ records = {} /\ checkout = [n \in Name |-> "absent"]
         \/ records = Name /\ checkout = [n \in Name |-> "full"]
  BY DEF Init, InitEarlier, NoJobYet, Jobs!Init
<1>2. ResultFirst
  BY <1>1 DEF ResultFirst
<1>3. Orphans
  BY <1>1 DEF Orphans
<1>4. Kept
  BY <1>1 DEF Kept, Tidy, Makes, Deletes
<1> QED
  BY <1>2, <1>3, <1>4 DEF DInv

\* A deployment has a row and a checkout, or neither, or a job that tells why.
LEMMA DirectoryInvariance == EarlierSpec => [](IInv /\ DInv)
<1>1. IInv /\ DInv /\ [Next]_vars => DInv'
  BY ResultFirstStep, OrphansStep, KeptStep DEF IInv, DInv
<1> QED
  BY <1>1, InitIInv, NextIInv, InitDInv, PTL DEF EarlierSpec

\* A deployment that is listed has its checkout, unless a delete removed the
\* directory and then failed, was cancelled or died before it removed the row,
\* also when creates without a name work on the same directory.
THEOREM ListedHasCheckout == EarlierSpec => []ListedMeansCheckedOut
<1>1. IInv /\ DInv => ListedMeansCheckedOut
  <2> SUFFICES ASSUME IInv, DInv, NEW n \in records PROVE checkout[n] = "full" \/ Broke("delete", n)
    BY DEF ListedMeansCheckedOut
  <2>0. n \in Name
    BY DEF IInv, TypeOK
  <2>1. CASE Lost(n)
    <3>1. PICK j \in Job : request[j].kind = "delete" /\ Target(j) = n /\ GaveUp(j)
      BY <2>1 DEF Lost
    <3>2. phase[j] # "waiting" /\ status[j] # "succeeded"
      BY <3>1 DEF GaveUp, DInv, ResultFirst
    <3> QED
      BY <3>1, <3>2 DEF Broke
  <2>2. CASE Tidy(n) /\ checkout[n] # "full"
    <3>1. PICK j \in Job : Deletes(j, n, {"remove", "unrecord"})
      BY <2>2 DEF Tidy
    <3>2. phase[j] = "active" /\ Target(j) = n /\ request[j].kind = "delete"
      BY <3>1, StepTellsKind DEF Deletes, IInv
    <3>3. status[j] # "succeeded"
      BY <3>2 DEF DInv, ResultFirst
    <3> QED
      BY <3>2, <3>3 DEF Broke
  <2> QED
    BY <2>0, <2>1, <2>2 DEF DInv, Kept
<1> QED
  BY <1>1, DirectoryInvariance, PTL

\* A directory without a row, which no job can use or remove any more, is left
\* only by a create that failed, was cancelled or died after its clone began.
THEOREM OrphansAreExplained == EarlierSpec => []OrphanHasCause
<1>1. IInv /\ DInv => OrphanHasCause
  <2> SUFFICES ASSUME DInv, NEW n \in Name \ records, Unended("create", n) PROVE Broke("create", n)
    BY DEF OrphanHasCause, DInv, Orphans
  <2>1. PICK j \in Job : request[j].kind = "create" /\ Target(j) = n /\ phase[j] # "waiting"
                         /\ result[j] # "ok"
    BY DEF Unended
  <2>2. status[j] # "succeeded"
    BY <2>1 DEF DInv, ResultFirst
  <2> QED
    BY <2>1, <2>2 DEF Broke
<1> QED
  BY <1>1, DirectoryInvariance, PTL

-----------------------------------------------------------------------------
(* What a success means, when every create has a name. *)

\* A body that does its own next step reaches what that step is for.
LEMMA OwnReached ==
  ASSUME TypeOK, JobsFollow, BodyFollows, NEW j \in Job, BodyStep(j), Reached(j)
  PROVE  Reached(j)'
<1> USE DEF Target, TypeOK
<1> DEFINE n == Target(j)
           kind == request[j].kind
<1>0. /\ n \in Name /\ kind \in AllKinds /\ step[j] \in StepsOf(kind) /\ UNCHANGED request
      /\ request[j].build => kind \in Flagged
  BY BodyMoves, ActiveHasTarget DEF Held, BodyFollows, JobsFollow
<1>1. CASE StepFails(j) \/ CloneCleansUp(j) \/ HalfWay(j)
  <2>1. step'[j] = "return" /\ result'[j] = "error"
    BY <1>1 DEF StepFails, CloneCleansUp, HalfWay, Fail, Goto
  <2> QED
    BY <2>1 DEF Reached
<1>2. CASE Lookup(j)
  <2>1. step'[j] = NextStep(request[j], "lookup")
    BY <1>2 DEF Lookup, At, Continue, Done, Goto
  <2>2. step'[j] \in {"remove", "build", "pull", "status"}
        /\ (step'[j] = "status" /\ kind = "deploy" => ~request[j].build)
    BY <2>1 DEF NextStep
  <2> QED
    BY <1>0, <2>2 DEF Reached
<1>3. CASE Clone(j)
  <2>1. step'[j] = "cloning" /\ checkout'[n] = "partial"
    BY <1>0, <1>3 DEF Clone, At, Continue, NextStep, Goto
  <2> QED
    BY <1>0, <2>1 DEF Reached
<1>4. CASE CloneFinishes(j)
  <2>1. step'[j] = "resolve" /\ checkout'[n] = "full"
    BY <1>0, <1>4 DEF CloneFinishes, At, Continue, NextStep, Goto
  <2> QED
    BY <1>0, <2>1 DEF Reached
<1>5. CASE Resolve(j)
  <2>1. step[j] = "resolve" /\ step'[j] = "insert" /\ UNCHANGED checkout
    BY <1>0, <1>5 DEF Resolve, At, Continue, NextStep, Goto, world
  <2> QED
    BY <1>0, <2>1 DEF Reached
<1>6. CASE InsertRecord(j)
  <2>1. step[j] = "insert" /\ step'[j] = "return" /\ UNCHANGED checkout /\ n \in records'
    BY <1>0, <1>6 DEF InsertRecord, At, Continue, Done, NextStep, Goto
  <2>2. kind = "create"
    BY <1>0, <2>1 DEF AllKinds, StepsOf
  <2>3. Works(request[j])'
    BY <1>0, <2>1, <2>2 DEF Reached, Works
  <2> QED
    BY <1>0, <2>1, <2>3 DEF Reached
<1>7. CASE RemoveSome(j)
  <2>1. step[j] = "remove" /\ UNCHANGED step
    BY <1>7 DEF RemoveSome, At, bodyVars
  <2> QED
    BY <2>1 DEF Reached
<1>8. CASE RemoveAll(j)
  <2>1. step'[j] = "unrecord" /\ checkout'[n] = "absent"
    BY <1>0, <1>8 DEF RemoveAll, At, Continue, NextStep, Goto
  <2> QED
    BY <1>0, <2>1 DEF Reached
<1>9. CASE DeleteRecord(j)
  <2>1. step[j] = "unrecord" /\ step'[j] = "return" /\ UNCHANGED checkout /\ n \notin records'
    BY <1>0, <1>9 DEF DeleteRecord, At, Continue, Done, NextStep, Goto
  <2>2. kind = "delete"
    BY <1>0, <2>1 DEF AllKinds, StepsOf
  <2>3. Works(request[j])'
    BY <1>0, <2>1, <2>2 DEF Reached, Works
  <2> QED
    BY <1>0, <2>1, <2>3 DEF Reached
<1>10. CASE Pull(j)
  <2>1. step[j] = "pull" /\ step'[j] \in {"build", "return"} /\ (step'[j] = "return" => ~request[j].build)
    BY <1>0, <1>10 DEF Pull, Usable, At, Continue, Done, NextStep, Goto
  <2>2. kind = "update"
    BY <1>0, <2>1 DEF AllKinds, StepsOf
  <2>3. step'[j] = "return" => Works(request[j])'
    BY <1>0, <2>1, <2>2 DEF Works
  <2> QED
    BY <1>0, <2>1, <2>3 DEF Reached
<1>11. CASE Build(j)
  <2>1. step[j] = "build" /\ step'[j] = NextStep(request[j], "build")
    BY <1>11 DEF Build, Usable, At, Continue, Done, Goto
  <2>2. images'[n] = source'[n]
    BY <1>0, <1>11 DEF Build
  <2>3. kind \in {"build", "update", "deploy", "restart"}
    BY <1>0, <2>1 DEF AllKinds, StepsOf
  <2>4. \/ step'[j] \in {"up", "down"}
        \/ step'[j] = "return" /\ kind \in {"build", "update"}
    BY <2>1, <2>3 DEF NextStep
  <2>5. step'[j] = "return" => Works(request[j])'
    BY <1>0, <2>2, <2>4 DEF Works
  <2> QED
    BY <1>0, <2>2, <2>4, <2>5 DEF Reached
<1>12. CASE ReadStatus(j)
  <2>1. step[j] = "status" /\ UNCHANGED <<images, source, containers>>
    BY <1>12 DEF ReadStatus, Usable, At, world
  <2>2. kind \in {"deploy", "restart", "stop"}
    BY <1>0, <2>1 DEF AllKinds, StepsOf
  <2>3. kind = "deploy" => ~request[j].build
    BY <2>1 DEF Reached
  <2>4. CASE NothingToDo(j)
    <3>1. step'[j] = "return"
      BY <1>12, <2>4 DEF ReadStatus, Done, Goto
    <3>2. Works(request[j])'
      BY <1>0, <2>1, <2>3, <2>4 DEF Works, NothingToDo
    <3> QED
      BY <1>0, <3>1, <3>2 DEF Reached
  <2>5. CASE ~NothingToDo(j)
    <3>1. step'[j] = NextStep(request[j], "status")
      BY <1>12, <2>1, <2>5 DEF ReadStatus, Continue, Done, Goto
    <3>2. \/ step'[j] = "down" /\ kind = "stop"
          \/ step'[j] = "build"
          \/ step'[j] = "ensure" /\ ~request[j].build
      BY <2>2, <3>1 DEF NextStep, BuildOrEnsure
    <3> QED
      BY <1>0, <3>2 DEF Reached, Flagged
  <2> QED
    BY <2>4, <2>5
<1>13. CASE Ensure(j)
  <2>1. step[j] = "ensure" /\ step'[j] = NextStep(request[j], "ensure")
    BY <1>13 DEF Ensure, Usable, At, Continue, Done, Goto
  <2>2. kind \in {"deploy", "restart"} /\ ~request[j].build
    BY <1>0, <2>1 DEF AllKinds, StepsOf, Reached
  <2>3. step'[j] \in {"up", "down"}
    BY <2>1, <2>2 DEF NextStep
  <2> QED
    BY <1>0, <2>2, <2>3 DEF Reached
<1>14. CASE Down(j)
  <2>1. step[j] = "down" /\ step'[j] = NextStep(request[j], "down") /\ UNCHANGED <<images, source>>
    BY <1>14 DEF Down, Usable, At, Continue, Done, Goto
  <2>2. kind \in {"restart", "stop"}
    BY <1>0, <2>1 DEF AllKinds, StepsOf
  <2>3. \/ step'[j] = "up"
        \/ step'[j] = "return" /\ kind = "stop"
    BY <2>1, <2>2 DEF NextStep
  <2>4. containers'[n].run = "none"
    BY <1>0, <1>14 DEF Down, Run
  <2>5. step'[j] = "return" => Works(request[j])'
    BY <1>0, <2>3, <2>4 DEF Works
  <2> QED
    BY <1>0, <2>1, <2>3, <2>5 DEF Reached
<1>15. CASE Up(j)
  <2>1. step[j] = "up" /\ step'[j] = "return" /\ UNCHANGED <<images, source>>
    BY <1>15 DEF Up, Usable, At, Continue, Done, NextStep, Goto
  <2>2. kind \in {"deploy", "restart"}
    BY <1>0, <2>1 DEF AllKinds, StepsOf
  <2>3. containers'[n].run = "all" /\ containers'[n].commit = images[n]
    BY <1>0, <1>15 DEF Up, Run
  <2>4. request[j].build => images[n] = source[n]
    BY <2>1 DEF Reached
  <2>5. Works(request[j])'
    BY <1>0, <2>1, <2>2, <2>3, <2>4 DEF Works
  <2> QED
    BY <1>0, <2>1, <2>5 DEF Reached
<1> QED
  BY <1>1, <1>2, <1>3, <1>4, <1>5, <1>6, <1>7, <1>8, <1>9, <1>10, <1>11, <1>12, <1>13, <1>14, <1>15
  DEF BodyStep

\* When every create has a name, jobs of one deployment exclude each other.
LEMMA NamedAlone ==
  ASSUME Unnamed = FALSE, JobsFollow, Exclusive, NEW j \in Job, NEW k \in Job, j # k,
         phase[j] \in Held, phase[k] \in Held
  PROVE  Target(j) # Target(k)
<1>1. deployment[j] = Target(j) /\ deployment[k] = Target(k) /\ Target(j) \in Name
  BY ActiveHasTarget DEF JobsFollow
<1> QED
  BY <1>1 DEF Exclusive

\* What one job has reached is not undone by another.
LEMMA OthersReached ==
  ASSUME NEW k \in Job, request'[k] = request[k], step'[k] = step[k], result'[k] = result[k],
         SameWorldAt(Target(k))
  PROVE  /\ Reached(k) => Reached(k)'
         /\ Works(request[k]) => Works(request[k])'
BY DEF Reached, Works, Target, SameWorldAt

\* A job whose outcome is about to be written was so before, or has returned,
\* or has no body.
LEMMA SettlingBefore ==
  ASSUME TypeOK, JobsFollow, [Next]_vars, NEW j \in Job, phase'[j] = "settling"
  PROVE  /\ ~BodyStep(j)
         /\ \/ phase[j] = "settling"
            \/ phase[j] = "active" /\ step[j] = "return"
            \/ result'[j] = "error"
<1> USE DEF TypeOK, jobVars, bodyVars
<1>1. ASSUME NEW k \in Job, BodyStep(k) PROVE phase[j] = "settling"
  BY <1>1, BodyMoves
<1>2. ~BodyStep(j)
  BY <1>1, BodyMoves
<1>3. ASSUME NEW k \in Job, Skip(k) PROVE phase[j] = "settling" \/ result'[j] = "error"
  BY <1>3 DEF Skip, Jobs!SkipBody, Jobs!Move
<1>4. ASSUME NEW k \in Job, Return(k)
      PROVE  phase[j] = "settling" \/ (phase[j] = "active" /\ step[j] = "return")
  BY <1>4 DEF Return, At, Jobs!EndBody, Jobs!Move
<1>5. ASSUME NEW k \in Job, Begin(k) \/ Cancel(k) \/ Settle(k) \/ Release(k) PROVE phase[j] = "settling"
  BY <1>5 DEF Begin, Cancel, Settle, Release, Jobs!BeginBody, Jobs!Settle, Jobs!Release, Jobs!Move
<1>6. ASSUME NEW k \in Job, NEW kind \in Kind, NEW n \in Name, NEW named \in BOOLEAN,
             NEW build \in Flags(kind), Submit(k, kind, build, n, named)
      PROVE  phase[j] = "settling"
  BY <1>6 DEF Submit, Jobs!Submit
<1>7. CASE Push \/ UNCHANGED vars
  BY <1>2, <1>7 DEF Push, vars
<1>8. CASE Crash
  <2>1. phase'[j] \in {phase[j], "over"}
    BY <1>8 DEF Crash, Jobs!Die
  <2> QED
    BY <1>2, <2>1
<1> QED
  BY <1>1, <1>2, <1>3, <1>4, <1>5, <1>6, <1>7, <1>8 DEF Next

\* What a job with the mutex has reached stays, whoever takes the step.
LEMMA HeldWorldStays ==
  ASSUME Unnamed = FALSE, IInv, [Next]_vars, NEW k \in Job, phase[k] \in Held, ~BodyStep(k)
  PROVE  SameWorldAt(Target(k))
<1>1. ASSUME NEW j \in Job, BodyStep(j) PROVE SameWorldAt(Target(k))
  <2>1. j # k /\ phase[j] \in Held
    BY <1>1, BodyMoves DEF Held
  <2>2. Target(k) # Target(j) /\ Target(k) \in Name
    BY <2>1, NamedAlone, ActiveHasTarget DEF IInv
  <2> QED
    BY <1>1, <2>2, BodyStays DEF IInv
<1>2. CASE ~\E j \in Job : BodyStep(j)
  BY <1>2, OthersAreQuiet DEF SameWorldAt, world
<1> QED
  BY <1>1, <1>2

\* Every step keeps what the bodies have reached.
LEMMA WStep ==
  ASSUME Unnamed = FALSE, IInv, WInv, [Next]_vars
  PROVE  WInv'
<1>1. ASSUME NEW k \in Job, phase'[k] = "active" PROVE Reached(k)'
  <2>1. CASE phase[k] = "active" /\ BodyStep(k)
    BY <2>1, OwnReached DEF IInv, WInv, Progress
  <2>2. CASE phase[k] = "active" /\ ~BodyStep(k) /\ step'[k] = step[k]
    <3>1. request'[k] = request[k] /\ result'[k] = result[k] /\ SameWorldAt(Target(k))
      BY <2>2, RequestStays, ResultStays, HeldWorldStays DEF IInv, Held
    <3> QED
      BY <2>2, <3>1, OthersReached DEF WInv, Progress
  <2>3. CASE step'[k] = FirstStep(request[k])
    BY <2>3 DEF FirstStep, Reached
  <2> QED
    BY <1>1, <2>1, <2>2, <2>3, ActiveBefore DEF IInv
<1>2. ASSUME NEW k \in Job, phase'[k] = "settling", result'[k] = "ok" PROVE Works(request[k])'
  <2>1. ~BodyStep(k) /\ (phase[k] = "settling" \/ (phase[k] = "active" /\ step[k] = "return"))
    BY <1>2, SettlingBefore DEF IInv
  <2>2. request'[k] = request[k] /\ result[k] = "ok" /\ SameWorldAt(Target(k))
    BY <1>2, <2>1, RequestStays, ResultStays, HeldWorldStays DEF IInv, Held
  <2>3. Works(request[k])
    BY <2>1, <2>2 DEF WInv, Progress, Reached, SuccessMeansDone
  <2> QED
    BY <2>2, <2>3 DEF Works, SameWorldAt, Target
<1> QED
  BY <1>1, <1>2 DEF WInv, Progress, SuccessMeansDone

\* Nothing is reached when the daemon starts.
LEMMA InitWInv == Init \/ InitEarlier => WInv
BY DEF Init, InitEarlier, NoJobYet, Jobs!Init, WInv, Progress, SuccessMeansDone

\* When every create has a name, a body that returns without an error has done
\* its work, and the work is still there when the outcome is written: no other
\* job, crash or cancel undoes it in between.
THEOREM SuccessIsDone ==
  ASSUME Unnamed = FALSE
  PROVE  EarlierSpec => []SuccessMeansDone
<1>1. IInv /\ WInv /\ [Next]_vars => WInv'
  BY WStep
<1>2. WInv => SuccessMeansDone
  BY DEF WInv
<1> QED
  BY <1>1, <1>2, InitIInv, NextIInv, InitWInv, PTL DEF EarlierSpec

\* When every create has a name, no two bodies work on one deployment at a time,
\* as the daemon advertises; a create without a name is what breaks it.
THEOREM NamedJobsExclude ==
  ASSUME Unnamed = FALSE
  PROVE  EarlierSpec => []OneJobPerCheckout
<1>1. IInv => OneJobPerCheckout
  BY NamedAlone DEF IInv, OneJobPerCheckout, Held
<1> QED
  BY <1>1, Invariance, PTL
=============================================================================
