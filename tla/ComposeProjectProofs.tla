-------------------------- MODULE ComposeProjectProofs --------------------------
(***************************************************************************)
(* Machine-checked proofs about ComposeProject, for any set of services    *)
(* and of providers.                                                       *)
(***************************************************************************)
EXTENDS ComposeProject, TLAPS

-----------------------------------------------------------------------------
(* Type correctness. *)

\* The status that is read has the type of one.
LEMMA StatusType == TypeOK => Status \in StatusRead
<1> SUFFICES ASSUME TypeOK PROVE Status \in StatusRead
  OBVIOUS
<1>1. (Existing # {}) \in BOOLEAN /\ (\E s \in Service : Runs(s)) \in BOOLEAN
  OBVIOUS
<1>2. Missing \subseteq Service
  BY DEF TypeOK, File, Missing
<1> QED
  BY <1>1, <1>2 DEF Status, StatusRead

LEMMA NothingReadType == NothingRead \in StatusRead
BY DEF NothingRead, StatusRead

\* A body that ends or calls Docker again keeps the types.
LEMMA EndType ==
  ASSUME TypeOK, NEW s \in {"none", "failed"}, End(s), UNCHANGED <<defined, container>>
  PROVE  TypeOK'
BY NothingReadType DEF TypeOK, End

LEMMA CallType ==
  ASSUME TypeOK, NEW b \in Body, NEW c \in {"up", "down"}, Call(b, c), UNCHANGED <<defined, container>>
  PROVE  TypeOK'
<1>1. todo' \subseteq Service
  BY DEF TypeOK, Call, Own, File
<1> QED
  BY <1>1, NothingReadType DEF TypeOK, Call, Body

\* Every step keeps the types.
LEMMA NextType == TypeOK /\ [Next]_vars => TypeOK'
<1> SUFFICES ASSUME TypeOK, [Next]_vars PROVE TypeOK'
  OBVIOUS
<1>1. CASE UNCHANGED vars
  BY <1>1 DEF TypeOK, vars
<1>2. ASSUME NEW S \in File, Pull(S) PROVE TypeOK'
  BY <1>2 DEF Pull, bodyVars, TypeOK
<1>3. ASSUME NEW s \in Service, Exit(s) \/ Revive(s) PROVE TypeOK'
  <2>1. PICK state \in {"exited", "running"} : Becomes(s, state)
    BY <1>3 DEF Exit, Revive
  <2> QED
    BY <2>1 DEF Becomes, bodyVars, TypeOK, ContainerState
<1>4. ASSUME NEW s \in Service, DownService(s) \/ StartService(s) PROVE TypeOK'
  <2>1. PICK state \in {"none", "running"} : Handle(s, state)
    BY <1>4 DEF DownService, StartService
  <2> QED
    BY <2>1 DEF Handle, TypeOK, ContainerState
<1>5. ASSUME NEW s \in Service, CreateService(s) PROVE TypeOK'
  BY <1>5 DEF CreateService, bodyVars, TypeOK, ContainerState
<1>6. ASSUME NEW b \in Body, Begin(b) PROVE TypeOK'
  <2>1. CASE Call(b, "up") /\ UNCHANGED <<defined, container>>
    BY <2>1, CallType
  <2>2. CASE body' = b /\ step' = "status" /\ UNCHANGED <<defined, container, todo, seen, moved>>
    BY <2>2 DEF TypeOK, Body
  <2> QED
    BY <1>6, <2>1, <2>2 DEF Begin
<1>7. CASE ReadStatus
  BY <1>7, StatusType DEF ReadStatus, TypeOK
<1>8. CASE Decide
  <2>1. body \in Body
    BY <1>8 DEF Decide, Body
  <2>2. CASE End("none")
    BY <1>8, <2>2, EndType DEF Decide
  <2>3. CASE Call(body, "up") \/ Call(body, "down")
    BY <1>8, <2>1, <2>3, CallType DEF Decide
  <2> QED
    BY <1>8, <2>2, <2>3 DEF Decide
<1>9. CASE Down
  <2>1. body \in Body
    BY <1>9 DEF Down, TypeOK
  <2> QED
    BY <1>9, <2>1, CallType, EndType DEF Down
<1>10. CASE Up
  BY <1>10, EndType DEF Up
<1>11. CASE Fails
  BY <1>11, EndType DEF Fails
<1> QED
  BY <1>1, <1>2, <1>3, <1>4, <1>5, <1>6, <1>7, <1>8, <1>9, <1>10, <1>11 DEF Next

\* Every variable keeps its type, and a body is idle exactly when it has no
\* next call of Docker.
THEOREM TypeCorrect == Spec => []TypeOK
<1>1. Init => TypeOK
  BY NothingReadType DEF Init, TypeOK, Body, ContainerState
<1>2. TypeOK /\ [Next]_vars => TypeOK'
  BY NextType
<1> QED
  BY <1>1, <1>2, PTL DEF Spec

-----------------------------------------------------------------------------
(* What is shown and offered. *)

SomeRuns == \E s \in Service : Runs(s)
AllRun == Existing # {} /\ Missing = {}

\* The state is told from what runs, what exists and what is missing.
LEMMA StateCases ==
  /\ DeploymentState = "running" <=> AllRun
  /\ DeploymentState = "partial" <=> ~AllRun /\ SomeRuns
  /\ DeploymentState = "stopped" <=> ~AllRun /\ ~SomeRuns /\ Existing # {}
  /\ DeploymentState = "not_created" <=> ~AllRun /\ ~SomeRuns /\ Existing = {}
  /\ DeploymentState \in {"running", "partial", "stopped", "not_created"}
<1> DEFINE st == Status
<1>1. /\ AllRunning(st) <=> AllRun
      /\ AnyRunning(st) <=> SomeRuns
      /\ st.exist <=> Existing # {}
  BY DEF Status, AllRunning, AnyRunning, AllRun, SomeRuns
<1>2. CASE AllRun
  BY <1>1, <1>2, Zenon DEF DeploymentState
<1>3. CASE ~AllRun /\ SomeRuns
  BY <1>1, <1>3, Zenon DEF DeploymentState
<1>4. CASE ~AllRun /\ ~SomeRuns /\ Existing # {}
  BY <1>1, <1>4, Zenon DEF DeploymentState
<1>5. CASE ~AllRun /\ ~SomeRuns /\ Existing = {}
  BY <1>1, <1>5, Zenon DEF DeploymentState
<1> QED
  BY <1>2, <1>3, <1>4, <1>5

\* A service that runs has a container, and no service is missing exactly when
\* all that count run.
LEMMA MissingOrRuns ==
  /\ \A s \in Service : Runs(s) => s \in Existing
  /\ Missing = {} <=> \A s \in Own : Runs(s)
BY DEF Runs, Existing, Missing, Own

\* The state that is shown means what it says about the services of the file,
\* and of what is left over from earlier files.
LEMMA StateTruthful == TypeOK => StateMeansServices
<1> SUFFICES ASSUME TypeOK PROVE StateMeansServices
  OBVIOUS
<1>1. Own \subseteq Service
  BY DEF TypeOK, Own, File
<1>2. Own # {} => (DeploymentState = "running" <=> \A s \in Own : Runs(s))
  BY <1>1, MissingOrRuns, StateCases DEF AllRun
<1>3. Own = {} => (DeploymentState = "running" <=> Existing # {})
  BY MissingOrRuns, StateCases DEF AllRun
<1>4. DeploymentState \in {"stopped", "not_created"} => \A s \in Service : ~Runs(s)
  BY StateCases DEF SomeRuns
<1>5. DeploymentState = "not_created" => Existing = {}
  BY StateCases
<1> QED
  BY <1>2, <1>3, <1>4, <1>5 DEF StateMeansServices

\* Each state is under exactly one tab besides "all".
LEMMA OneTab ==
  ASSUME NEW state \in {"running", "partial", "stopped", "not_created"}
  PROVE  \E tab \in Tab : {t \in Tab : Matches(t, state)} = {tab, "all"}
<1>1. CASE state = "running"
  BY <1>1 DEF Tab, Matches
<1>2. CASE state = "stopped"
  BY <1>2 DEF Tab, Matches
<1>3. CASE state \in {"partial", "not_created"}
  BY <1>3 DEF Tab, Matches
<1> QED
  BY <1>1, <1>2, <1>3

\* The table of services has a row for each service of the file that counts:
\* its container, or "Not created".
LEMMA TableHasOwn == TypeOK => Own \subseteq {row.service : row \in ServicesTable}
<1> SUFFICES ASSUME TypeOK, NEW s \in Own
             PROVE  \E row \in ServicesTable : row.service = s
  OBVIOUS
<1>1. s \in Service
  BY DEF TypeOK, Own, File
<1>2. CASE Runs(s)
  <2>1. [service |-> s, row |-> "container"] \in ServicesTable
    BY <1>1, <1>2, MissingOrRuns DEF ServicesTable
  <2> QED
    BY <2>1
<1>3. CASE ~Runs(s)
  <2>1. s \in Missing
    BY <1>3 DEF Missing, Own
  <2>2. [service |-> s, row |-> "not created"] \in ServicesTable
    BY <2>1 DEF ServicesTable
  <2> QED
    BY <2>2
<1> QED
  BY <1>2, <1>3

\* What the dashboard shows and offers fits what runs, for any file and any
\* containers that earlier files have left over.
LEMMA TypedOffersFit == TypeOK => OffersFit
<1> SUFFICES ASSUME TypeOK PROVE OffersFit
  OBVIOUS
<1>1. StateMeansServices
  BY StateTruthful
<1>2. /\ "Deploy" \in Offered <=> DeploymentState # "running"
      /\ {"Stop", "Restart"} \subseteq Offered <=> DeploymentState \in {"running", "partial"}
      /\ {"Stop", "Restart"} \cap Offered # {} <=> DeploymentState \in {"running", "partial"}
      /\ {"Stop", "Restart"} \cap ActionMenu = {"Stop", "Restart"} \cap Offered
  BY DEF Offered, ActionMenu
<1>3. SomeRuns => DeploymentState \in {"running", "partial"}
  BY StateCases
<1>4. Own # {} /\ DeploymentState \in {"running", "partial"} => SomeRuns
  <2>1. CASE DeploymentState = "partial"
    BY <2>1, StateCases
  <2>2. CASE Own # {} /\ DeploymentState = "running"
    <3>1. PICK s \in Own : Runs(s)
      BY <1>1, <2>2 DEF StateMeansServices
    <3> QED
      BY <3>1 DEF SomeRuns, TypeOK, Own, File
  <2> QED
    BY <2>1, <2>2
<1>5. SomeRuns => {"Stop", "Restart"} \subseteq Offered \cap ActionMenu
  BY <1>2, <1>3
<1>6. Own # {} =>
        /\ {"Stop", "Restart"} \cap (Offered \cup ActionMenu) # {} => SomeRuns
        /\ "Deploy" \notin Offered <=> \A s \in Own : Runs(s)
  BY <1>1, <1>2, <1>4 DEF StateMeansServices
<1>7. \E tab \in Tab : {t \in Tab : Matches(t, DeploymentState)} = {tab, "all"}
  BY StateCases, OneTab
<1> QED
  BY <1>1, <1>5, <1>6, <1>7, TableHasOwn DEF OffersFit, SomeRuns

\* Stop is offered as long as anything of the project runs and Deploy as long as
\* a service of the file does not, and the state that is shown is true of both.
THEOREM OffersAlwaysFit == Spec => []OffersFit
BY TypeCorrect, TypedOffersFit, PTL

-----------------------------------------------------------------------------
(* What bodies promise. *)

\* a deploy never takes down, and a stop never brings up
StepOfBody ==
  /\ step = "down" => body \in {"restart", "stop"}
  /\ step = "up" => body \in {"deploy", "restart"}

\* what a call has come to is as it should be, unless it moved since
Handled ==
  /\ step = "up" => \A s \in Own : s \in todo \/ s \in moved \/ Runs(s)
  /\ step = "down" => \A s \in defined : s \in todo \/ s \in moved \/ ~Runs(s)

\* so is what the status said, until the body decides
Aged ==
  step = "decide" =>
    /\ AllRunning(seen) => \A s \in Own : s \in moved \/ Runs(s)
    /\ ~AnyRunning(seen) => \A s \in defined : s \in moved \/ ~Runs(s)

IInv == TypeOK /\ StepOfBody /\ Handled /\ Aged

\* A body that has just ended or just called Docker has nothing to keep.
LEMMA FreshInv ==
  ASSUME TypeOK', NEW b, NEW s,
         End("none") \/ End("failed") \/ (Call(b, s) /\
           ((s = "up" /\ b \in {"deploy", "restart"}) \/ (s = "down" /\ b \in {"restart", "stop"}))),
         UNCHANGED <<defined, container>>
  PROVE  StepOfBody' /\ Handled' /\ Aged'
<1>1. CASE End("none") \/ End("failed")
  BY <1>1 DEF End, StepOfBody, Handled, Aged
<1>2. CASE Call(b, s) /\ s = "up" /\ b \in {"deploy", "restart"}
  <2>1. todo' = Own'
    BY <1>2 DEF Call, Own
  <2> QED
    BY <1>2, <2>1 DEF Call, StepOfBody, Handled, Aged
<1>3. CASE Call(b, s) /\ s = "down" /\ b \in {"restart", "stop"}
  BY <1>3 DEF Call, StepOfBody, Handled, Aged
<1> QED
  BY <1>1, <1>2, <1>3

\* A container that moves by itself excuses its own service and no other.
LEMMA BecomesInv ==
  ASSUME IInv, NEW s \in Service, NEW state \in {"exited", "running"}, Becomes(s, state)
  PROVE  StepOfBody' /\ Handled' /\ Aged'
<1>1. UNCHANGED <<defined, body, step, todo, seen>>
  BY DEF Becomes, bodyVars
<1>2. \A t \in Service : t # s => (Runs(t)' <=> Runs(t))
  BY DEF IInv, TypeOK, Becomes, Runs
<1>3. step \in {"up", "down", "decide"} => moved' = moved \cup {s}
  BY DEF IInv, TypeOK, Becomes
<1>4. Own' = Own /\ Own \subseteq Service /\ defined \subseteq Service
  BY <1>1 DEF IInv, TypeOK, Own, File
<1>5. StepOfBody'
  BY <1>1 DEF IInv, StepOfBody
<1>6. Handled'
  BY <1>1, <1>2, <1>3, <1>4 DEF IInv, Handled
<1>7. Aged'
  BY <1>1, <1>2, <1>3, <1>4 DEF IInv, Aged, AllRunning, AnyRunning
<1> QED
  BY <1>5, <1>6, <1>7

\* The service that a call comes to is as it should be then.
LEMMA HandleInv ==
  ASSUME IInv, NEW s \in Service, NEW state, Handle(s, state),
         (step = "down" /\ state = "none") \/ (step = "up" /\ state = "running")
  PROVE  StepOfBody' /\ Handled' /\ Aged'
<1>1. UNCHANGED <<defined, body, step, seen>>
  BY DEF Handle
<1>2. \A t \in Service : t # s => (Runs(t)' <=> Runs(t))
  BY DEF IInv, TypeOK, Handle, Runs
<1>3. Runs(s)' <=> state = "running"
  BY DEF IInv, TypeOK, Handle, Runs
<1>4. Own' = Own /\ Own \subseteq Service /\ defined \subseteq Service
  BY <1>1 DEF IInv, TypeOK, Own, File
<1>5. todo' = todo \ {s} /\ moved' = moved \ {s}
  BY DEF Handle
<1>6. StepOfBody' /\ Aged'
  BY <1>1 DEF IInv, StepOfBody, Aged
<1>7. Handled'
  BY <1>1, <1>2, <1>3, <1>4, <1>5 DEF IInv, Handled
<1> QED
  BY <1>6, <1>7

\* A service whose container is created does not run before or after.
LEMMA CreateInv ==
  ASSUME IInv, NEW s \in Service, CreateService(s)
  PROVE  StepOfBody' /\ Handled' /\ Aged'
<1>1. UNCHANGED <<defined, body, step, todo, seen, moved>>
  BY DEF CreateService, bodyVars
<1>2. \A t \in Service : Runs(t)' <=> Runs(t)
  BY DEF IInv, TypeOK, CreateService, Runs
<1>3. Own' = Own /\ Own \subseteq Service
  BY <1>1 DEF IInv, TypeOK, Own, File
<1> QED
  BY <1>1, <1>2, <1>3 DEF IInv, StepOfBody, Handled, Aged, CreateService

\* What a fresh status says holds.
LEMMA ReadInv ==
  ASSUME IInv, ReadStatus
  PROVE  StepOfBody' /\ Handled' /\ Aged'
<1>1. UNCHANGED <<defined, container>> /\ step' = "decide" /\ seen' = Status
  BY DEF ReadStatus
<1>2. Own' = Own /\ (\A s : Runs(s)' <=> Runs(s)) /\ defined \subseteq Service
  BY <1>1 DEF IInv, TypeOK, Own, File, Runs
<1>3. AllRunning(Status) => \A s \in Own : Runs(s)
  BY MissingOrRuns DEF AllRunning, Status
<1>4. ~AnyRunning(Status) => \A s \in defined : ~Runs(s)
  BY <1>2 DEF AnyRunning, Status
<1>5. AllRunning(seen') => \A s \in Own' : Runs(s)'
  BY <1>1, <1>2, <1>3
<1>6. ~AnyRunning(seen') => \A s \in defined' : ~Runs(s)'
  BY <1>1, <1>2, <1>4
<1> QED
  BY <1>1, <1>5, <1>6 DEF StepOfBody, Handled, Aged, AllRunning, AnyRunning

\* Every step keeps the invariant.
LEMMA NextIInv == IInv /\ [Next]_vars => IInv'
<1> SUFFICES ASSUME IInv, [Next]_vars PROVE IInv'
  OBVIOUS
<1>1. TypeOK'
  BY NextType DEF IInv
<1> SUFFICES StepOfBody' /\ Handled' /\ Aged'
  BY <1>1 DEF IInv
<1>2. CASE UNCHANGED vars
  BY <1>2 DEF vars, IInv, StepOfBody, Handled, Aged, Own, Runs, AllRunning, AnyRunning
<1>3. ASSUME NEW S \in File, Pull(S) PROVE StepOfBody' /\ Handled' /\ Aged'
  BY <1>3 DEF Pull, bodyVars, IInv, TypeOK, StepOfBody, Handled, Aged
<1>4. ASSUME NEW s \in Service, Exit(s) \/ Revive(s) PROVE StepOfBody' /\ Handled' /\ Aged'
  BY <1>4, BecomesInv DEF Exit, Revive
<1>5. ASSUME NEW s \in Service, DownService(s) \/ StartService(s)
      PROVE  StepOfBody' /\ Handled' /\ Aged'
  BY <1>5, HandleInv DEF DownService, StartService
<1>6. ASSUME NEW s \in Service, CreateService(s) PROVE StepOfBody' /\ Handled' /\ Aged'
  BY <1>6, CreateInv
<1>7. ASSUME NEW b \in Body, Begin(b) PROVE StepOfBody' /\ Handled' /\ Aged'
  <2>1. CASE b = "deploy" /\ Call(b, "up") /\ UNCHANGED <<defined, container>>
    BY <1>1, <2>1, FreshInv
  <2>2. CASE step' = "status"
    BY <2>2 DEF StepOfBody, Handled, Aged
  <2> QED
    BY <1>7, <2>1, <2>2 DEF Begin
<1>8. CASE ReadStatus
  BY <1>8, ReadInv
<1>9. CASE Decide
  <2>1. CASE End("none") /\ UNCHANGED <<defined, container>>
    BY <1>1, <2>1, FreshInv
  <2>2. CASE body = "deploy" /\ Call(body, "up") /\ UNCHANGED <<defined, container>>
    BY <1>1, <2>2, FreshInv
  <2>3. CASE body \in {"restart", "stop"} /\ Call(body, "down") /\ UNCHANGED <<defined, container>>
    BY <1>1, <2>3, FreshInv
  <2> QED
    BY <1>9, <2>1, <2>2, <2>3 DEF Decide
<1>10. CASE Down
  BY <1>1, <1>10, FreshInv DEF Down
<1>11. CASE Up \/ Fails
  BY <1>1, <1>11, FreshInv DEF Up, Fails
<1> QED
  BY <1>2, <1>3, <1>4, <1>5, <1>6, <1>7, <1>8, <1>9, <1>10, <1>11 DEF Next

\* A step with which a body ends without an error leaves the services of the
\* file as the body promises.
LEMMA StepKeepsWord == IInv /\ [Next]_vars => [BodyStep]_vars
<1> SUFFICES ASSUME IInv, Next, NEW b \in Body, EndsWithSuccess(b) PROVE BodyStep
  BY DEF BodyStep, EndsWithSuccess, Body
<1>1. body = b /\ b # "idle" /\ body' = "idle" /\ step' = "none"
  BY DEF EndsWithSuccess, Body
<1>2. Decide \/ Down \/ Up
  <2>1. ASSUME NEW s \in Service,
               Exit(s) \/ Revive(s) \/ DownService(s) \/ CreateService(s) \/ StartService(s)
        PROVE  FALSE
    BY <1>1, <2>1 DEF Exit, Revive, Becomes, DownService, CreateService, StartService, Handle, bodyVars
  <2>2. ASSUME NEW S \in File, Pull(S) PROVE FALSE
    BY <1>1, <2>2 DEF Pull
  <2>3. ASSUME NEW c \in Body, Begin(c) PROVE FALSE
    BY <1>1, <2>3 DEF Begin
  <2>4. ~ReadStatus /\ ~Fails
    BY <1>1 DEF ReadStatus, Fails, End
  <2> QED
    BY <2>1, <2>2, <2>3, <2>4 DEF Next
<1>3. UNCHANGED <<defined, container>>
  BY <1>2 DEF Decide, Down, Up
<1>4. \A s : Runs(s)' <=> Runs(s)
  BY <1>3 DEF Runs
<1>5. CASE Decide
  <2>1. (body = "deploy" /\ AllRunning(seen)) \/ (body = "stop" /\ ~AnyRunning(seen))
    BY <1>1, <1>5 DEF Decide, Call
  <2>2. step = "decide"
    BY <1>5 DEF Decide
  <2> QED
    BY <1>4, <2>1, <2>2 DEF IInv, Aged, BodyStep, EndsWithSuccess
<1>6. CASE Down
  <2>1. body = "stop" /\ step = "down" /\ todo = {}
    BY <1>1, <1>6 DEF Down, Call, IInv, StepOfBody
  <2> QED
    BY <1>4, <2>1 DEF IInv, Handled, BodyStep, EndsWithSuccess
<1>7. CASE Up
  <2>1. body \in {"deploy", "restart"} /\ step = "up" /\ todo = {}
    BY <1>7 DEF Up, IInv, StepOfBody
  <2> QED
    BY <1>4, <2>1 DEF IInv, Handled, BodyStep, EndsWithSuccess
<1> QED
  BY <1>2, <1>5, <1>6, <1>7

\* A deploy or a restart that ends without an error leaves every service of the
\* file running, and a stop none, except for those that moved by themselves
\* after the body had come to them, also when the body found nothing to do.
THEOREM WordsAreKept == Spec => BodiesKeepTheirWord
<1>1. Init => IInv
  BY NothingReadType DEF Init, IInv, TypeOK, StepOfBody, Handled, Aged, Body, ContainerState
<1>2. IInv /\ [Next]_vars => IInv'
  BY NextIInv
<1>3. IInv /\ [Next]_vars => [BodyStep]_vars
  BY StepKeepsWord
<1> QED
  BY <1>1, <1>2, <1>3, PTL DEF Spec, BodiesKeepTheirWord
=============================================================================
