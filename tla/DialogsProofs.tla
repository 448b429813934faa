----------------------------- MODULE DialogsProofs -----------------------------
(***************************************************************************)
(* Machine-checked proofs about Dialogs and JobDialog, for any set of jobs,*)
(* any number of lines, openings, requests and failures.                   *)
(***************************************************************************)
EXTENDS Dialogs, TLAPS

-----------------------------------------------------------------------------
(* The inductive invariant. *)

\* the calls of create are a function of their slots
CreateTyped == create \in [Call -> [at : {"idle", "asked", "accepted"}, job : Job \cup {NoJob}]]

\* what the effects of the open dialogs have saved: unless two were ever open
\* together, each found a page that scrolls
PageFollows ==
  /\ Stacked => beside # "nothing"
  /\ Stacked /\ deleteOpen => beside = "delete"
  /\ beside # "delete" /\ Open # {} => overflow = "hidden"
  /\ beside = "nothing" => /\ \A d \in Open : previous[d] = ""
                           /\ Open = {} => overflow = ""

IInv == CreateTyped /\ OneCreateAtATime /\ PageFollows

-----------------------------------------------------------------------------
(* The page. *)

\* Open, said of each dialog.
LEMMA OpenAre ==
  /\ Open \subseteq Dialog
  /\ "delete" \in Open <=> deleteOpen
  /\ "create" \in Open <=> createOpen
  /\ "job" \in Open <=> JobOpen
BY DEF Open, Dialog

\* A render of App or of the detail view alone keeps the page in step with the
\* dialogs, whichever it opens or closes; the detail view has ConfirmDelete only.
LEMMA RendersKeep ==
  ASSUME PageFollows, NEW ran \in {Dialog, {"delete"}}, Renders(ran),
         ran = {"delete"} => UNCHANGED <<createOpen, shown>>
  PROVE  PageFollows'
<1> DEFINE found == OverflowRestored(ran)
<1>1. /\ previous' = [d \in Dialog |->
                        IF d \notin Open' THEN ""
                        ELSE IF d \notin ran THEN previous[d]
                        ELSE IF Before(d) \cap Open' \cap ran # {} THEN "hidden"
                        ELSE found]
      /\ overflow' = IF Open' \cap ran # {} THEN "hidden" ELSE found
      /\ beside' = IF ~Stacked' THEN beside
                   ELSE IF deleteOpen' THEN "delete"
                   ELSE IF beside = "nothing" THEN "create"
                   ELSE beside
  BY DEF Renders
<1>2. /\ Open' \subseteq Dialog
      /\ "delete" \in Open' <=> deleteOpen'
      /\ "create" \in Open' <=> createOpen'
      /\ "job" \in Open' <=> JobOpen'
  BY DEF Open, Dialog
<1>3. beside = "nothing" => ~Stacked
  BY DEF PageFollows
<1>4. beside = "nothing" => found = "" \/ (ran = {"delete"} /\ (createOpen \/ JobOpen))
  BY OpenAre DEF PageFollows, OverflowRestored, Dialog
<1>5. ran = {"delete"} => (createOpen' <=> createOpen) /\ (JobOpen' <=> JobOpen)
  BY DEF JobOpen
<1>6. Stacked' => beside' # "nothing"
  BY <1>1
<1>7. Stacked' /\ deleteOpen' => beside' = "delete"
  BY <1>1
<1>8. ASSUME beside' # "delete", Open' # {} PROVE overflow' = "hidden"
  <2>1. CASE Open' \cap ran # {}
    BY <2>1, <1>1
  <2>2. CASE Open' \cap ran = {}
    <3>1. ran = {"delete"} /\ ~deleteOpen' /\ (createOpen \/ JobOpen)
      BY <2>2, <1>2, <1>5, <1>8 DEF Dialog
    <3>2. beside # "delete"
      BY <1>1, <1>8
    <3>3. ~deleteOpen
      BY <3>1, <3>2 DEF PageFollows, Stacked
    <3>4. found = overflow
      BY <3>1, <3>3, OpenAre DEF OverflowRestored
    <3>5. overflow = "hidden"
      BY <3>1, <3>2, OpenAre DEF PageFollows
    <3> QED
      BY <2>2, <3>4, <3>5, <1>1
  <2> QED
    BY <2>1, <2>2
<1>9. ASSUME beside' = "nothing" PROVE (\A d \in Open' : previous'[d] = "") /\ (Open' = {} => overflow' = "")
  <2>1. beside = "nothing" /\ ~Stacked /\ ~Stacked'
    BY <1>1, <1>3, <1>9
  <2>2. ASSUME NEW d \in Open' PROVE previous'[d] = ""
    <3>1. d \in Dialog /\ Open' = {d}
      BY <2>1, <2>2, <1>2 DEF Stacked, Dialog
    <3>2. Before(d) \cap Open' = {}
      BY <3>1 DEF Before, Dialog
    <3>3. previous'[d] = IF d \notin ran THEN previous[d] ELSE found
      BY <3>1, <3>2, <1>1
    <3>4. CASE d \notin ran
      <4>1. d \in Open
        BY <3>1, <3>4, <1>2, <1>5, OpenAre DEF Dialog
      <4> QED
        BY <4>1, <3>3, <3>4, <2>1 DEF PageFollows
    <3>5. CASE d \in ran
      <4>1. ~(ran = {"delete"} /\ (createOpen \/ JobOpen))
        BY <3>1, <3>5, <1>2, <1>5
      <4> QED
        BY <4>1, <3>3, <3>5, <2>1, <1>4
    <3> QED
      BY <3>4, <3>5
  <2>3. Open' = {} => overflow' = ""
    <3>1. Open' = {} => ~(ran = {"delete"} /\ (createOpen \/ JobOpen))
      BY <1>2, <1>5
    <3> QED
      BY <3>1, <2>1, <1>1, <1>4
  <2> QED
    BY <2>2, <2>3
<1> QED
  BY <1>6, <1>7, <1>8, <1>9 DEF PageFollows

LEMMA EffectsKeep ==
  ASSUME PageFollows, Effects
  PROVE  PageFollows'
<1>1. Dialog # {"delete"}
  BY DEF Dialog
<1> QED
  BY <1>1, RendersKeep DEF Effects

\* What changes neither dialog nor page keeps them in step.
LEMMA QuietPage ==
  ASSUME PageFollows, UNCHANGED <<createOpen, deleteOpen, shown, page>>
  PROVE  PageFollows'
<1>1. shown' = shown /\ createOpen' = createOpen /\ deleteOpen' = deleteOpen
  OBVIOUS
<1>2. overflow' = overflow /\ previous' = previous /\ beside' = beside
  BY DEF page
<1>3. Open' = Open
  BY <1>1 DEF Open, JobOpen
<1>4. Stacked' => Stacked
  BY <1>1 DEF Stacked, JobOpen
<1>5. deleteOpen' => deleteOpen
  BY <1>1
<1>6. Stacked' => beside' # "nothing"
  BY <1>2, <1>4 DEF PageFollows
<1>7. Stacked' /\ deleteOpen' => beside' = "delete"
  BY <1>2, <1>4, <1>5 DEF PageFollows
<1>8. beside' # "delete" /\ Open' # {} => overflow' = "hidden"
  BY <1>2, <1>3 DEF PageFollows
<1>9. beside' = "nothing" => (\A d \in Open' : previous'[d] = "") /\ (Open' = {} => overflow' = "")
  BY <1>2, <1>3 DEF PageFollows
<1> QED
  BY <1>6, <1>7, <1>8, <1>9 DEF PageFollows

\* Following a job and the work of the daemon leave the dialogs open or closed.
LEMMA FollowLeavesDialogs ==
  /\ \A n \in Opening : Follow(n) => shown' = shown
  /\ \A j \in Job : Work(j) => shown' = shown
BY DEF Follow, GetAnswer, GetArrives, GetFails, Send, OnLog, OnStatus, OnDone, OnError, Receive,
       Work, Move, Write, dialog

\* Every step keeps the page in step with the dialogs.
LEMMA NextPage == PageFollows /\ [DialogsNext]_dialogsVars => PageFollows'
<1> SUFFICES ASSUME PageFollows, [DialogsNext]_dialogsVars PROVE PageFollows'
  OBVIOUS
<1>1. CASE UNCHANGED dialogsVars
  BY <1>1, QuietPage DEF dialogsVars, vars, dialog, createForm
<1>2. CASE JobDialogStep
  <2>1. CASE Effects
    BY <2>1, EffectsKeep
  <2>2. CASE /\ \/ \E n \in Opening : Follow(n)
                \/ \E j \in Job : Work(j)
             /\ UNCHANGED <<createForm, deleteOpen, page>>
    BY <2>2, FollowLeavesDialogs, QuietPage DEF createForm
  <2> QED
    BY <1>2, <2>1, <2>2 DEF JobDialogStep
<1>3. CASE CreateStep
  <2>1. CASE OpenCreate \/ CloseCreate \/ \E n \in Call : Created(n)
    BY <2>1, EffectsKeep DEF OpenCreate, CloseCreate, Created
  <2>2. CASE Submit
    BY <2>2, QuietPage DEF Submit, vars, dialog
  <2>3. ASSUME NEW n \in Call, NotCreated(n) PROVE PageFollows'
    BY <2>3, QuietPage DEF NotCreated, vars, dialog
  <2>4. ASSUME NEW n \in Call, NEW j \in Job, Accept(n, j) PROVE PageFollows'
    BY <2>4, QuietPage DEF Accept, dialog
  <2> QED
    BY <1>3, <2>1, <2>2, <2>3, <2>4 DEF CreateStep
<1>4. CASE Render \/ Escape \/ Leave
  BY <1>4, EffectsKeep DEF Render, Escape, Leave
<1>5. CASE OpenDelete \/ CloseDelete \/ RenderDetail
  <2>1. Renders({"delete"}) /\ UNCHANGED <<createOpen, shown>>
    BY <1>5 DEF OpenDelete, CloseDelete, RenderDetail, createForm, vars, dialog
  <2> QED
    BY <2>1, RendersKeep
<1> QED
  BY <1>1, <1>2, <1>3, <1>4, <1>5 DEF DialogsNext, DeleteStep

-----------------------------------------------------------------------------
(* The requests to create. *)

OneCreate == CreateTyped /\ OneCreateAtATime

\* What leaves the requests and their flag alone keeps both.
LEMMA QuietCreate ==
  ASSUME OneCreate, UNCHANGED <<create, createLoading>>
  PROVE  OneCreate'
BY DEF OneCreate, CreateTyped, OneCreateAtATime, InFlight

\* A request is made when none is under way.
LEMMA SubmitKeeps ==
  ASSUME OneCreate, Submit
  PROVE  OneCreate'
<1>1. PICK n \in Call : create' = [create EXCEPT ![n].at = "asked"]
  BY DEF Submit
<1>2. createLoading' = TRUE /\ \A m \in Call : create[m] = NoCall
  BY DEF Submit, OneCreate, OneCreateAtATime, InFlight
<1>3. \A m \in Call : m # n => create'[m] = NoCall
  BY <1>1, <1>2 DEF OneCreate, CreateTyped
<1>4. create'[n] = [at |-> "asked", job |-> NoJob]
  BY <1>1, <1>2 DEF OneCreate, CreateTyped, NoCall
<1>5. CreateTyped'
  BY <1>1, <1>4 DEF OneCreate, CreateTyped
<1>6. InFlight(n)' /\ \A m \in Call : m # n => ~InFlight(m)'
  BY <1>3, <1>4 DEF InFlight, NoCall
<1> QED
  BY <1>2, <1>5, <1>6 DEF OneCreate, OneCreateAtATime

\* The only request there is has ended.
LEMMA EndedKeeps ==
  ASSUME OneCreate, NEW n \in Call, InFlight(n),
         create' = [create EXCEPT ![n] = NoCall], createLoading' = FALSE
  PROVE  OneCreate'
<1>1. \A m \in Call : create'[m] = NoCall
  BY DEF OneCreate, CreateTyped, OneCreateAtATime, InFlight
<1>2. NoCall \in [at : {"idle", "asked", "accepted"}, job : Job \cup {NoJob}]
  BY DEF NoCall
<1>3. CreateTyped'
  BY <1>2 DEF OneCreate, CreateTyped
<1> QED
  BY <1>1, <1>3 DEF OneCreate, OneCreateAtATime, InFlight

\* A request that is accepted is still under way.
LEMMA AcceptKeeps ==
  ASSUME OneCreate, NEW n \in Call, NEW j \in Job, Accept(n, j)
  PROVE  OneCreate'
<1>1. /\ create' = [create EXCEPT ![n] = [at |-> "accepted", job |-> j]]
      /\ createLoading' = createLoading
      /\ InFlight(n)
  BY DEF Accept, InFlight, NoCall
<1>2. CreateTyped'
  BY <1>1 DEF OneCreate, CreateTyped
<1>3. \A m \in Call : InFlight(m)' <=> InFlight(m)
  BY <1>1 DEF OneCreate, CreateTyped, InFlight, NoCall
<1> QED
  BY <1>1, <1>2, <1>3 DEF OneCreate, OneCreateAtATime

\* Every step keeps one request at a time.
LEMMA NextCreate == OneCreate /\ [DialogsNext]_dialogsVars => OneCreate'
<1> SUFFICES ASSUME OneCreate, [DialogsNext]_dialogsVars PROVE OneCreate'
  OBVIOUS
<1>1. CASE UNCHANGED dialogsVars
  BY <1>1, QuietCreate DEF dialogsVars, createForm
<1>2. CASE JobDialogStep \/ DeleteStep \/ Render \/ Escape
  BY <1>2, QuietCreate DEF JobDialogStep, DeleteStep, OpenDelete, CloseDelete, RenderDetail, Leave,
                           Render, Escape, createForm
<1>3. CASE OpenCreate \/ CloseCreate
  BY <1>3, QuietCreate DEF OpenCreate, CloseCreate
<1>4. CASE Submit
  BY <1>4, SubmitKeeps
<1>5. ASSUME NEW n \in Call, Created(n) \/ NotCreated(n) PROVE OneCreate'
  <2>1. InFlight(n)
    BY <1>5 DEF Created, NotCreated, InFlight, NoCall
  <2>2. create' = [create EXCEPT ![n] = NoCall] /\ createLoading' = FALSE
    BY <1>5 DEF Created, NotCreated
  <2> QED
    BY <2>1, <2>2, EndedKeeps
<1>6. ASSUME NEW n \in Call, NEW j \in Job, Accept(n, j) PROVE OneCreate'
  BY <1>6, AcceptKeeps
<1> QED
  BY <1>1, <1>2, <1>3, <1>4, <1>5, <1>6 DEF DialogsNext, CreateStep

-----------------------------------------------------------------------------
(* The results. *)

\* The invariant holds in every reachable state.
THEOREM Invariance == DialogsSpec => []IInv
<1>1. DialogsInit => PageFollows
  <2> SUFFICES ASSUME DialogsInit PROVE PageFollows
    OBVIOUS
  <2>1. ~deleteOpen /\ ~createOpen /\ ~JobOpen
    BY DEF DialogsInit, Init, JobOpen
  <2>2. overflow = "" /\ beside = "nothing"
    BY DEF DialogsInit
  <2>3. Open = {} /\ ~Stacked
    BY <2>1 DEF Open, Stacked
  <2> QED
    BY <2>1, <2>2, <2>3 DEF PageFollows
<1>2. DialogsInit => OneCreate
  <2>1. DialogsInit => CreateTyped
    <3>1. NoCall \in [at : {"idle", "asked", "accepted"}, job : Job \cup {NoJob}]
      BY DEF NoCall
    <3>2. DialogsInit => create = [n \in Call |-> NoCall]
      BY DEF DialogsInit
    <3> QED
      BY <3>1, <3>2 DEF CreateTyped
  <2>2. DialogsInit => OneCreateAtATime
    BY DEF DialogsInit, OneCreateAtATime, InFlight
  <2> QED
    BY <2>1, <2>2 DEF OneCreate
<1>3. OneCreate /\ PageFollows => IInv
  BY DEF OneCreate, IInv
<1> QED
  BY <1>1, <1>2, <1>3, NextPage, NextCreate, PTL DEF DialogsSpec

\* The form never has two requests under way, however often it is closed and
\* opened again before an answer.
THEOREM NeverTwoCreates == DialogsSpec => []OneCreateAtATime
<1>1. IInv => OneCreateAtATime
  BY DEF IInv
<1> QED
  BY <1>1, Invariance, PTL

\* The page is locked behind an open dialog unless ConfirmDelete was open
\* beside another one, and it scrolls again after the last one unless any two
\* of the three dialogs were ever open together.
THEOREM PageScrollsAgain == DialogsSpec => []PageScrolls
<1>1. IInv => PageScrolls
  BY DEF IInv, PageFollows, PageScrolls
<1> QED
  BY <1>1, Invariance, PTL

-----------------------------------------------------------------------------
(* The dialog of a job. *)

\* the stream of each opening: one that is closed has nothing on its way, one
\* that is not belongs to the opening and the job that are shown
Streams ==
  \A n \in Opening :
    /\ n <= opened => source[n].job \in Job
    /\ source[n].at = "closed" => source[n].wire = <<>>
    /\ source[n].at # "closed" => n = opened /\ shown \in Job /\ source[n].job = shown

\* the dialog has the first k lines, and the stream brings the next ones up to
\* the last that was sent, and then the end of a job that is over
Following(n, k) ==
  LET s == source[n]
  IN /\ logs = {<<shown, i>> : i \in 1..k}
     /\ k <= s.after /\ s.after <= lines[shown]
     /\ s.at = "open" => Len(s.wire) = s.after - k
     /\ \A i \in 1..Len(s.wire) :
          IF i <= s.after - k THEN s.wire[i] = [event |-> "log", line |-> k + i]
          ELSE /\ s.wire[i].event \in {"status", "done"}
               /\ s.wire[i].status = "over"
               /\ status[shown] = "over"

Followed ==
  \A n \in Opening : source[n].at # "closed" => \E k \in 0..MaxLine : Following(n, k)

JInv == TypeOK /\ Streams /\ Followed /\ OwnLog /\ CompleteMeansOver

Stream == [job : Job \cup {NoJob}, at : {"open", "sent", "closed"},
           after : 0..MaxLine, wire : Seq(Event)]
Request == [at : {"idle", "asked", "answered", "over"}, answer : Status]

\* What TypeOK says, with the sets named; a step that keeps the parts keeps it.
LEMMA TypesAre ==
  TypeOK <=>
    /\ status \in [Job -> Status] /\ lines \in [Job -> 0..MaxLine]
    /\ shown \in Job \cup {NoJob} /\ logs \subseteq Job \X (1..MaxLine)
    /\ record \in [job : Job \cup {NoJob}, status : Status]
    /\ streaming \in BOOLEAN /\ opened \in 0..MaxOpen
    /\ source \in [Opening -> Stream] /\ get \in [Opening -> Request]
    /\ \A n \in Opening : n > opened => source[n] = NoSource /\ get[n] = Idle
    /\ errors \in 0..MaxError
BY DEF TypeOK, Stream, Request

LEMMA BoundsAreNat == MaxLine \in Nat /\ MaxOpen \in Nat /\ MaxError \in Nat
BY DashboardBounds

\* What a closed stream is.
LEMMA ShutCloses ==
  ASSUME TypeOK, NEW n \in Opening
  PROVE  /\ Shut(n) \in [Opening -> Stream]
         /\ Shut(n)[n] = [job |-> source[n].job, at |-> "closed",
                          after |-> 0, wire |-> <<>>]
         /\ \A m \in Opening : m # n => Shut(n)[m] = source[m]
<1>1. source \in [Opening -> Stream]
  BY TypesAre
<1> DEFINE closed == [job |-> source[n].job, at |-> "closed",
                      after |-> 0, wire |-> <<>>]
<1>2. source[n] \in Stream
  BY <1>1
<1>3. closed \in Stream
  <2>1. <<>> \in Seq(Event)
    OBVIOUS
  <2> QED
    BY <1>2, <2>1, BoundsAreNat DEF Stream
<1>4. Shut(n) = [source EXCEPT ![n] = closed]
  BY DEF Shut
<1> QED
  BY <1>1, <1>3, <1>4

\* After the cleanup of the effect every stream is closed.
LEMMA UnsubscribedCloses ==
  ASSUME TypeOK, Streams
  PROVE  /\ Unsubscribed \in [Opening -> Stream]
         /\ \A m \in Opening : /\ Unsubscribed[m].at = "closed"
                               /\ Unsubscribed[m].wire = <<>>
                               /\ Unsubscribed[m].job = source[m].job
                               /\ m > opened => Unsubscribed[m] = NoSource
<1>1. /\ source \in [Opening -> Stream] /\ opened \in 0..MaxOpen
      /\ \A n \in Opening : n > opened => source[n] = NoSource
  BY TypesAre
<1>2. \A m \in Opening : m # opened => source[m].at = "closed" /\ source[m].wire = <<>>
  BY DEF Streams
<1>3. CASE opened = 0
  <2>1. Unsubscribed = source
    BY <1>3 DEF Unsubscribed
  <2>2. \A m \in Opening : m # opened
    BY <1>3, BoundsAreNat DEF Opening
  <2> QED
    BY <2>1, <2>2, <1>1, <1>2
<1>4. CASE opened # 0
  <2>1. Unsubscribed = Shut(opened)
    BY <1>4 DEF Unsubscribed
  <2>2. opened \in Opening
    BY <1>1, <1>4, BoundsAreNat DEF Opening
  <2>3. /\ Shut(opened) \in [Opening -> Stream]
        /\ Shut(opened)[opened] = [job |-> source[opened].job, at |-> "closed",
                                   after |-> 0, wire |-> <<>>]
        /\ \A m \in Opening : m # opened => Shut(opened)[m] = source[m]
    BY <2>2, ShutCloses
  <2> QED
    BY <2>1, <2>2, <2>3, <1>1, <1>2, BoundsAreNat DEF Opening
<1> QED
  BY <1>3, <1>4

-----------------------------------------------------------------------------
(* What the daemon does changes nothing of what the dialog has. *)

\* Lines are appended and outcomes stay.
LEMMA FollowedOn ==
  ASSUME TypeOK, Streams, Followed, UNCHANGED <<source, shown, logs>>,
         \A j \in Job : /\ lines'[j] \in Nat /\ lines[j] <= lines'[j]
                        /\ status[j] = "over" => status'[j] = "over"
  PROVE  Followed'
<1> SUFFICES ASSUME NEW n \in Opening, source[n].at # "closed"
             PROVE  \E k \in 0..MaxLine : Following(n, k)'
  BY DEF Followed
<1>1. PICK k \in 0..MaxLine : Following(n, k)
  BY DEF Followed
<1>2. shown \in Job
  BY DEF Streams
<1>3. source[n] \in Stream /\ lines[shown] \in 0..MaxLine
  BY <1>2, TypesAre
<1>4. source[n].after \in 0..MaxLine
  BY <1>3 DEF Stream
<1>5. Following(n, k)'
  BY <1>1, <1>2, <1>3, <1>4, BoundsAreNat DEF Following
<1> QED
  BY <1>5

\* Nothing that the invariant is about changes, but answers to getJob.
LEMMA GetsKeep ==
  ASSUME JInv, UNCHANGED <<status, lines, shown, logs, opened, source>>,
         CompleteMeansOver', TypeOK'
  PROVE  JInv'
<1>1. Streams'
  BY DEF JInv, Streams
<1>2. Followed'
  BY DEF JInv, Followed, Following
<1>3. OwnLog'
  BY DEF JInv, OwnLog
<1> QED
  BY <1>1, <1>2, <1>3 DEF JInv

LEMMA MoveKeeps ==
  ASSUME JInv, NEW j \in Job, Move(j)
  PROVE  JInv'
<1>1. /\ TypeOK /\ Streams /\ Followed /\ OwnLog /\ CompleteMeansOver
      /\ UNCHANGED <<lines, shown, logs, record, streaming, opened, source, get, errors>>
      /\ \/ status[j] = "none" /\ status' = [status EXCEPT ![j] = "open"]
         \/ status[j] = "open" /\ status' = [status EXCEPT ![j] = "over"]
  BY DEF JInv, Move, dialog
<1>2. /\ status \in [Job -> Status] /\ lines \in [Job -> 0..MaxLine] /\ shown \in Job \cup {NoJob}
  BY <1>1, TypesAre
<1>3. /\ status' \in [Job -> Status]
      /\ \A i \in Job : status[i] = "over" => status'[i] = "over"
  BY <1>1, <1>2 DEF Status
<1>4. TypeOK'
  BY <1>1, <1>3 DEF TypeOK
<1>5. Streams' /\ OwnLog'
  BY <1>1 DEF Streams, OwnLog
<1>6. Followed'
  BY <1>1, <1>2, <1>3, FollowedOn, BoundsAreNat
<1>7. CompleteMeansOver'
  BY <1>1, <1>2, <1>3 DEF CompleteMeansOver
<1> QED
  BY <1>4, <1>5, <1>6, <1>7 DEF JInv

LEMMA WriteKeeps ==
  ASSUME JInv, NEW j \in Job, Write(j)
  PROVE  JInv'
<1>1. /\ TypeOK /\ Streams /\ Followed /\ OwnLog /\ CompleteMeansOver
      /\ UNCHANGED <<status, shown, logs, record, streaming, opened, source, get, errors>>
      /\ lines[j] < MaxLine /\ lines' = [lines EXCEPT ![j] = lines[j] + 1]
  BY DEF JInv, Write, dialog
<1>2. lines \in [Job -> 0..MaxLine]
  BY <1>1, TypesAre
<1>3. /\ lines' \in [Job -> 0..MaxLine]
      /\ \A i \in Job : lines'[i] \in Nat /\ lines[i] <= lines'[i]
  BY <1>1, <1>2, BoundsAreNat
<1>4. TypeOK'
  BY <1>1, <1>3 DEF TypeOK
<1>5. Streams' /\ OwnLog' /\ CompleteMeansOver'
  BY <1>1 DEF Streams, OwnLog, CompleteMeansOver
<1>6. Followed'
  BY <1>1, <1>3, FollowedOn
<1> QED
  BY <1>4, <1>5, <1>6 DEF JInv

-----------------------------------------------------------------------------
(* Opening and closing the dialog of a job. *)

\* The dialog that is opened starts with no line and with a stream of its own.
LEMMA ShowKeeps ==
  ASSUME JInv, NEW j \in Job, Show(j)
  PROVE  JInv'
<1> DEFINE fresh == [job |-> j, at |-> "open", after |-> 0, wire |-> <<>>]
<1>1. /\ TypeOK /\ Streams
      /\ opened < MaxOpen
      /\ shown' = j /\ opened' = opened + 1 /\ logs' = {} /\ streaming' = TRUE
      /\ source' = [Unsubscribed EXCEPT ![opened + 1] = fresh]
      /\ get' = [get EXCEPT ![opened + 1].at = "asked"]
      /\ UNCHANGED <<status, lines, record, errors>>
  BY DEF JInv, Show, Subscribe, daemon
<1>2. /\ opened \in 0..MaxOpen /\ get \in [Opening -> Request] /\ lines \in [Job -> 0..MaxLine]
      /\ \A n \in Opening : n > opened => source[n] = NoSource /\ get[n] = Idle
  BY <1>1, TypesAre
<1>3. opened + 1 \in Opening /\ opened' \in 0..MaxOpen
  BY <1>1, <1>2, BoundsAreNat DEF Opening
<1>4. fresh \in Stream
  <2>1. <<>> \in Seq(Event)
    OBVIOUS
  <2> QED
    BY <2>1, BoundsAreNat DEF Stream
<1>5. /\ Unsubscribed \in [Opening -> Stream]
      /\ \A m \in Opening : /\ Unsubscribed[m].at = "closed"
                            /\ Unsubscribed[m].wire = <<>>
                            /\ Unsubscribed[m].job = source[m].job
                            /\ m > opened => Unsubscribed[m] = NoSource
  BY <1>1, UnsubscribedCloses
<1>6. /\ source' \in [Opening -> Stream]
      /\ source'[opened + 1] = fresh
      /\ \A m \in Opening : m # opened + 1 => source'[m] = Unsubscribed[m]
  BY <1>1, <1>3, <1>4, <1>5
<1>7. TypeOK'
  <2>1. get' \in [Opening -> Request]
    BY <1>1, <1>2, <1>3 DEF Request
  <2>2. \A n \in Opening : n > opened' => source'[n] = NoSource /\ get'[n] = Idle
    BY <1>1, <1>2, <1>3, <1>5, <1>6 DEF Opening
  <2> QED
    BY <1>1, <1>3, <1>6, <2>1, <2>2 DEF TypeOK, Stream, Request
<1>8. Streams'
  <2>1. ASSUME NEW n \in Opening, n <= opened' PROVE source'[n].job \in Job
    <3>1. CASE n = opened + 1
      BY <3>1, <1>6
    <3>2. CASE n <= opened
      <4>1. source[n].job \in Job
        BY <3>2, <1>1 DEF Streams
      <4> QED
        BY <3>2, <4>1, <1>2, <1>5, <1>6 DEF Opening
    <3> QED
      BY <2>1, <3>1, <3>2, <1>1, <1>2 DEF Opening
  <2>2. ASSUME NEW n \in Opening
        PROVE  /\ source'[n].at = "closed" => source'[n].wire = <<>>
               /\ source'[n].at # "closed" => n = opened' /\ shown' \in Job /\ source'[n].job = shown'
    BY <2>2, <1>1, <1>5, <1>6
  <2> QED
    BY <2>1, <2>2 DEF Streams
<1>9. logs' = {<<shown', i>> : i \in 1..0}
  BY <1>1
<1>10. Followed'
  <2> SUFFICES ASSUME NEW n \in Opening, source'[n].at # "closed"
               PROVE  \E k \in 0..MaxLine : Following(n, k)'
    BY DEF Followed
  <2>1. n = opened + 1 /\ source'[n] = fresh
    BY <1>5, <1>6
  <2>2. 0 <= lines'[shown'] /\ Len(<<>>) = 0
    BY <1>1, <1>2, BoundsAreNat
  <2>3. \A i \in 1..Len(<<>>) : FALSE
    BY <2>2
  <2>4. Following(n, 0)'
    BY <2>1, <2>2, <2>3, <1>9 DEF Following
  <2> QED
    BY <2>4, BoundsAreNat
<1>11. OwnLog'
  BY <1>9, BoundsAreNat DEF OwnLog
<1>12. CompleteMeansOver'
  BY <1>1 DEF CompleteMeansOver
<1> QED
  BY <1>7, <1>8, <1>10, <1>11, <1>12 DEF JInv

LEMMA CloseKeeps ==
  ASSUME JInv, Close
  PROVE  JInv'
<1>1. /\ TypeOK /\ Streams
      /\ shown' = NoJob /\ logs' = {} /\ record' = NoRecord /\ source' = Unsubscribed
      /\ UNCHANGED <<status, lines, streaming, opened, get, errors>>
  BY DEF JInv, Close, daemon
<1>2. /\ opened \in 0..MaxOpen
      /\ \A n \in Opening : n > opened => get[n] = Idle
  BY <1>1, TypesAre
<1>3. /\ source' \in [Opening -> Stream]
      /\ \A m \in Opening : /\ source'[m].at = "closed"
                            /\ source'[m].wire = <<>>
                            /\ source'[m].job = source[m].job
                            /\ m > opened => source'[m] = NoSource
  BY <1>1, UnsubscribedCloses
<1>4. TypeOK'
  <2>1. NoRecord \in [job : Job \cup {NoJob}, status : Status]
    BY DEF NoRecord, Status
  <2> QED
    BY <1>1, <1>2, <1>3, <2>1 DEF TypeOK, Stream
<1>5. Streams' /\ Followed'
  BY <1>1, <1>3 DEF Streams, Followed
<1>6. logs' = {<<shown', i>> : i \in 1..0}
  BY <1>1
<1>7. OwnLog' /\ CompleteMeansOver'
  BY <1>1, <1>6, BoundsAreNat DEF OwnLog, CompleteMeansOver
<1> QED
  BY <1>4, <1>5, <1>7 DEF JInv

-----------------------------------------------------------------------------
(* getJob. *)

LEMMA GetAnswerKeeps ==
  ASSUME JInv, NEW n \in Opening, GetAnswer(n)
  PROVE  JInv'
<1> DEFINE answered == [at |-> "answered", answer |-> status[source[n].job]]
<1>1. /\ TypeOK /\ Streams /\ CompleteMeansOver
      /\ get[n].at = "asked" /\ get' = [get EXCEPT ![n] = answered]
      /\ UNCHANGED <<status, lines, shown, logs, record, streaming, opened, source, errors>>
  BY DEF JInv, GetAnswer, daemon, dialog
<1>2. /\ status \in [Job -> Status] /\ get \in [Opening -> Request] /\ opened \in 0..MaxOpen
      /\ \A m \in Opening : m > opened => get[m] = Idle
  BY <1>1, TypesAre
<1>3. n <= opened
  BY <1>1, <1>2 DEF Idle, Opening
<1>4. source[n].job \in Job
  BY <1>1, <1>3 DEF Streams
<1>5. answered \in Request
  BY <1>2, <1>4 DEF Request
<1>6. /\ get' \in [Opening -> Request]
      /\ \A m \in Opening : m > opened => get'[m] = Idle
  <2>1. get' \in [Opening -> Request]
    BY <1>1, <1>2, <1>3, <1>5
  <2>2. \A m \in Opening : m > opened => m # n
    BY <1>2, <1>3 DEF Opening
  <2> QED
    BY <1>1, <1>2, <2>1, <2>2
<1>7. TypeOK'
  BY <1>1, <1>6 DEF TypeOK, Request
<1>8. CompleteMeansOver'
  BY <1>1 DEF CompleteMeansOver
<1> QED
  BY <1>1, <1>7, <1>8, GetsKeep

LEMMA GetArrivesKeeps ==
  ASSUME JInv, NEW n \in Opening, GetArrives(n)
  PROVE  JInv'
<1>1. /\ TypeOK /\ CompleteMeansOver
      /\ get[n].at = "answered" /\ get' = [get EXCEPT ![n] = [at |-> "over", answer |-> "none"]]
      /\ record' = [job |-> source[n].job, status |-> get[n].answer]
      /\ UNCHANGED <<status, lines, shown, logs, streaming, opened, source, errors>>
  BY DEF JInv, GetArrives, daemon
<1>2. /\ source \in [Opening -> Stream] /\ get \in [Opening -> Request] /\ opened \in 0..MaxOpen
      /\ \A m \in Opening : m > opened => get[m] = Idle
  BY <1>1, TypesAre
<1>3. n <= opened
  BY <1>1, <1>2 DEF Idle, Opening
<1>4. /\ get' \in [Opening -> Request]
      /\ \A m \in Opening : m > opened => get'[m] = Idle
  <2>1. get' \in [Opening -> Request]
    BY <1>1, <1>2, <1>3 DEF Request, Status
  <2>2. \A m \in Opening : m > opened => m # n
    BY <1>2, <1>3 DEF Opening
  <2> QED
    BY <1>1, <1>2, <2>1, <2>2
<1>5. record' \in [job : Job \cup {NoJob}, status : Status]
  BY <1>1, <1>2 DEF Stream, Request
<1>6. TypeOK'
  BY <1>1, <1>4, <1>5 DEF TypeOK, Request
<1>7. CompleteMeansOver'
  BY <1>1 DEF CompleteMeansOver
<1> QED
  BY <1>1, <1>6, <1>7, GetsKeep

LEMMA GetFailsKeeps ==
  ASSUME JInv, NEW n \in Opening, GetFails(n)
  PROVE  JInv'
<1>1. /\ TypeOK
      /\ get[n].at = "asked" /\ get' = [get EXCEPT ![n].at = "over"]
      /\ errors < MaxError /\ errors' = errors + 1 /\ streaming' = FALSE
      /\ UNCHANGED <<status, lines, shown, logs, record, opened, source>>
  BY DEF JInv, GetFails, Error, daemon
<1>2. /\ get \in [Opening -> Request] /\ opened \in 0..MaxOpen /\ errors \in 0..MaxError
      /\ \A m \in Opening : m > opened => get[m] = Idle
  BY <1>1, TypesAre
<1>3. n <= opened
  BY <1>1, <1>2 DEF Idle, Opening
<1>4. /\ get' \in [Opening -> Request]
      /\ \A m \in Opening : m > opened => get'[m] = Idle
  <2>1. get' \in [Opening -> Request]
    BY <1>1, <1>2, <1>3 DEF Request
  <2>2. \A m \in Opening : m > opened => m # n
    BY <1>2, <1>3 DEF Opening
  <2> QED
    BY <1>1, <1>2, <2>1, <2>2
<1>5. errors' \in 0..MaxError /\ errors' # 0
  BY <1>1, <1>2, BoundsAreNat
<1>6. TypeOK'
  BY <1>1, <1>4, <1>5 DEF TypeOK, Request
<1>7. CompleteMeansOver'
  BY <1>1, <1>5 DEF CompleteMeansOver
<1> QED
  BY <1>1, <1>6, <1>7, GetsKeep

-----------------------------------------------------------------------------
(* The event stream. *)

\* The stream that is not closed is the only one, and is that of the dialog.
LEMMA LiveStream ==
  ASSUME JInv, NEW n \in Opening, source[n].at # "closed"
  PROVE  /\ n = opened /\ shown \in Job /\ source[n].job = shown
         /\ source \in [Opening -> Stream] /\ source[n] \in Stream
         /\ status \in [Job -> Status] /\ lines \in [Job -> 0..MaxLine]
         /\ \E k \in 0..MaxLine : Following(n, k)
         /\ \A m \in Opening : m # n => source[m].at = "closed" /\ source[m].wire = <<>>
<1>1. TypeOK /\ Streams /\ Followed
  BY DEF JInv
<1> QED
  BY <1>1, TypesAre DEF Streams, Followed

LEMMA WireIsLive ==
  ASSUME JInv, NEW n \in Opening, source[n].wire # <<>>
  PROVE  source[n].at # "closed"
BY DEF JInv, Streams

\* A step of the stream alone.
LEMMA StreamStep ==
  ASSUME JInv, NEW n \in Opening, source[n].at # "closed",
         NEW t \in Stream, t.job = source[n].job, t.at = "closed" => t.wire = <<>>,
         source' = [source EXCEPT ![n] = t],
         UNCHANGED <<status, lines, shown, opened, get>>,
         logs' \subseteq Job \X (1..MaxLine),
         record' \in [job : Job \cup {NoJob}, status : Status],
         streaming' \in BOOLEAN, errors' \in 0..MaxError,
         t.at # "closed" => \E k \in 0..MaxLine : Following(n, k)'
  PROVE  TypeOK' /\ Streams' /\ Followed'
<1>1. /\ n = opened /\ shown \in Job /\ source[n].job = shown /\ source \in [Opening -> Stream]
      /\ \A m \in Opening : m # n => source[m].at = "closed" /\ source[m].wire = <<>>
  BY LiveStream
<1>2. TypeOK /\ Streams
  BY DEF JInv
<1>3. /\ source' \in [Opening -> Stream] /\ source'[n] = t
      /\ \A m \in Opening : m # n => source'[m] = source[m]
  BY <1>1
<1>4. \A m \in Opening : m > opened => source'[m] = NoSource /\ get'[m] = Idle
  <2>1. \A m \in Opening : m > opened => source[m] = NoSource /\ get[m] = Idle
    BY <1>2, TypesAre
  <2>2. \A m \in Opening : m > opened => m # n
    BY <1>1 DEF Opening
  <2> QED
    BY <1>3, <2>1, <2>2
<1>5. TypeOK'
  BY <1>2, <1>3, <1>4 DEF TypeOK, Stream
<1>6. Streams'
  BY <1>1, <1>2, <1>3 DEF Streams
<1>7. Followed'
  BY <1>1, <1>3 DEF Followed
<1> QED
  BY <1>5, <1>6, <1>7

\* A stream that is closed leaves the dialog as it is.
LEMMA ShutKeeps ==
  ASSUME JInv, NEW n \in Opening, source[n].at # "closed", source' = Shut(n),
         UNCHANGED <<status, lines, shown, logs, opened, get>>,
         record' \in [job : Job \cup {NoJob}, status : Status],
         streaming' \in BOOLEAN, errors' \in 0..MaxError, CompleteMeansOver'
  PROVE  JInv'
<1> DEFINE t == [job |-> source[n].job, at |-> "closed", after |-> 0, wire |-> <<>>]
<1>1. TypeOK /\ OwnLog /\ source[n] \in Stream
  BY LiveStream DEF JInv
<1>2. t \in Stream
  <2>1. <<>> \in Seq(Event)
    OBVIOUS
  <2> QED
    BY <1>1, <2>1, BoundsAreNat DEF Stream
<1>3. source' = [source EXCEPT ![n] = t]
  BY DEF Shut
<1>4. logs' \subseteq Job \X (1..MaxLine)
  BY <1>1, TypesAre
<1>5. t.job = source[n].job /\ t.at = "closed" /\ t.wire = <<>>
  OBVIOUS
<1> HIDE DEF t
<1>6. TypeOK' /\ Streams' /\ Followed'
  BY <1>2, <1>3, <1>4, <1>5, StreamStep
<1>7. OwnLog'
  BY <1>1 DEF OwnLog
<1> QED
  BY <1>6, <1>7 DEF JInv

LEMMA OnErrorKeeps ==
  ASSUME JInv, NEW n \in Opening, OnError(n)
  PROVE  JInv'
<1>1. /\ TypeOK /\ source[n].at # "closed" /\ source' = Shut(n)
      /\ errors < MaxError /\ errors' = errors + 1 /\ streaming' = FALSE
      /\ UNCHANGED <<status, lines, shown, logs, record, opened, get>>
  BY DEF JInv, OnError, Error, daemon
<1>2. errors \in 0..MaxError /\ record \in [job : Job \cup {NoJob}, status : Status]
  BY <1>1, TypesAre
<1>3. errors' \in 0..MaxError /\ errors' # 0
  BY <1>1, <1>2, BoundsAreNat
<1>4. record' \in [job : Job \cup {NoJob}, status : Status] /\ streaming' \in BOOLEAN
  BY <1>1, <1>2
<1>5. CompleteMeansOver'
  BY <1>3 DEF CompleteMeansOver
<1> QED
  BY <1>1, <1>3, <1>4, <1>5, ShutKeeps

\* What follows the last line is the end of a job that is over.
LEMMA EndMeansOver ==
  ASSUME JInv, NEW n \in Opening, source[n].wire # <<>>, Head(source[n].wire).event # "log"
  PROVE  Head(source[n].wire).status = "over" /\ status[shown] = "over"
<1>1. source[n].at # "closed"
  BY WireIsLive
<1>2. source[n] \in Stream /\ \E k \in 0..MaxLine : Following(n, k)
  BY <1>1, LiveStream
<1>3. source[n].wire \in Seq(Event) /\ source[n].after \in 0..MaxLine
  BY <1>2 DEF Stream
<1>4. 1 \in 1..Len(source[n].wire) /\ Head(source[n].wire) = source[n].wire[1]
  BY <1>3
<1>5. PICK k \in 0..MaxLine : Following(n, k)
  BY <1>2
<1>6. IF 1 <= source[n].after - k THEN source[n].wire[1] = [event |-> "log", line |-> k + 1]
      ELSE source[n].wire[1].status = "over" /\ status[shown] = "over"
  BY <1>4, <1>5 DEF Following
<1> QED
  BY <1>4, <1>6

LEMMA OnDoneKeeps ==
  ASSUME JInv, NEW n \in Opening, OnDone(n)
  PROVE  JInv'
<1>1. /\ TypeOK
      /\ source[n].wire # <<>> /\ Head(source[n].wire).event = "done"
      /\ source' = Shut(n) /\ streaming' = FALSE
      /\ record' = IF record = NoRecord THEN record
                   ELSE [record EXCEPT !.status = Head(source[n].wire).status]
      /\ UNCHANGED <<status, lines, shown, logs, opened, get, errors>>
  BY DEF JInv, OnDone, Receive, daemon
<1>2. source[n].at # "closed"
  BY <1>1, WireIsLive
<1>3. Head(source[n].wire).status = "over" /\ status[shown] = "over"
  BY <1>1, EndMeansOver
<1>4. errors \in 0..MaxError /\ record \in [job : Job \cup {NoJob}, status : Status]
  BY <1>1, TypesAre
<1>5. record' \in [job : Job \cup {NoJob}, status : Status]
  BY <1>1, <1>3, <1>4 DEF Status
<1>6. CompleteMeansOver'
  BY <1>1, <1>3 DEF CompleteMeansOver
<1>7. streaming' \in BOOLEAN /\ errors' \in 0..MaxError
  BY <1>1, <1>4
<1> QED
  BY <1>1, <1>2, <1>5, <1>6, <1>7, ShutKeeps

\* What is left of a stream when its first message has been taken.
LEMMA CutWire ==
  ASSUME NEW r \in Stream, NEW w
  PROVE  [r EXCEPT !.wire = w] = [job |-> r.job, at |-> r.at, after |-> r.after, wire |-> w]
BY DEF Stream

\* The next line is shown.
LEMMA OnLogKeeps ==
  ASSUME JInv, NEW n \in Opening, OnLog(n)
  PROVE  JInv'
<1> DEFINE s == source[n]
           t == [job |-> s.job, at |-> s.at, after |-> s.after, wire |-> Tail(s.wire)]
<1>1. /\ TypeOK /\ CompleteMeansOver
      /\ s.wire # <<>> /\ Head(s.wire).event = "log"
      /\ logs' = logs \cup {<<s.job, Head(s.wire).line>>}
      /\ source' = [source EXCEPT ![n].wire = Tail(s.wire)]
      /\ UNCHANGED <<status, lines, shown, record, streaming, opened, get, errors>>
  BY DEF JInv, OnLog, Receive, Received, daemon
<1>2. s.at # "closed"
  BY <1>1, WireIsLive
<1>3. /\ shown \in Job /\ s.job = shown /\ source \in [Opening -> Stream] /\ s \in Stream
      /\ lines \in [Job -> 0..MaxLine] /\ \E k \in 0..MaxLine : Following(n, k)
  BY <1>2, LiveStream
<1>4. /\ s.wire \in Seq(Event) /\ s.after \in 0..MaxLine /\ lines[shown] \in 0..MaxLine
      /\ s.at \in {"open", "sent", "closed"}
  BY <1>3 DEF Stream
<1>5. /\ Tail(s.wire) \in Seq(Event) /\ Len(Tail(s.wire)) = Len(s.wire) - 1
      /\ \A i \in 1..Len(Tail(s.wire)) : /\ Tail(s.wire)[i] = s.wire[i + 1]
                                         /\ i + 1 \in 1..Len(s.wire)
      /\ Head(s.wire) = s.wire[1] /\ 1 \in 1..Len(s.wire)
  BY <1>1, <1>4
<1>6. t \in Stream
  BY <1>3, <1>4, <1>5 DEF Stream
<1>7. source' = [source EXCEPT ![n] = t]
  <2>1. [s EXCEPT !.wire = Tail(s.wire)] = t
    BY <1>3, CutWire
  <2>2. source' = [source EXCEPT ![n] = [s EXCEPT !.wire = Tail(s.wire)]]
    BY <1>1
  <2> QED
    BY <2>1, <2>2
<1>8. PICK k \in 0..MaxLine : Following(n, k)
  BY <1>3
<1>9. /\ logs = {<<shown, i>> : i \in 1..k} /\ k <= s.after /\ s.after <= lines[shown]
      /\ s.at = "open" => Len(s.wire) = s.after - k
      /\ \A i \in 1..Len(s.wire) :
           IF i <= s.after - k THEN s.wire[i] = [event |-> "log", line |-> k + i]
           ELSE /\ s.wire[i].event \in {"status", "done"}
                /\ s.wire[i].status = "over"
                /\ status[shown] = "over"
  BY <1>8 DEF Following
<1>10. 1 <= s.after - k /\ Head(s.wire).line = k + 1
  <2>1. IF 1 <= s.after - k THEN s.wire[1] = [event |-> "log", line |-> k + 1]
        ELSE s.wire[1].event \in {"status", "done"}
    BY <1>5, <1>9
  <2> QED
    BY <1>1, <1>5, <2>1
<1>11. k + 1 \in 1..MaxLine /\ k + 1 \in 0..MaxLine
  BY <1>4, <1>10, BoundsAreNat
<1>12. logs' = {<<shown, i>> : i \in 1..k + 1}
  BY <1>1, <1>3, <1>9, <1>10
<1>13. Following(n, k + 1)'
  <2>1. ASSUME NEW i \in 1..Len(Tail(s.wire))
        PROVE  IF i <= s.after - (k + 1) THEN Tail(s.wire)[i] = [event |-> "log", line |-> (k + 1) + i]
               ELSE /\ Tail(s.wire)[i].event \in {"status", "done"}
                    /\ Tail(s.wire)[i].status = "over"
                    /\ status[shown] = "over"
    <3>1. Tail(s.wire)[i] = s.wire[i + 1] /\ i + 1 \in 1..Len(s.wire)
      BY <1>5
    <3>2. IF i + 1 <= s.after - k THEN s.wire[i + 1] = [event |-> "log", line |-> k + (i + 1)]
          ELSE /\ s.wire[i + 1].event \in {"status", "done"}
               /\ s.wire[i + 1].status = "over"
               /\ status[shown] = "over"
      BY <3>1, <1>9
    <3>3. (i + 1 <= s.after - k <=> i <= s.after - (k + 1)) /\ k + (i + 1) = (k + 1) + i
      BY <1>4
    <3> QED
      BY <3>1, <3>2, <3>3
  <2>2. k + 1 <= s.after /\ (s.at = "open" => Len(Tail(s.wire)) = s.after - (k + 1))
    <3>1. k + 1 <= s.after
      BY <1>4, <1>10
    <3>2. Len(Tail(s.wire)) = Len(s.wire) - 1 /\ (s.at = "open" => Len(s.wire) = s.after - k)
      BY <1>5, <1>9
    <3>3. (s.after - k) - 1 = s.after - (k + 1)
      BY <1>4
    <3> QED
      BY <3>1, <3>2, <3>3
  <2>3. /\ source'[n].at = s.at /\ source'[n].after = s.after /\ source'[n].wire = Tail(s.wire)
        /\ shown' = shown /\ lines' = lines /\ status' = status
    BY <1>1, <1>3, <1>7
  <2>4. \A i \in 1..Len(source'[n].wire) :
          IF i <= source'[n].after - (k + 1)
          THEN source'[n].wire[i] = [event |-> "log", line |-> (k + 1) + i]
          ELSE /\ source'[n].wire[i].event \in {"status", "done"}
               /\ source'[n].wire[i].status = "over"
               /\ status'[shown'] = "over"
    BY <2>1, <2>3
  <2>5. source'[n].at = "open" => Len(source'[n].wire) = source'[n].after - (k + 1)
    BY <2>2, <2>3
  <2>6. logs' = {<<shown', i>> : i \in 1..(k + 1)} /\ k + 1 <= source'[n].after /\ source'[n].after <= lines'[shown']
    BY <1>9, <1>12, <2>2, <2>3
  <2> QED
    BY <2>4, <2>5, <2>6 DEF Following
<1>14. logs' \subseteq Job \X (1..MaxLine)
  BY <1>3, <1>11, <1>12, BoundsAreNat
<1>15. TypeOK' /\ Streams' /\ Followed'
  <2>1. t.job = s.job /\ (t.at = "closed" => t.wire = <<>>)
    BY <1>2
  <2>2. record' \in [job : Job \cup {NoJob}, status : Status] /\ streaming' \in BOOLEAN
    BY <1>1, TypesAre
  <2>3. errors' \in 0..MaxError
    BY <1>1, TypesAre
  <2>4. \E i \in 0..MaxLine : Following(n, i)'
    BY <1>11, <1>13
  <2> HIDE DEF t
  <2> QED
    BY <1>1, <1>2, <1>6, <1>7, <1>14, <2>1, <2>2, <2>3, <2>4, StreamStep
<1>16. OwnLog'
  BY <1>1, <1>11, <1>12 DEF OwnLog
<1>17. CompleteMeansOver'
  BY <1>1 DEF CompleteMeansOver
<1> QED
  BY <1>15, <1>16, <1>17 DEF JInv

\* The status comes after the last line.
LEMMA OnStatusKeeps ==
  ASSUME JInv, NEW n \in Opening, OnStatus(n)
  PROVE  JInv'
<1> DEFINE s == source[n]
           t == [job |-> s.job, at |-> s.at, after |-> s.after, wire |-> Tail(s.wire)]
<1>1. /\ TypeOK /\ CompleteMeansOver /\ OwnLog
      /\ s.wire # <<>> /\ Head(s.wire).event = "status"
      /\ record' = [job |-> s.job, status |-> Head(s.wire).status]
      /\ source' = [source EXCEPT ![n].wire = Tail(s.wire)]
      /\ UNCHANGED <<status, lines, shown, logs, streaming, opened, get, errors>>
  BY DEF JInv, OnStatus, Receive, Received, daemon
<1>2. s.at # "closed"
  BY <1>1, WireIsLive
<1>3. /\ shown \in Job /\ s.job = shown /\ source \in [Opening -> Stream] /\ s \in Stream
      /\ \E k \in 0..MaxLine : Following(n, k)
  BY <1>2, LiveStream
<1>4. /\ s.wire \in Seq(Event) /\ s.after \in 0..MaxLine
      /\ s.at \in {"open", "sent", "closed"}
  BY <1>3 DEF Stream
<1>5. /\ Tail(s.wire) \in Seq(Event) /\ Len(Tail(s.wire)) = Len(s.wire) - 1
      /\ \A i \in 1..Len(Tail(s.wire)) : /\ Tail(s.wire)[i] = s.wire[i + 1]
                                         /\ i + 1 \in 1..Len(s.wire)
      /\ Head(s.wire) = s.wire[1] /\ 1 \in 1..Len(s.wire)
  BY <1>1, <1>4
<1>6. t \in Stream
  BY <1>3, <1>4, <1>5 DEF Stream
<1>7. source' = [source EXCEPT ![n] = t]
  <2>1. [s EXCEPT !.wire = Tail(s.wire)] = t
    BY <1>3, CutWire
  <2>2. source' = [source EXCEPT ![n] = [s EXCEPT !.wire = Tail(s.wire)]]
    BY <1>1
  <2> QED
    BY <2>1, <2>2
<1>8. PICK k \in 0..MaxLine : Following(n, k)
  BY <1>3
<1>9. /\ logs = {<<shown, i>> : i \in 1..k} /\ k <= s.after /\ s.after <= lines[shown]
      /\ s.at = "open" => Len(s.wire) = s.after - k
      /\ \A i \in 1..Len(s.wire) :
           IF i <= s.after - k THEN s.wire[i] = [event |-> "log", line |-> k + i]
           ELSE /\ s.wire[i].event \in {"status", "done"}
                /\ s.wire[i].status = "over"
                /\ status[shown] = "over"
  BY <1>8 DEF Following
<1>10. k = s.after /\ s.at # "open"
  <2>1. IF 1 <= s.after - k THEN s.wire[1] = [event |-> "log", line |-> k + 1]
        ELSE s.wire[1].event \in {"status", "done"}
    BY <1>5, <1>9
  <2>2. ~(1 <= s.after - k)
    BY <1>1, <1>5, <2>1
  <2>3. Len(s.wire) \in Nat /\ Len(s.wire) >= 1
    BY <1>4, <1>5
  <2> QED
    BY <1>4, <1>9, <2>2, <2>3
<1>11. Following(n, k)'
  <2>1. ASSUME NEW i \in 1..Len(Tail(s.wire))
        PROVE  /\ ~(i <= s.after - k)
               /\ Tail(s.wire)[i].event \in {"status", "done"}
               /\ Tail(s.wire)[i].status = "over"
               /\ status[shown] = "over"
    <3>1. Tail(s.wire)[i] = s.wire[i + 1] /\ i + 1 \in 1..Len(s.wire)
      BY <1>5
    <3>2. ~(i <= s.after - k) /\ ~(i + 1 <= s.after - k)
      BY <1>4, <1>10
    <3> QED
      BY <3>1, <3>2, <1>9
  <2>2. /\ source'[n].at = s.at /\ source'[n].after = s.after /\ source'[n].wire = Tail(s.wire)
        /\ shown' = shown /\ lines' = lines /\ status' = status /\ logs' = logs
    BY <1>1, <1>3, <1>7
  <2> HIDE DEF s
  <2> QED
    BY <1>9, <1>10, <2>1, <2>2 DEF Following
<1>12. TypeOK' /\ Streams' /\ Followed'
  <2>1. t.job = s.job /\ (t.at = "closed" => t.wire = <<>>)
    BY <1>2
  <2>2. record' \in [job : Job \cup {NoJob}, status : Status]
    BY <1>1, <1>3, EndMeansOver DEF Status
  <2>3. errors' \in 0..MaxError /\ streaming' \in BOOLEAN /\ logs' \subseteq Job \X (1..MaxLine)
    BY <1>1, TypesAre
  <2>4. \E i \in 0..MaxLine : Following(n, i)'
    BY <1>11
  <2> HIDE DEF t
  <2> QED
    BY <1>1, <1>2, <1>6, <1>7, <2>1, <2>2, <2>3, <2>4, StreamStep
<1>13. OwnLog' /\ CompleteMeansOver'
  BY <1>1 DEF OwnLog, CompleteMeansOver
<1> QED
  BY <1>12, <1>13 DEF JInv

\* What two pieces of a wire make together.
LEMMA WiresJoin ==
  ASSUME NEW v \in Seq(Event), NEW w \in Seq(Event)
  PROVE  /\ v \o w \in Seq(Event)
         /\ Len(v \o w) = Len(v) + Len(w)
         /\ \A i \in 1..Len(v \o w) : (v \o w)[i] = IF i <= Len(v) THEN v[i] ELSE w[i - Len(v)]
OBVIOUS

\* A round of the stream sends the lines that are new, and the end after them.
LEMMA SendKeeps ==
  ASSUME JInv, NEW n \in Opening, Send(n)
  PROVE  JInv'
<1> DEFINE s == source[n]
           new == [i \in 1..lines[s.job] - s.after |-> [event |-> "log", line |-> s.after + i]]
           final == <<[event |-> "status", status |-> "over"], [event |-> "done", status |-> "over"]>>
           end == IF status[s.job] = "over" THEN final ELSE <<>>
           t == [job |-> s.job, at |-> IF status[s.job] = "over" THEN "sent" ELSE "open",
                 after |-> lines[s.job], wire |-> s.wire \o new \o end]
<1>1. /\ TypeOK /\ CompleteMeansOver /\ OwnLog
      /\ s.at = "open" /\ source' = [source EXCEPT ![n] = t]
      /\ UNCHANGED <<status, lines, shown, logs, record, streaming, opened, get, errors>>
  BY DEF JInv, Send, daemon, dialog
<1>2. /\ shown \in Job /\ s.job = shown /\ source \in [Opening -> Stream] /\ s \in Stream
      /\ lines \in [Job -> 0..MaxLine] /\ \E k \in 0..MaxLine : Following(n, k)
  BY <1>1, LiveStream
<1>3. s.wire \in Seq(Event) /\ s.after \in 0..MaxLine /\ lines[shown] \in 0..MaxLine
  BY <1>2 DEF Stream
<1>4. PICK k \in 0..MaxLine : Following(n, k)
  BY <1>2
<1>5. /\ logs = {<<shown, i>> : i \in 1..k} /\ k <= s.after /\ s.after <= lines[shown]
      /\ Len(s.wire) = s.after - k
      /\ \A i \in 1..Len(s.wire) :
           i <= s.after - k => s.wire[i] = [event |-> "log", line |-> k + i]
  BY <1>1, <1>4 DEF Following
<1>6. /\ new \in Seq(Event) /\ Len(new) = lines[shown] - s.after
      /\ \A i \in 1..Len(new) : new[i] = [event |-> "log", line |-> s.after + i]
  <2>1. lines[shown] - s.after \in Nat
    BY <1>3, <1>5, BoundsAreNat
  <2>2. ASSUME NEW i \in 1..lines[shown] - s.after
        PROVE  [event |-> "log", line |-> s.after + i] \in Event
    <3>1. s.after + i \in 1..MaxLine
      BY <1>3, BoundsAreNat
    <3> QED
      BY <3>1 DEF Event
  <2>3. new = [i \in 1..lines[shown] - s.after |-> [event |-> "log", line |-> s.after + i]]
    BY <1>2
  <2> HIDE DEF new
  <2>4. new \in [1..lines[shown] - s.after -> Event]
    BY <2>2, <2>3
  <2>5. new \in Seq(Event) /\ Len(new) = lines[shown] - s.after
    BY <2>1, <2>4
  <2> QED
    BY <2>3, <2>5
<1>7. /\ end \in Seq(Event)
      /\ status[shown] # "over" => end = <<>>
      /\ \A i \in 1..Len(end) : /\ end[i].event \in {"status", "done"}
                                /\ end[i].status = "over"
                                /\ status[shown] = "over"
  <2>1. [event |-> "status", status |-> "over"] \in Event /\ [event |-> "done", status |-> "over"] \in Event
    BY DEF Event
  <2>2. CASE status[shown] = "over"
    <3>1. end = final
      BY <2>2, <1>2
    <3>2. final \in Seq(Event) /\ Len(final) = 2
      BY <2>1
    <3>3. \A i \in 1..2 : final[i].event \in {"status", "done"} /\ final[i].status = "over"
      OBVIOUS
    <3> HIDE DEF final, end
    <3> QED
      BY <2>2, <3>1, <3>2, <3>3
  <2>3. CASE status[shown] # "over"
    <3>1. end = <<>>
      BY <2>3, <1>2
    <3>2. <<>> \in Seq(Event) /\ Len(<<>>) = 0
      OBVIOUS
    <3> HIDE DEF end
    <3> QED
      BY <2>3, <3>1, <3>2
  <2> QED
    BY <2>2, <2>3
<1> HIDE DEF new, final, end
<1> DEFINE sent == s.wire \o new
<1>8. /\ sent \in Seq(Event) /\ Len(sent) = lines[shown] - k
      /\ \A i \in 1..Len(sent) : sent[i] = [event |-> "log", line |-> k + i]
  <2>1. /\ sent \in Seq(Event) /\ Len(sent) = Len(s.wire) + Len(new)
        /\ \A i \in 1..Len(sent) : sent[i] = IF i <= Len(s.wire) THEN s.wire[i] ELSE new[i - Len(s.wire)]
    BY <1>3, <1>6, WiresJoin
  <2>2. Len(sent) = lines[shown] - k
    BY <2>1, <1>3, <1>5, <1>6
  <2>3. ASSUME NEW i \in 1..Len(sent) PROVE sent[i] = [event |-> "log", line |-> k + i]
    <3>1. CASE i <= Len(s.wire)
      <4>1. i \in 1..Len(s.wire) /\ i <= s.after - k
        BY <3>1, <1>5
      <4>2. sent[i] = s.wire[i]
        BY <2>1, <3>1
      <4> HIDE DEF sent
      <4> QED
        BY <4>1, <4>2, <1>5
    <3>2. CASE ~(i <= Len(s.wire))
      <4>1. i - Len(s.wire) \in 1..Len(new) /\ s.after + (i - Len(s.wire)) = k + i
        <5>1. PICK w, a, l \in Nat : w = Len(s.wire) /\ a = s.after /\ l = lines[shown]
          BY <1>3, BoundsAreNat
        <5>2. k \in Nat /\ w = a - k /\ Len(new) = l - a
          BY <5>1, <1>5, <1>6, BoundsAreNat
        <5>3. i \in 1..l - k /\ ~(i <= w)
          BY <5>1, <2>2, <3>2
        <5> HIDE DEF new, sent
        <5>4. i - w \in 1..l - a /\ a + (i - w) = k + i
          BY <5>2, <5>3
        <5> QED
          BY <5>1, <5>2, <5>4
      <4>2. sent[i] = new[i - Len(s.wire)]
        BY <2>1, <3>2
      <4>3. new[i - Len(s.wire)] = [event |-> "log", line |-> s.after + (i - Len(s.wire))]
        BY <4>1, <1>6
      <4> HIDE DEF sent
      <4> QED
        BY <4>1, <4>2, <4>3
    <3> QED
      BY <3>1, <3>2
  <2> QED
    BY <2>1, <2>2, <2>3
<1> HIDE DEF sent
<1>9. t = [job |-> shown, at |-> IF status[shown] = "over" THEN "sent" ELSE "open",
           after |-> lines[shown], wire |-> sent \o end]
  BY <1>2 DEF sent
<1> HIDE DEF t
<1>10. /\ sent \o end \in Seq(Event) /\ Len(sent \o end) = Len(sent) + Len(end)
       /\ \A i \in 1..Len(sent \o end) :
            (sent \o end)[i] = IF i <= Len(sent) THEN sent[i] ELSE end[i - Len(sent)]
  BY <1>7, <1>8, WiresJoin
<1>11. t \in Stream
  BY <1>2, <1>3, <1>9, <1>10 DEF Stream
<1>12. Following(n, k)'
  <2>1. /\ source'[n] = t /\ shown' = shown /\ lines' = lines /\ status' = status /\ logs' = logs
    BY <1>1, <1>2
  <2>2. /\ source'[n].after = lines[shown] /\ source'[n].wire = sent \o end
        /\ source'[n].at = IF status[shown] = "over" THEN "sent" ELSE "open"
    BY <1>9, <2>1
  <2>3. source'[n].at = "open" => Len(source'[n].wire) = source'[n].after - k
    <3>1. source'[n].at = "open" => status[shown] # "over"
      BY <2>2
    <3>2. Len(<<>>) = 0 /\ (status[shown] # "over" => Len(end) = 0)
      BY <1>7
    <3>3. Len(sent \o end) = (lines[shown] - k) + Len(end)
      BY <1>8, <1>10
    <3>4. lines[shown] - k \in Nat
      BY <1>3, <1>5
    <3> QED
      BY <2>2, <3>1, <3>2, <3>3, <3>4
  <2>4. ASSUME NEW i \in 1..Len(sent \o end)
        PROVE  IF i <= lines[shown] - k
               THEN (sent \o end)[i] = [event |-> "log", line |-> k + i]
               ELSE /\ (sent \o end)[i].event \in {"status", "done"}
                    /\ (sent \o end)[i].status = "over"
                    /\ status[shown] = "over"
    <3>1. CASE i <= Len(sent)
      <4>1. i \in 1..Len(sent) /\ i <= lines[shown] - k
        BY <3>1, <1>8
      <4> QED
        BY <3>1, <4>1, <1>8, <1>10
    <3>2. CASE ~(i <= Len(sent))
      <4>1. i - Len(sent) \in 1..Len(end) /\ ~(i <= lines[shown] - k)
        BY <3>2, <1>7, <1>8, <1>10
      <4>2. (sent \o end)[i] = end[i - Len(sent)]
        BY <3>2, <1>10
      <4> QED
        BY <4>1, <4>2, <1>7
    <3> QED
      BY <3>1, <3>2
  <2>5. \A i \in 1..Len(source'[n].wire) :
          IF i <= source'[n].after - k
          THEN source'[n].wire[i] = [event |-> "log", line |-> k + i]
          ELSE /\ source'[n].wire[i].event \in {"status", "done"}
               /\ source'[n].wire[i].status = "over"
               /\ status'[shown'] = "over"
    BY <2>1, <2>2, <2>4
  <2>6. logs' = {<<shown', i>> : i \in 1..k} /\ k <= source'[n].after /\ source'[n].after <= lines'[shown']
    BY <1>3, <1>5, <2>1, <2>2
  <2> QED
    BY <2>3, <2>5, <2>6 DEF Following
<1>13. TypeOK' /\ Streams' /\ Followed'
  <2>1. t.job = s.job /\ t.at # "closed"
    BY <1>2, <1>9
  <2>2. record' \in [job : Job \cup {NoJob}, status : Status]
    BY <1>1, TypesAre
  <2>3. errors' \in 0..MaxError /\ streaming' \in BOOLEAN /\ logs' \subseteq Job \X (1..MaxLine)
    BY <1>1, TypesAre
  <2>4. \E i \in 0..MaxLine : Following(n, i)'
    BY <1>12
  <2>5. s.at # "closed"
    BY <1>1
  <2> QED
    BY <1>1, <1>11, <2>1, <2>2, <2>3, <2>4, <2>5, StreamStep
<1>14. OwnLog' /\ CompleteMeansOver'
  BY <1>1 DEF OwnLog, CompleteMeansOver
<1> QED
  BY <1>13, <1>14 DEF JInv

-----------------------------------------------------------------------------
(* The dialog of a job, step by step. *)

LEMMA JInit == Init => JInv
<1> SUFFICES ASSUME Init PROVE JInv
  OBVIOUS
<1>1. /\ status = [j \in Job |-> "none"] /\ lines = [j \in Job |-> 0] /\ shown = NoJob /\ logs = {}
      /\ record = NoRecord /\ streaming = FALSE /\ opened = 0 /\ errors = 0
      /\ source = [n \in Opening |-> NoSource] /\ get = [n \in Opening |-> Idle]
  BY DEF Init
<1>2. NoSource \in Stream /\ Idle \in Request /\ NoRecord \in [job : Job \cup {NoJob}, status : Status]
  <2>1. <<>> \in Seq(Event)
    OBVIOUS
  <2> QED
    BY <2>1, BoundsAreNat DEF NoSource, Stream, Idle, Request, NoRecord, Status
<1>3. TypeOK
  <2>1. status \in [Job -> Status] /\ lines \in [Job -> 0..MaxLine]
    BY <1>1, BoundsAreNat DEF Status
  <2>2. source \in [Opening -> Stream] /\ get \in [Opening -> Request]
    BY <1>1, <1>2
  <2>3. \A n \in Opening : source[n] = NoSource /\ get[n] = Idle
    BY <1>1
  <2>4. opened \in 0..MaxOpen /\ errors \in 0..MaxError
    BY <1>1, BoundsAreNat
  <2>5. record \in [job : Job \cup {NoJob}, status : Status]
    BY <1>1, <1>2
  <2> QED
    BY <1>1, <2>1, <2>2, <2>3, <2>4, <2>5, TypesAre
<1>4. \A n \in Opening : source[n].at = "closed" /\ source[n].wire = <<>> /\ ~(n <= opened)
  BY <1>1 DEF NoSource, Opening
<1>5. Streams /\ Followed
  BY <1>4 DEF Streams, Followed
<1>6. logs = {<<shown, i>> : i \in 1..0}
  BY <1>1
<1>7. OwnLog /\ CompleteMeansOver
  BY <1>1, <1>6, BoundsAreNat DEF OwnLog, CompleteMeansOver
<1> QED
  BY <1>3, <1>5, <1>7 DEF JInv

LEMMA JNext == JInv /\ [Next]_vars => JInv'
<1> SUFFICES ASSUME JInv, [Next]_vars PROVE JInv'
  OBVIOUS
<1>1. CASE UNCHANGED vars
  <2>1. UNCHANGED <<status, lines, shown, logs, record, streaming, opened, source, get, errors>>
    BY <1>1 DEF vars, daemon, dialog
  <2>2. TypeOK' /\ CompleteMeansOver'
    BY <2>1 DEF JInv, TypeOK, CompleteMeansOver
  <2> QED
    BY <2>1, <2>2, GetsKeep
<1>2. ASSUME NEW j \in Job, Show(j) PROVE JInv'
  BY <1>2, ShowKeeps
<1>3. ASSUME NEW j \in Job, Work(j) PROVE JInv'
  BY <1>3, MoveKeeps, WriteKeeps DEF Work
<1>4. CASE Close
  BY <1>4, CloseKeeps
<1>5. ASSUME NEW n \in Opening, Follow(n) PROVE JInv'
  BY <1>5, GetAnswerKeeps, GetArrivesKeeps, GetFailsKeeps, SendKeeps, OnLogKeeps, OnStatusKeeps,
     OnDoneKeeps, OnErrorKeeps DEF Follow
<1> QED
  BY <1>1, <1>2, <1>3, <1>4, <1>5 DEF Next

\* Whatever the dialog is opened for and however the answers arrive, it keeps
\* the invariant.
THEOREM DialogInvariance == Spec => []JInv
BY JInit, JNext, PTL DEF Spec

-----------------------------------------------------------------------------
(* Both dialogs together: JobLogModal behaves in App as it does alone. *)

\* what the form hands on to the dialog of a job is a job
AcceptedIsJob == \A n \in Call : create[n].at = "accepted" => create[n].job \in Job

\* A request is made, accepted and over; only the acceptance names a job.
LEMMA AcceptedNext ==
  CreateTyped /\ AcceptedIsJob /\ [DialogsNext]_dialogsVars => AcceptedIsJob'
<1> SUFFICES ASSUME CreateTyped, AcceptedIsJob, [DialogsNext]_dialogsVars PROVE AcceptedIsJob'
  OBVIOUS
<1>1. ASSUME create' = create PROVE AcceptedIsJob'
  BY <1>1 DEF AcceptedIsJob
<1>2. ASSUME NEW n \in Call, create' = [create EXCEPT ![n].at = "asked"] PROVE AcceptedIsJob'
  BY <1>2 DEF AcceptedIsJob, CreateTyped
<1>3. ASSUME NEW n \in Call, create' = [create EXCEPT ![n] = NoCall] PROVE AcceptedIsJob'
  BY <1>3 DEF AcceptedIsJob, CreateTyped, NoCall
<1>4. ASSUME NEW n \in Call, NEW j \in Job,
             create' = [create EXCEPT ![n] = [at |-> "accepted", job |-> j]]
      PROVE  AcceptedIsJob'
  BY <1>4 DEF AcceptedIsJob, CreateTyped
<1>5. CASE UNCHANGED dialogsVars
  BY <1>1, <1>5 DEF dialogsVars, createForm
<1>6. CASE JobDialogStep \/ DeleteStep \/ Render \/ Escape
  BY <1>1, <1>6 DEF JobDialogStep, DeleteStep, OpenDelete, CloseDelete, RenderDetail, Leave,
                    Render, Escape, createForm
<1>7. CASE OpenCreate \/ CloseCreate
  BY <1>1, <1>7 DEF OpenCreate, CloseCreate
<1>8. CASE Submit
  BY <1>1, <1>2, <1>8 DEF Submit
<1>9. ASSUME NEW n \in Call, Created(n) \/ NotCreated(n) PROVE AcceptedIsJob'
  BY <1>3, <1>9 DEF Created, NotCreated
<1>10. ASSUME NEW n \in Call, NEW j \in Job, Accept(n, j) PROVE AcceptedIsJob'
  BY <1>4, <1>10 DEF Accept
<1> QED
  BY <1>5, <1>6, <1>7, <1>8, <1>9, <1>10 DEF DialogsNext, CreateStep

\* Every step of App is a step of JobLogModal or leaves it alone; a request
\* that is accepted is a job that moves.
LEMMA StepOfDialog == AcceptedIsJob /\ [DialogsNext]_dialogsVars => [Next]_vars
<1> SUFFICES ASSUME AcceptedIsJob, [DialogsNext]_dialogsVars PROVE [Next]_vars
  OBVIOUS
<1>1. CASE UNCHANGED dialogsVars
  BY <1>1 DEF dialogsVars
<1>2. CASE JobDialogStep
  BY <1>2 DEF JobDialogStep, Next
<1>3. CASE Render \/ OpenCreate \/ CloseCreate \/ Submit \/ DeleteStep
  BY <1>3 DEF Render, OpenCreate, CloseCreate, Submit, DeleteStep, OpenDelete, CloseDelete,
              RenderDetail, Leave
<1>4. CASE Escape
  BY <1>4 DEF Escape, Next
<1>5. ASSUME NEW n \in Call, Created(n) PROVE [Next]_vars
  <2>1. create[n].job \in Job
    BY <1>5 DEF Created, AcceptedIsJob
  <2>2. UNCHANGED vars \/ Show(create[n].job)
    BY <1>5 DEF Created
  <2> QED
    BY <2>1, <2>2 DEF Next
<1>6. ASSUME NEW n \in Call, NotCreated(n) PROVE [Next]_vars
  BY <1>6 DEF NotCreated
<1>7. ASSUME NEW n \in Call, NEW j \in Job, Accept(n, j) PROVE [Next]_vars
  <2>1. Move(j)
    BY <1>7 DEF Accept, Move, dialog
  <2> QED
    BY <2>1 DEF Next, Work
<1> QED
  BY <1>1, <1>2, <1>3, <1>4, <1>5, <1>6, <1>7 DEF DialogsNext, CreateStep

\* App with all its dialogs implements JobLogModal alone: whatever holds of the
\* dialog of a job holds of it beside the form and the question before a delete.
THEOREM DialogInApp == DialogsSpec => Spec
<1>1. DialogsInit => Init
  BY DEF DialogsInit
<1>2. DialogsInit => AcceptedIsJob
  <2>1. DialogsInit => create = [n \in Call |-> NoCall]
    BY DEF DialogsInit
  <2>2. NoCall.at # "accepted"
    BY DEF NoCall
  <2> QED
    BY <2>1, <2>2 DEF AcceptedIsJob
<1>3. IInv => CreateTyped
  BY DEF IInv
<1> QED
  BY <1>1, <1>2, <1>3, Invariance, AcceptedNext, StepOfDialog, PTL DEF DialogsSpec, Spec

\* The dialog shows the lines of its own job, from the first one on and without
\* a gap, for any number of openings, lines and failures.
THEOREM LogIsOwn == DialogsSpec => []OwnLog
<1>1. JInv => OwnLog
  BY DEF JInv
<1> QED
  BY <1>1, DialogInApp, DialogInvariance, PTL

\* Unless a request or a stream broke, the footer says "complete" of jobs that
\* are over.
THEOREM CompleteTruthful == DialogsSpec => []CompleteMeansOver
<1>1. JInv => CompleteMeansOver
  BY DEF JInv
<1> QED
  BY <1>1, DialogInApp, DialogInvariance, PTL

-----------------------------------------------------------------------------
(* Types. *)

FormTyped == createOpen \in BOOLEAN /\ createLoading \in BOOLEAN /\ deleteOpen \in BOOLEAN

PageTyped ==
  /\ overflow \in {"", "hidden"}
  /\ previous \in [Dialog -> {"", "hidden"}]
  /\ beside \in {"nothing", "create", "delete"}

LEMMA RendersTyped ==
  ASSUME PageTyped, NEW ran, Renders(ran)
  PROVE  PageTyped'
<1> DEFINE found == OverflowRestored(ran)
           was == [d \in Dialog |->
                    IF d \notin Open' THEN ""
                    ELSE IF d \notin ran THEN previous[d]
                    ELSE IF Before(d) \cap Open' \cap ran # {} THEN "hidden"
                    ELSE found]
<1>1. found \in {"", "hidden"}
  BY OpenAre DEF PageTyped, OverflowRestored, Dialog
<1>2. /\ previous' = was
      /\ overflow' = IF Open' \cap ran # {} THEN "hidden" ELSE found
      /\ beside' \in {beside, "create", "delete"}
  BY DEF Renders
<1>3. was \in [Dialog -> {"", "hidden"}]
  <2>1. \A d \in Dialog : previous[d] \in {"", "hidden"}
    BY DEF PageTyped
  <2> HIDE DEF found
  <2> QED
    BY <2>1, <1>1
<1> HIDE DEF found, was
<1> QED
  BY <1>1, <1>2, <1>3 DEF PageTyped

LEMMA TypedNext ==
  FormTyped /\ PageTyped /\ [DialogsNext]_dialogsVars => FormTyped' /\ PageTyped'
<1> SUFFICES ASSUME FormTyped, PageTyped, [DialogsNext]_dialogsVars
             PROVE  FormTyped' /\ PageTyped'
  OBVIOUS
<1>1. FormTyped'
  BY DEF FormTyped, DialogsNext, JobDialogStep, CreateStep, DeleteStep, Render, Escape, OpenCreate,
         CloseCreate, Submit, Created, NotCreated, Accept, OpenDelete, CloseDelete, RenderDetail,
         Leave, dialogsVars, createForm
<1>2. Renders(Dialog) \/ Renders({"delete"}) \/ UNCHANGED page
  BY DEF DialogsNext, JobDialogStep, CreateStep, DeleteStep, Render, Escape, OpenCreate, CloseCreate,
         Submit, Created, NotCreated, Accept, OpenDelete, CloseDelete, RenderDetail, Leave,
         dialogsVars, Effects
<1>3. UNCHANGED page => PageTyped'
  BY DEF page, PageTyped
<1> QED
  BY <1>1, <1>2, <1>3, RendersTyped

\* Every variable of the dialogs keeps its type.
THEOREM TypeCorrect == DialogsSpec => []DialogsTypeOK
<1>1. DialogsInit => FormTyped /\ PageTyped
  <2>1. DialogsInit => FormTyped
    BY DEF DialogsInit, FormTyped
  <2>2. DialogsInit => overflow = "" /\ beside = "nothing" /\ previous = [d \in Dialog |-> ""]
    BY DEF DialogsInit
  <2>3. [d \in Dialog |-> ""] \in [Dialog -> {"", "hidden"}]
    OBVIOUS
  <2>4. DialogsInit => PageTyped
    BY <2>2, <2>3 DEF PageTyped
  <2> QED
    BY <2>1, <2>4
<1>2. IInv /\ JInv /\ FormTyped /\ PageTyped => DialogsTypeOK
  BY DEF IInv, CreateTyped, JInv, FormTyped, PageTyped, DialogsTypeOK
<1>3. DialogsSpec => []JInv
  BY DialogInApp, DialogInvariance, PTL
<1> QED
  BY <1>1, <1>2, <1>3, TypedNext, Invariance, PTL DEF DialogsSpec
=============================================================================
