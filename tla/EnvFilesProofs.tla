---------------------------- MODULE EnvFilesProofs ----------------------------
(***************************************************************************)
(* Machine-checked proofs about EnvFiles, for every set of jobs, names,    *)
(* variables and values and every number of crashes.                       *)
(***************************************************************************)
EXTENDS EnvFiles, TLAPS

-----------------------------------------------------------------------------
(* The inductive invariant. *)

\* how the row, the lock name and the request of a job go with its phase
JobsFollow ==
  \A j \in Job :
    /\ status[j] = "none" => phase[j] = "waiting"
    /\ phase[j] = "active" => status[j] \in Jobs!Open
    /\ phase[j] = "waiting" => result[j] = "none"
    /\ status[j] # "none" => deployment[j] \in Name /\ request[j].kind \in AllKinds

Held == {"active", "settling"}

\* what the mutex of a name gives: one job at a time per deployment
Exclusive ==
  \A j, k \in Job :
    j # k /\ phase[j] \in Held /\ phase[k] \in Held => deployment[j] # deployment[k]

\* a body follows its program, and knows its result when it returns
BodyFollows ==
  \A j \in Job :
    /\ phase[j] = "active" => step[j] # "none"
    /\ phase[j] = "active" /\ step[j] # "return" => result[j] = "none"
    /\ phase[j] = "active" /\ step[j] = "return" => result[j] \in {"ok", "error"}
    /\ phase[j] = "settling" => result[j] \in {"ok", "error"}
    /\ phase[j] = "active" /\ step[j] = "record" => request[j].target = "default"

\* a map after it is written and read again
Reread(c) == [x \in DOMAIN c |-> Parsed(c[x])]
Wanted(j) == Changed(request[j], Reread(old[j]))

\* a job that is done, as far as its body tells
Well(j) == /\ result[j] = "ok"
           /\ phase[j] = "settling" \/ (phase[j] = "active" /\ step[j] = "return")

\* what a body has in hand, and what it has written
DraftedBy(j) ==
  /\ At(j, "read") \/ At(j, "truncate") => files[Path(j)] = old[j]
  /\ At(j, "truncate") \/ At(j, "fill") => draft[j] = Wanted(j)
  /\ At(j, "record") \/ Well(j) => files[Path(j)] = Wanted(j)
Drafted == \A j \in Job : DraftedBy(j)

\* the file is there before the row names it
Noted ==
  /\ \A n \in envPath : <<n, "default">> \in present
  /\ \A j \in Job : At(j, "fill") \/ At(j, "record") => Path(j) \in present
  /\ \A j \in Job : Well(j) /\ request[j].target = "default" => deployment[j] \in envPath

Covered(f, x) == Removed(f, x) \/ f \in torn

\* a body that has read its file has every variable in hand
InHand ==
  \A j \in Job, x \in Var :
    (At(j, "truncate") \/ At(j, "fill")) /\ Stored(Path(j), x)
      => x \in DOMAIN draft[j] \/ Covered(Path(j), x)

IInv ==
  /\ TypeOK /\ JobsFollow /\ Exclusive /\ BodyFollows
  /\ Drafted /\ Noted /\ InHand /\ NothingIsForgotten

\* A job that says it is done has done to its file what was asked, to what a
\* parser makes of the values that the file had.
ChangeOfWhatIsRead ==
  \A j \in Job : phase[j] = "settling" /\ result[j] = "ok" => files[Path(j)] = Wanted(j)

-----------------------------------------------------------------------------
(* Maps of variables. *)

\* What a request makes of a map is a map, and a parser makes a map of a map.
LEMMA MapsStayMaps ==
  /\ \A c \in Contents : Reread(c) \in Contents /\ DOMAIN Reread(c) = DOMAIN c
  /\ \A r, c : r.kind \in AllKinds /\ r.vars \in Contents /\ c \in Contents => Changed(r, c) \in Contents
  /\ Empty \in Contents
<1>0. Blank \in Value /\ \A v \in Value : Parsed(v) \in Value
  BY BlankIsLiteral DEF Parsed
<1>1. ASSUME NEW c \in Contents PROVE Reread(c) \in Contents /\ DOMAIN Reread(c) = DOMAIN c
  <2>1. PICK S \in SUBSET Var : c \in [S -> Value]
    BY DEF Contents
  <2>2. Reread(c) \in [S -> Value]
    BY <1>0, <2>1 DEF Reread
  <2> QED
    BY <2>1, <2>2 DEF Contents, Reread
<1>2. ASSUME NEW r, NEW c \in Contents, r.kind \in AllKinds, r.vars \in Contents
      PROVE  Changed(r, c) \in Contents
  <2>1. PICK S \in SUBSET Var : c \in [S -> Value]
    BY DEF Contents
  <2>2. PICK T \in SUBSET Var : r.vars \in [T -> Value]
    BY <1>2 DEF Contents
  <2>3. CASE r.kind = "set"
    <3>1. Changed(r, c) \in [S \cup T -> Value]
      BY <2>1, <2>2, <2>3 DEF Changed
    <3> QED
      BY <3>1 DEF Contents
  <2>4. CASE r.kind = "unset"
    <3>1. Changed(r, c) \in [S \ T -> Value]
      BY <2>1, <2>2, <2>4 DEF Changed
    <3> QED
      BY <3>1 DEF Contents
  <2>5. CASE r.kind = "import"
    BY <1>2, <2>5 DEF Changed
  <2> QED
    BY <1>2, <2>3, <2>4, <2>5 DEF AllKinds
<1>3. Empty \in [{} -> Value]
  BY DEF Empty
<1> QED
  BY <1>1, <1>2, <1>3 DEF Contents

\* A change drops a variable only when the request names it or imports a file,
\* and a set stores what it names.
LEMMA ChangeDrops ==
  ASSUME NEW r, NEW c, r.kind \in AllKinds, NEW x
  PROVE  /\ x \in DOMAIN c /\ x \notin DOMAIN Changed(r, c)
              => r.kind = "import" \/ (r.kind = "unset" /\ x \in DOMAIN r.vars)
         /\ r.kind = "set" /\ x \in DOMAIN r.vars => x \in DOMAIN Changed(r, c)
<1>1. CASE r.kind = "set"
  BY <1>1 DEF Changed
<1>2. CASE r.kind = "unset"
  BY <1>2 DEF Changed
<1> QED
  BY <1>1, <1>2 DEF AllKinds

\* What clients send are maps.
LEMMA RequestsAreMaps ==
  ASSUME NEW kind \in Kind
  PROVE  kind \in AllKinds /\ Variables(kind) \subseteq Contents
<1>1. kind \in AllKinds /\ Blank \in Value
  BY RequestsAreKnown, BlankIsLiteral
<1>2. \A x \in Var : [{x} -> Value] \subseteq Contents
  BY DEF Contents
<1>3. \A x \in Var : [y \in {x} |-> Blank] \in Contents
  <2> TAKE x \in Var
  <2>1. [y \in {x} |-> Blank] \in [{x} -> Value]
    BY <1>1
  <2> QED
    BY <1>2, <2>1
<1>4. Empty \in Contents
  BY MapsStayMaps
<1>5. \A v \in UNION {[{x} -> Value] : x \in Var} : v \in Contents
  BY <1>2
<1>6. kind = "set" => Variables(kind) = UNION {[{x} -> Value] : x \in Var}
  BY DEF Variables
<1>7. kind = "unset" => Variables(kind) = {[y \in {x} |-> Blank] : x \in Var}
  BY DEF Variables
<1>8. kind = "import" => Variables(kind) = {Empty} \cup UNION {[{x} -> Value] : x \in Var}
  BY DEF Variables
<1> QED
  BY <1>1, <1>3, <1>4, <1>5, <1>6, <1>7, <1>8 DEF AllKinds

-----------------------------------------------------------------------------
(* The frame of the steps. *)

GoesOn(j, s, r) ==
  /\ step' = [step EXCEPT ![j] = s]
  /\ result' = [result EXCEPT ![j] = r]
  /\ \/ s \in {"truncate", "fill", "record"} /\ r = "none"
     \/ s = "return" /\ r \in {"ok", "error"}
  /\ s = "record" => request[j].target = "default"

\* A step of a body touches no row of a job, the counter, result and draft of
\* its own only, and its own file.
LEMMA BodyMoves ==
  ASSUME NEW j \in Job, BodyStep(j)
  PROVE  /\ phase[j] = "active" /\ step[j] \notin {"none", "return"}
         /\ UNCHANGED <<jobVars, request, old, ctxDone, crashes>>
         /\ \E s, r : GoesOn(j, s, r)
         /\ draft' = draft \/ (At(j, "read") /\ draft' = [draft EXCEPT ![j] = Changed(request[j], Read(Path(j)))])
<1> DEFINE Moves == UNCHANGED <<jobVars, request, old, ctxDone, crashes>> /\ \E s, r : GoesOn(j, s, r)
<1>m. ASSUME NEW s, NEW r, Goto(j, s, r), s = "record" => request[j].target = "default",
             \/ s \in {"truncate", "fill", "record"} /\ r = "none"
             \/ s = "return" /\ r \in {"ok", "error"}
      PROVE  Moves
  <2>1. GoesOn(j, s, r)
    BY <1>m DEF Goto, GoesOn
  <2> QED
    BY <1>m, <2>1 DEF Goto
<1> HIDE DEF Moves
<1>1. CASE StepFails(j)
  BY <1>1, <1>m DEF StepFails, At, Moves
<1>2. CASE ReadFile(j)
  BY <1>2, <1>m DEF ReadFile, At, Moves
<1>3. CASE Truncate(j)
  BY <1>3, <1>m DEF Truncate, At, Moves
<1>4. CASE Fill(j)
  BY <1>4, <1>m DEF Fill, At, Moves
<1>5. CASE FillFails(j)
  BY <1>5, <1>m DEF FillFails, At, Moves
<1>6. CASE Record(j)
  BY <1>6, <1>m DEF Record, At, Moves
<1> QED
  BY <1>1, <1>2, <1>3, <1>4, <1>5, <1>6 DEF BodyStep

\* A step of a body touches no other file.
LEMMA BodyStays ==
  ASSUME TypeOK, NEW j \in Job, BodyStep(j)
  PROVE  /\ \A f \in File : f # Path(j) => files'[f] = files[f]
         /\ present \subseteq present' /\ present' \subseteq present \cup {Path(j)}
         /\ envPath \subseteq envPath' /\ envPath' \subseteq envPath \cup {deployment[j]}
         /\ torn \subseteq torn' /\ torn' \subseteq torn \cup {Path(j)}
         /\ ~At(j, "record") => envPath' = envPath
         /\ ~At(j, "truncate") /\ ~At(j, "fill") => files' = files
BY DEF TypeOK, BodyStep, StepFails, ReadFile, Truncate, Fill, FillFails, Record, At, world

\* Only bodies touch files; a crash can tear one.
LEMMA OthersAreQuiet ==
  ASSUME [Next]_vars, ~\E j \in Job : BodyStep(j)
  PROVE  UNCHANGED <<files, present, envPath, draft>> /\ torn \subseteq torn'
BY DEF Next, vars, bodyVars, world, Submit, Cancel, Begin, Skip, Return, Settle, Release, Crash

\* A job that was submitted keeps its request and its deployment.
LEMMA RequestStays ==
  ASSUME TypeOK, [Next]_vars, NEW j \in Job, status[j] # "none"
  PROVE  /\ request'[j] = request[j] /\ deployment'[j] = deployment[j] /\ status'[j] # "none"
         /\ phase[j] # "waiting" => phase'[j] # "waiting"
<1> USE DEF TypeOK, jobVars, bodyVars
<1>1. ASSUME NEW k \in Job, NEW n \in Name, NEW kind \in Kind, NEW target \in Target,
             NEW variables \in Variables(kind), Submit(k, n, kind, target, variables)
      PROVE  /\ request'[j] = request[j] /\ deployment'[j] = deployment[j] /\ status'[j] # "none"
             /\ UNCHANGED phase
  BY <1>1 DEF Submit, Jobs!Submit
<1>2. ASSUME NEW k \in Job, Begin(k) \/ Skip(k) \/ Return(k) \/ Release(k)
      PROVE  UNCHANGED <<request, deployment, status>> /\ (phase[j] # "waiting" => phase'[j] # "waiting")
  BY <1>2 DEF Begin, Skip, Return, Release, Jobs!BeginBody, Jobs!SkipBody, Jobs!EndBody,
              Jobs!Release, Jobs!Move
<1>3. ASSUME NEW k \in Job, Cancel(k) \/ BodyStep(k)
      PROVE  UNCHANGED <<request, deployment, status, phase>>
  BY <1>3, BodyMoves DEF Cancel
<1>4. ASSUME NEW k \in Job, Settle(k)
      PROVE  UNCHANGED <<request, deployment, phase>> /\ status'[j] # "none"
  BY <1>4 DEF Settle, Jobs!Settle, Outcome
<1>5. CASE Crash
  BY <1>5 DEF Crash, Jobs!Die
<1>6. CASE UNCHANGED vars
  BY <1>6 DEF vars
<1> QED
  BY <1>1, <1>2, <1>3, <1>4, <1>5, <1>6 DEF Next

\* what a body has to itself
SameBody(j) == step'[j] = step[j] /\ result'[j] = result[j] /\ draft'[j] = draft[j] /\ old'[j] = old[j]

\* A step of a body leaves the other bodies.
LEMMA OthersStand ==
  ASSUME TypeOK, NEW j \in Job, BodyStep(j), NEW k \in Job, k # j
  PROVE  SameBody(k)
BY BodyMoves DEF SameBody, GoesOn, TypeOK

\* A job that is in its body was there before, or begins.
LEMMA ActiveBefore ==
  ASSUME TypeOK, JobsFollow, [Next]_vars, NEW j \in Job, phase'[j] = "active"
  PROVE  /\ request'[j] = request[j] /\ deployment'[j] = deployment[j] /\ status[j] # "none"
         /\ \/ phase[j] = "active" /\ BodyStep(j)
            \/ phase[j] = "active" /\ ~BodyStep(j) /\ SameBody(j)
            \/ Begin(j) /\ step'[j] = "read" /\ old'[j] = files[Path(j)] /\ result'[j] = "none"
<1> USE DEF TypeOK, jobVars, bodyVars, SameBody
<1>1. ASSUME NEW k \in Job, NEW n \in Name, NEW kind \in Kind, NEW target \in Target,
             NEW variables \in Variables(kind), Submit(k, n, kind, target, variables)
      PROVE  phase[j] = "active" /\ SameBody(j)
  BY <1>1 DEF Submit, Jobs!Submit
<1>2. ASSUME NEW k \in Job, Begin(k)
      PROVE  /\ status[j] # "none"
             /\ \/ phase[j] = "active" /\ SameBody(j)
                \/ k = j /\ step'[j] = "read" /\ old'[j] = files[Path(j)] /\ result'[j] = "none"
  BY <1>2 DEF Begin, Jobs!BeginBody, Jobs!Move, Jobs!Open, JobsFollow
<1>3. ASSUME NEW k \in Job, Skip(k) \/ Return(k) \/ Release(k)
      PROVE  phase[j] = "active" /\ SameBody(j)
  BY <1>3 DEF Skip, Return, Release, Jobs!SkipBody, Jobs!EndBody, Jobs!Release, Jobs!Move
<1>4. ASSUME NEW k \in Job, Cancel(k) \/ Settle(k)
      PROVE  phase[j] = "active" /\ SameBody(j)
  BY <1>4 DEF Cancel, Settle, Jobs!Settle
<1>5. ASSUME NEW k \in Job, BodyStep(k)
      PROVE  phase[j] = "active" /\ (k = j \/ SameBody(j))
  BY <1>5, BodyMoves, OthersStand
<1>6. ASSUME UNCHANGED vars PROVE phase[j] = "active" /\ SameBody(j)
  BY <1>6 DEF vars
<1>7. ASSUME Crash PROVE FALSE
  BY <1>7 DEF Crash, Jobs!Die, JobsFollow
<1>8. \A k \in Job : BodyStep(k) => phase[k] = "active"
  BY BodyMoves
<1>9. \/ phase[j] = "active" /\ BodyStep(j)
      \/ phase[j] = "active" /\ ~BodyStep(j) /\ SameBody(j)
      \/ Begin(j) /\ step'[j] = "read" /\ old'[j] = files[Path(j)] /\ result'[j] = "none"
  BY <1>1, <1>2, <1>3, <1>4, <1>5, <1>6, <1>7, <1>8 DEF Next
<1>10. status[j] # "none"
  BY <1>2, <1>9 DEF JobsFollow
<1> QED
  BY <1>9, <1>10, RequestStays

\* A job whose outcome is about to be written was so before, or has returned,
\* or has no body.
LEMMA SettlingBefore ==
  ASSUME TypeOK, [Next]_vars, NEW j \in Job, phase'[j] = "settling"
  PROVE  /\ ~BodyStep(j)
         /\ \/ phase[j] = "settling" /\ SameBody(j)
            \/ phase[j] = "active" /\ step[j] = "return" /\ SameBody(j)
            \/ result'[j] = "error"
<1> USE DEF TypeOK, jobVars, bodyVars, SameBody
<1>1. ASSUME NEW k \in Job, BodyStep(k) PROVE phase[j] = "settling"
  BY <1>1, BodyMoves
<1>2. ~BodyStep(j)
  BY <1>1, BodyMoves
<1>3. ASSUME NEW k \in Job, BodyStep(k) PROVE phase[j] = "settling" /\ SameBody(j)
  BY <1>1, <1>2, <1>3, OthersStand
<1>4. ASSUME NEW k \in Job, Skip(k) PROVE (phase[j] = "settling" /\ SameBody(j)) \/ result'[j] = "error"
  BY <1>4 DEF Skip, Jobs!SkipBody, Jobs!Move
<1>5. ASSUME NEW k \in Job, Return(k)
      PROVE  SameBody(j) /\ (phase[j] = "settling" \/ (phase[j] = "active" /\ step[j] = "return"))
  BY <1>5 DEF Return, Jobs!EndBody, Jobs!Move
<1>6. ASSUME NEW k \in Job, Begin(k) PROVE phase[j] = "settling" /\ SameBody(j)
  BY <1>6 DEF Begin, Jobs!BeginBody, Jobs!Move
<1>7. ASSUME NEW k \in Job, Cancel(k) \/ Settle(k) \/ Release(k)
      PROVE  phase[j] = "settling" /\ SameBody(j)
  BY <1>7 DEF Cancel, Settle, Release, Jobs!Settle, Jobs!Release, Jobs!Move
<1>8. ASSUME NEW k \in Job, NEW n \in Name, NEW kind \in Kind, NEW target \in Target,
             NEW variables \in Variables(kind), Submit(k, n, kind, target, variables)
      PROVE  phase[j] = "settling" /\ SameBody(j)
  BY <1>8 DEF Submit, Jobs!Submit
<1>9. ASSUME UNCHANGED vars PROVE phase[j] = "settling" /\ SameBody(j)
  BY <1>9 DEF vars
<1>10. ASSUME Crash PROVE phase[j] = "settling" /\ SameBody(j)
  BY <1>10 DEF Crash, Jobs!Die
<1>11. \/ phase[j] = "settling" /\ SameBody(j)
       \/ phase[j] = "active" /\ step[j] = "return" /\ SameBody(j)
       \/ result'[j] = "error"
  <2> HIDE DEF SameBody
  <2> QED
    BY <1>3, <1>4, <1>5, <1>6, <1>7, <1>8, <1>9, <1>10 DEF Next
<1> QED
  BY <1>2, <1>11

-----------------------------------------------------------------------------
(* Types and jobs. *)

\* A body works on a file of its deployment, for a request.
LEMMA HeldIsSubmitted ==
  ASSUME TypeOK, JobsFollow, NEW j \in Job, phase[j] \in Held
  PROVE  /\ status[j] # "none" /\ deployment[j] \in Name /\ request[j].kind \in AllKinds
         /\ Path(j) \in File
BY DEF TypeOK, JobsFollow, Held, Path, File

\* Every step keeps every variable in its type.
LEMMA TypeStep ==
  ASSUME TypeOK, JobsFollow, [Next]_vars
  PROVE  TypeOK'
<1> USE DEF TypeOK, jobVars, bodyVars, world
<1>1. ASSUME NEW j \in Job, NEW n \in Name, NEW kind \in Kind, NEW target \in Target,
             NEW variables \in Variables(kind), Submit(j, n, kind, target, variables)
      PROVE  TypeOK'
  <2>1. kind \in AllKinds /\ target \in AllTargets /\ variables \in Contents
    BY RequestsAreKnown, RequestsAreMaps
  <2>2. request' \in [Job -> [kind : AllKinds \cup {"none"}, target : AllTargets, vars : Contents]]
    BY <1>1, <2>1 DEF Submit
  <2> QED
    BY <1>1, <2>2 DEF Submit, Jobs!Submit
<1>2. ASSUME NEW j \in Job, Cancel(j) \/ Return(j) \/ Release(j) PROVE TypeOK'
  BY <1>2 DEF Cancel, Return, Release, Jobs!EndBody, Jobs!Release, Jobs!Move
<1>3. ASSUME NEW j \in Job, Begin(j) PROVE TypeOK'
  <2>1. status[j] # "none" /\ phase'[j] = "active"
    BY <1>3 DEF Begin, Jobs!BeginBody, Jobs!Move, Jobs!Open
  <2>2. Path(j) \in File
    BY <2>1 DEF JobsFollow, Path, File
  <2>3. files[Path(j)] \in Contents
    BY <2>2
  <2>4. old' \in [Job -> Contents]
    BY <1>3, <2>3 DEF Begin
  <2> QED
    BY <1>3, <2>4 DEF Begin, Jobs!BeginBody, Jobs!Move
<1>4. ASSUME NEW j \in Job, Skip(j) PROVE TypeOK'
  BY <1>4 DEF Skip, Jobs!SkipBody, Jobs!Move
<1>5. ASSUME NEW j \in Job, BodyStep(j) PROVE TypeOK'
  <2>1. Path(j) \in File /\ deployment[j] \in Name /\ request[j].kind \in AllKinds
    BY <1>5, BodyMoves, HeldIsSubmitted DEF Held
  <2>2. step' \in [Job -> {"none", "read", "truncate", "fill", "record", "return"}]
        /\ result' \in [Job -> {"none", "ok", "error"}]
    <3>1. PICK s, r : GoesOn(j, s, r)
      BY <1>5, BodyMoves
    <3> QED
      BY <3>1 DEF GoesOn
  <2>3. UNCHANGED <<status, deployment, phase, request, old, ctxDone, crashes>>
    BY <1>5, BodyMoves
  <2>4. present' \subseteq File /\ envPath' \subseteq Name /\ torn' \subseteq File
    <3>1. present' \subseteq present \cup {Path(j)} /\ envPath' \subseteq envPath \cup {deployment[j]}
          /\ torn' \subseteq torn \cup {Path(j)}
      BY <1>5, BodyStays
    <3> QED
      BY <2>1, <3>1
  <2>5. draft' \in [Job -> Contents]
    <3>1. Read(Path(j)) = Reread(files[Path(j)])
      BY DEF Read, Reread
    <3>2. files[Path(j)] \in Contents
      BY <2>1
    <3>3. Read(Path(j)) \in Contents
      BY <3>1, <3>2, MapsStayMaps
    <3>4. Changed(request[j], Read(Path(j))) \in Contents
      BY <2>1, <3>3, MapsStayMaps
    <3> QED
      BY <1>5, <3>4, BodyMoves
  <2>6. files' \in [File -> Contents]
    <3>1. files' \in {files, [files EXCEPT ![Path(j)] = Empty], [files EXCEPT ![Path(j)] = draft[j]]}
      BY <1>5 DEF BodyStep, StepFails, ReadFile, Truncate, Fill, FillFails, Record
    <3>2. Empty \in Contents /\ draft[j] \in Contents
      BY MapsStayMaps
    <3> QED
      BY <3>1, <3>2
  <2> QED
    BY <2>2, <2>3, <2>4, <2>5, <2>6
<1>6. ASSUME NEW j \in Job, Settle(j) PROVE TypeOK'
  <2>1. Outcome(j) \in Jobs!Terminal
    BY DEF Outcome, Jobs!Terminal
  <2> QED
    BY <1>6, <2>1 DEF Settle, Jobs!Settle
<1>7. CASE Crash
  <2>1. {Path(j) : j \in {k \in Job : Filling(k)}} \subseteq File
    BY HeldIsSubmitted DEF Filling, Held
  <2>2. crashes' \in 0..MaxCrash
    BY <1>7, EnvBounds DEF Crash
  <2> QED
    BY <1>7, <2>1, <2>2 DEF Crash, Jobs!Die
<1>8. CASE UNCHANGED vars
  BY <1>8 DEF vars
<1> QED
  BY <1>1, <1>2, <1>3, <1>4, <1>5, <1>6, <1>7, <1>8 DEF Next

\* Every step keeps JobsFollow: phases and rows go forward together.
LEMMA FollowStep ==
  ASSUME TypeOK, JobsFollow, [Next]_vars
  PROVE  JobsFollow'
<1> USE DEF TypeOK, JobsFollow, jobVars, bodyVars
<1>1. ASSUME NEW j \in Job, NEW n \in Name, NEW kind \in Kind, NEW target \in Target,
             NEW variables \in Variables(kind), Submit(j, n, kind, target, variables)
      PROVE  JobsFollow'
  <2> DEFINE r == [kind |-> kind, target |-> target, vars |-> variables]
  <2>1. kind \in AllKinds
    BY RequestsAreMaps
  <2>2. /\ request' = [request EXCEPT ![j] = r]
        /\ status[j] = "none" /\ status' = [status EXCEPT ![j] = "queued"]
        /\ deployment' = [deployment EXCEPT ![j] = n]
        /\ UNCHANGED <<phase, result>>
    BY <1>1 DEF Submit, Jobs!Submit
  <2>3. r.kind = kind
    OBVIOUS
  <2> HIDE DEF r
  <2> QED
    BY <2>1, <2>2, <2>3
<1>2. ASSUME NEW j \in Job, Cancel(j) PROVE JobsFollow'
  BY <1>2 DEF Cancel
<1>3. ASSUME NEW j \in Job, Begin(j) PROVE JobsFollow'
  BY <1>3 DEF Begin, Jobs!BeginBody, Jobs!Move, Jobs!Open
<1>4. ASSUME NEW j \in Job, Skip(j) PROVE JobsFollow'
  BY <1>4 DEF Skip, Jobs!SkipBody, Jobs!Move, Jobs!Open
<1>5. ASSUME NEW j \in Job, Return(j) \/ Release(j) PROVE JobsFollow'
  BY <1>5 DEF Return, Release, Jobs!EndBody, Jobs!Release, Jobs!Move
<1>6. ASSUME NEW j \in Job, BodyStep(j) PROVE JobsFollow'
  <2>1. /\ UNCHANGED <<status, deployment, phase, request>>
        /\ \A k \in Job \ {j} : result'[k] = result[k]
        /\ phase[j] = "active"
    BY <1>6, BodyMoves DEF GoesOn
  <2> QED
    BY <2>1
<1>7. ASSUME NEW j \in Job, Settle(j) PROVE JobsFollow'
  <2>1. Outcome(j) # "none"
    BY DEF Outcome
  <2> QED
    BY <1>7, <2>1 DEF Settle, Jobs!Settle, Jobs!Open
<1>8. CASE Crash
  BY <1>8 DEF Crash, Jobs!Die
<1>9. CASE UNCHANGED vars
  BY <1>9 DEF vars
<1> QED
  BY <1>1, <1>2, <1>3, <1>4, <1>5, <1>6, <1>7, <1>8, <1>9 DEF Next

\* Every step keeps Exclusive: a job waits until the others of its name are over.
LEMMA ExclusiveStep ==
  ASSUME TypeOK, JobsFollow, Exclusive, [Next]_vars
  PROVE  Exclusive'
<1> USE DEF TypeOK, Exclusive, Held, jobVars, bodyVars
<1>1. ASSUME NEW j \in Job, NEW n \in Name, NEW kind \in Kind, NEW target \in Target,
             NEW variables \in Variables(kind), Submit(j, n, kind, target, variables)
      PROVE  Exclusive'
  BY <1>1 DEF Submit, Jobs!Submit, JobsFollow
<1>2. ASSUME NEW j \in Job, Begin(j) \/ Skip(j) PROVE Exclusive'
  <2>1. deployment[j] \in Name
    BY <1>2 DEF Begin, Skip, Jobs!BeginBody, Jobs!SkipBody, Jobs!Open, JobsFollow
  <2> QED
    BY <1>2, <2>1 DEF Begin, Skip, Jobs!BeginBody, Jobs!SkipBody, Jobs!Move, Jobs!Free
<1>3. ASSUME NEW j \in Job, Return(j) \/ Release(j) PROVE Exclusive'
  BY <1>3 DEF Return, Release, Jobs!EndBody, Jobs!Release, Jobs!Move
<1>4. ASSUME NEW j \in Job, Cancel(j) \/ BodyStep(j) \/ Settle(j) PROVE Exclusive'
  BY <1>4, BodyMoves DEF Cancel, Settle, Jobs!Settle
<1>5. CASE UNCHANGED vars
  BY <1>5 DEF vars
<1>6. CASE Crash
  BY <1>6 DEF Crash, Jobs!Die
<1> QED
  BY <1>1, <1>2, <1>3, <1>4, <1>5, <1>6 DEF Next

\* Every step keeps BodyFollows: a body goes through the steps of its program.
LEMMA BodyFollowsStep ==
  ASSUME TypeOK, JobsFollow, BodyFollows, [Next]_vars
  PROVE  BodyFollows'
<1>1. ASSUME NEW j \in Job, phase'[j] = "active"
      PROVE  /\ step'[j] # "none"
             /\ step'[j] # "return" => result'[j] = "none"
             /\ step'[j] = "return" => result'[j] \in {"ok", "error"}
             /\ step'[j] = "record" => request'[j].target = "default"
  <2>1. CASE BodyStep(j)
    BY <1>1, <2>1, BodyMoves DEF GoesOn, TypeOK
  <2>2. CASE phase[j] = "active" /\ SameBody(j) /\ request'[j] = request[j]
    BY <2>2 DEF SameBody, BodyFollows
  <2> QED
    BY <1>1, <2>1, <2>2, ActiveBefore
<1>2. ASSUME NEW j \in Job, phase'[j] = "settling" PROVE result'[j] \in {"ok", "error"}
  BY <1>2, SettlingBefore DEF SameBody, BodyFollows
<1> QED
  BY <1>1, <1>2 DEF BodyFollows

-----------------------------------------------------------------------------
(* What a change does. *)

\* The file of a job that has the mutex stays, unless the job itself works.
LEMMA HeldFileStays ==
  ASSUME TypeOK, JobsFollow, Exclusive, [Next]_vars, NEW k \in Job, phase[k] \in Held, ~BodyStep(k)
  PROVE  files'[Path(k)] = files[Path(k)]
<1>1. ASSUME NEW j \in Job, BodyStep(j) PROVE files'[Path(k)] = files[Path(k)]
  <2>1. j # k /\ phase[j] \in Held
    BY <1>1, BodyMoves DEF Held
  <2>2. deployment[j] # deployment[k]
    BY <2>1 DEF Exclusive
  <2>3. Path(k) # Path(j) /\ Path(k) \in File
    BY <2>2, HeldIsSubmitted DEF Path
  <2> QED
    BY <1>1, <2>3, BodyStays
<1>2. CASE ~\E j \in Job : BodyStep(j)
  BY <1>2, OthersAreQuiet
<1> QED
  BY <1>1, <1>2

\* A body that does its own next step has what that step needs.
LEMMA OwnDrafted ==
  ASSUME TypeOK, JobsFollow, NEW j \in Job, BodyStep(j), DraftedBy(j)
  PROVE  DraftedBy(j)'
<1> USE DEF TypeOK
<1>0. /\ Path(j) \in File /\ Path(j)' = Path(j) /\ Wanted(j)' = Wanted(j)
      /\ UNCHANGED <<phase, request, old>> /\ phase[j] = "active"
  BY BodyMoves, HeldIsSubmitted DEF jobVars, Held, Path, Wanted
<1>1. CASE StepFails(j) \/ FillFails(j)
  <2>1. step'[j] = "return" /\ result'[j] = "error"
    BY <1>1 DEF StepFails, FillFails, Goto
  <2> QED
    BY <2>1 DEF DraftedBy, At, Well
<1>2. CASE ReadFile(j)
  <2>1. step'[j] = "truncate" /\ UNCHANGED files
    BY <1>2 DEF ReadFile, Goto, world
  <2>2. files[Path(j)] = old[j]
    BY <1>2 DEF ReadFile, DraftedBy
  <2>3. draft'[j] = Changed(request[j], Read(Path(j)))
    BY <1>2 DEF ReadFile
  <2>4. Read(Path(j)) = Reread(old[j])
    BY <2>2 DEF Read, Reread
  <2>5. draft'[j] = Wanted(j)
    BY <2>3, <2>4 DEF Wanted
  <2> QED
    BY <1>0, <2>1, <2>2, <2>5 DEF DraftedBy, At, Well
<1>3. CASE Truncate(j)
  <2>1. step'[j] = "fill" /\ UNCHANGED draft /\ At(j, "truncate")
    BY <1>3 DEF Truncate, Goto
  <2> QED
    BY <1>0, <2>1 DEF DraftedBy, At, Well
<1>4. CASE Fill(j)
  <2>1. step'[j] \in {"record", "return"} /\ files'[Path(j)] = draft[j] /\ At(j, "fill")
    BY <1>0, <1>4 DEF Fill, Goto
  <2> QED
    BY <1>0, <2>1 DEF DraftedBy, At, Well
<1>5. CASE Record(j)
  <2>1. step'[j] = "return" /\ UNCHANGED files /\ At(j, "record")
    BY <1>5 DEF Record, Goto
  <2> QED
    BY <1>0, <2>1 DEF DraftedBy, At, Well
<1> QED
  BY <1>1, <1>2, <1>3, <1>4, <1>5 DEF BodyStep

\* Every step keeps Drafted.
LEMMA DraftedStep ==
  ASSUME TypeOK, JobsFollow, Exclusive, Drafted, [Next]_vars
  PROVE  Drafted'
<1> SUFFICES ASSUME NEW j \in Job PROVE DraftedBy(j)'
  BY DEF Drafted
<1>0. DraftedBy(j)
  BY DEF Drafted
<1>1. ASSUME request'[j] = request[j], deployment'[j] = deployment[j]
      PROVE  Path(j)' = Path(j) /\ (old'[j] = old[j] => Wanted(j)' = Wanted(j))
  BY <1>1 DEF Path, Wanted
<1>2. CASE phase'[j] = "active"
  <2>0. Path(j)' = Path(j)
    BY <1>1, <1>2, ActiveBefore
  <2>1. CASE BodyStep(j)
    BY <1>0, <2>1, OwnDrafted
  <2>2. CASE phase[j] = "active" /\ ~BodyStep(j) /\ SameBody(j)
    <3>1. files'[Path(j)] = files[Path(j)]
      BY <2>2, HeldFileStays DEF Held
    <3>2. Wanted(j)' = Wanted(j)
      BY <1>1, <1>2, <2>2, ActiveBefore DEF SameBody
    <3> QED
      BY <1>0, <1>2, <2>0, <2>2, <3>1, <3>2 DEF DraftedBy, SameBody, At, Well
  <2>3. CASE Begin(j) /\ step'[j] = "read" /\ old'[j] = files[Path(j)] /\ result'[j] = "none"
    <3>1. UNCHANGED files
      BY <2>3 DEF Begin, world
    <3> QED
      BY <2>0, <2>3, <3>1 DEF DraftedBy, At, Well
  <2> QED
    BY <1>2, <2>1, <2>2, <2>3, ActiveBefore
<1>3. CASE phase'[j] = "settling" /\ result'[j] = "ok"
  <2>1. Well(j) /\ SameBody(j) /\ ~BodyStep(j) /\ phase[j] \in Held
    BY <1>3, SettlingBefore DEF Well, SameBody, Held
  <2>2. files'[Path(j)] = files[Path(j)]
    BY <2>1, HeldFileStays
  <2>3. Path(j)' = Path(j) /\ Wanted(j)' = Wanted(j)
    BY <1>1, <2>1, RequestStays, HeldIsSubmitted DEF SameBody
  <2> QED
    BY <1>0, <1>3, <2>1, <2>2, <2>3 DEF DraftedBy, At
<1>4. CASE ~(phase'[j] = "active") /\ ~(phase'[j] = "settling" /\ result'[j] = "ok")
  BY <1>4 DEF DraftedBy, At, Well
<1> QED
  BY <1>2, <1>3, <1>4

-----------------------------------------------------------------------------
(* The row and its file. *)

\* Every step keeps Noted: a file that is there stays, and is written first.
LEMMA NotedStep ==
  ASSUME TypeOK, JobsFollow, BodyFollows, Noted, [Next]_vars
  PROVE  Noted'
<1>0. present \subseteq present' /\ envPath \subseteq envPath'
  BY BodyStays, OthersAreQuiet
<1>1. ASSUME NEW n \in envPath' PROVE <<n, "default">> \in present'
  <2>1. CASE n \in envPath
    BY <1>0, <2>1 DEF Noted
  <2>2. CASE n \notin envPath
    <3>1. PICK j \in Job : BodyStep(j)
      BY <1>1, <2>2, OthersAreQuiet
    <3>2. At(j, "record") /\ n = deployment[j]
      BY <1>1, <2>2, <3>1, BodyStays
    <3>3. Path(j) \in present /\ request[j].target = "default"
      BY <3>2 DEF Noted, BodyFollows, At
    <3> QED
      BY <1>0, <3>2, <3>3 DEF Path
  <2> QED
    BY <2>1, <2>2
<1>2. ASSUME NEW j \in Job, BodyStep(j)
      PROVE  /\ (At(j, "fill") \/ At(j, "record"))' => Path(j) \in present'
             /\ Well(j)' /\ request[j].target = "default" => deployment[j] \in envPath'
  <2>1. CASE StepFails(j) \/ FillFails(j)
    <3>1. step'[j] = "return" /\ result'[j] = "error"
      BY <2>1 DEF StepFails, FillFails, Goto, TypeOK
    <3> QED
      BY <3>1 DEF At, Well
  <2>2. CASE ReadFile(j)
    <3>1. step'[j] = "truncate" /\ result'[j] = "none"
      BY <2>2 DEF ReadFile, Goto, TypeOK
    <3> QED
      BY <3>1 DEF At, Well
  <2>3. CASE Truncate(j)
    <3>1. result'[j] = "none" /\ Path(j) \in present'
      BY <2>3 DEF Truncate, Goto, TypeOK
    <3> QED
      BY <3>1 DEF Well
  <2>4. CASE Fill(j)
    <3>1. Path(j) \in present /\ (request[j].target = "default" => result'[j] = "none")
      BY <2>4 DEF Fill, Goto, TypeOK, Noted
    <3> QED
      BY <1>0, <3>1 DEF Well
  <2>5. CASE Record(j)
    <3>1. step'[j] = "return" /\ deployment[j] \in envPath'
      BY <2>5 DEF Record, Goto, TypeOK
    <3> QED
      BY <3>1 DEF At
  <2> QED
    BY <1>2, <2>1, <2>2, <2>3, <2>4, <2>5 DEF BodyStep
<1>3. ASSUME NEW j \in Job, (At(j, "fill") \/ At(j, "record"))' PROVE (Path(j) \in present)'
  <2>1. Path(j)' = Path(j) /\ phase'[j] = "active"
    BY <1>3, ActiveBefore DEF Path, At
  <2>2. CASE BodyStep(j)
    BY <1>2, <1>3, <2>1, <2>2
  <2>3. CASE phase[j] = "active" /\ SameBody(j)
    <3>1. At(j, "fill") \/ At(j, "record")
      BY <1>3, <2>3 DEF At, SameBody
    <3> QED
      BY <1>0, <2>1, <3>1 DEF Noted
  <2>4. step'[j] # "read"
    BY <1>3 DEF At
  <2> QED
    BY <2>1, <2>2, <2>3, <2>4, ActiveBefore
<1>4. ASSUME NEW j \in Job, Well(j)', request'[j].target = "default" PROVE deployment'[j] \in envPath'
  <2>1. CASE phase'[j] = "active"
    <3>1. request'[j] = request[j] /\ deployment'[j] = deployment[j]
      BY <2>1, ActiveBefore
    <3>2. CASE BodyStep(j)
      BY <1>2, <1>4, <3>1, <3>2
    <3>3. CASE phase[j] = "active" /\ SameBody(j)
      <4>1. Well(j)
        BY <1>4, <2>1, <3>3 DEF Well, SameBody
      <4> QED
        BY <1>0, <1>4, <3>1, <4>1 DEF Noted
    <3>4. result'[j] # "none"
      BY <1>4 DEF Well
    <3> QED
      BY <2>1, <3>2, <3>3, <3>4, ActiveBefore
  <2>2. CASE phase'[j] = "settling"
    <3>1. Well(j) /\ phase[j] \in Held
      BY <1>4, <2>2, SettlingBefore DEF Well, SameBody, Held
    <3>2. request'[j] = request[j] /\ deployment'[j] = deployment[j]
      BY <3>1, RequestStays, HeldIsSubmitted
    <3> QED
      BY <1>0, <1>4, <3>1, <3>2 DEF Noted
  <2> QED
    BY <1>4, <2>1, <2>2 DEF Well
<1> QED
  BY <1>1, <1>3, <1>4 DEF Noted

-----------------------------------------------------------------------------
(* What a file remembers. *)

\* A variable is stored by the outcome of a job that has written it.
LEMMA StoredBefore ==
  ASSUME TypeOK, JobsFollow, BodyFollows, [Next]_vars, NEW f, NEW x, Stored(f, x)'
  PROVE  \/ Stored(f, x)
         \/ /\ UNCHANGED <<files, phase, request, deployment, step>>
            /\ \E k \in Job : /\ request[k].kind = "set" /\ Path(k) = f /\ x \in DOMAIN request[k].vars
                              /\ phase[k] = "settling" /\ Well(k)
<1> USE DEF TypeOK, jobVars, bodyVars
<1>1. PICK k \in Job : /\ request'[k].kind = "set" /\ Path(k)' = f /\ x \in DOMAIN request'[k].vars
                       /\ status'[k] = "succeeded"
  BY DEF Stored
<1>2. CASE status[k] = "succeeded"
  <2>1. request'[k] = request[k] /\ Path(k)' = Path(k)
    BY <1>2, RequestStays DEF Path
  <2> QED
    BY <1>1, <1>2, <2>1 DEF Stored
<1>3. CASE status[k] # "succeeded"
  <2>1. ASSUME NEW j \in Job, Settle(j)
        PROVE  /\ UNCHANGED <<files, phase, request, deployment, step>>
               /\ j = k /\ phase[k] = "settling" /\ Outcome(k) = "succeeded"
    BY <1>1, <1>3, <2>1 DEF Settle, Jobs!Settle, world
  <2>2. Outcome(k) = "succeeded" /\ phase[k] = "settling" => Well(k)
    BY DEF Outcome, BodyFollows, Well
  <2>3. ASSUME NEW j \in Job, NEW n \in Name, NEW kind \in Kind, NEW target \in Target,
               NEW variables \in Variables(kind), Submit(j, n, kind, target, variables)
        PROVE  FALSE
    BY <1>1, <1>3, <2>3 DEF Submit, Jobs!Submit
  <2>4. \A j \in Job : ~(Begin(j) \/ Skip(j) \/ Return(j) \/ Release(j) \/ Cancel(j))
    BY <1>1, <1>3 DEF Begin, Skip, Return, Release, Cancel, Jobs!BeginBody, Jobs!SkipBody,
                      Jobs!EndBody, Jobs!Release, Jobs!Move
  <2>5. \A j \in Job : ~BodyStep(j)
    BY <1>1, <1>3, BodyMoves
  <2>6. ~Crash /\ vars' # vars
    BY <1>1, <1>3 DEF Crash, Jobs!Die, vars
  <2>7. PICK j \in Job : Settle(j)
    BY <2>3, <2>4, <2>5, <2>6 DEF Next
  <2>8. UNCHANGED <<files, phase, request, deployment, step>> /\ phase[k] = "settling" /\ Well(k)
    BY <2>1, <2>2, <2>7
  <2>9. request[k].kind = "set" /\ Path(k) = f /\ x \in DOMAIN request[k].vars
    BY <1>1, <2>8 DEF Path
  <2> QED
    BY <2>8, <2>9
<1> QED
  BY <1>2, <1>3

\* What was removed or torn stays so.
LEMMA CoveredStays ==
  ASSUME TypeOK, JobsFollow, [Next]_vars, NEW f, NEW x, Covered(f, x)
  PROVE  Covered(f, x)'
<1>1. torn \subseteq torn'
  BY BodyStays, OthersAreQuiet
<1>2. ASSUME Removed(f, x) PROVE Removed(f, x)'
  <2>1. PICK k \in Job : /\ phase[k] # "waiting" /\ Path(k) = f
                         /\ \/ request[k].kind = "import"
                            \/ request[k].kind = "unset" /\ x \in DOMAIN request[k].vars
    BY <1>2 DEF Removed
  <2>2. status[k] # "none"
    BY <2>1 DEF JobsFollow
  <2>3. request'[k] = request[k] /\ Path(k)' = Path(k) /\ phase'[k] # "waiting"
    BY <2>1, <2>2, RequestStays DEF Path
  <2> QED
    BY <2>1, <2>3 DEF Removed
<1> QED
  BY <1>1, <1>2 DEF Covered

\* A write is over by the step of its body, or stops with the daemon.
LEMMA FillingStays ==
  ASSUME TypeOK, [Next]_vars, NEW k \in Job, Filling(k), ~BodyStep(k)
  PROVE  Filling(k)' \/ Path(k) \in torn'
<1> USE DEF TypeOK, Filling, jobVars, bodyVars
<1>1. ASSUME NEW j \in Job, NEW n \in Name, NEW kind \in Kind, NEW target \in Target,
             NEW variables \in Variables(kind), Submit(j, n, kind, target, variables)
      PROVE  Filling(k)'
  BY <1>1 DEF Submit, Jobs!Submit
<1>2. ASSUME NEW j \in Job, Begin(j) \/ Skip(j) \/ Return(j) \/ Release(j) PROVE Filling(k)'
  BY <1>2 DEF Begin, Skip, Return, Release, Jobs!BeginBody, Jobs!SkipBody, Jobs!EndBody,
              Jobs!Release, Jobs!Move
<1>3. ASSUME NEW j \in Job, Cancel(j) \/ Settle(j) PROVE Filling(k)'
  BY <1>3 DEF Cancel, Settle, Jobs!Settle
<1>4. ASSUME NEW j \in Job, BodyStep(j) PROVE Filling(k)'
  <2>1. j # k
    BY <1>4
  <2> QED
    BY <1>4, <2>1, BodyMoves, OthersStand DEF SameBody
<1>5. ASSUME Crash PROVE Path(k) \in torn'
  BY <1>5 DEF Crash
<1>6. ASSUME UNCHANGED vars PROVE Filling(k)'
  BY <1>6 DEF vars
<1> QED
  BY <1>1, <1>2, <1>3, <1>4, <1>5, <1>6 DEF Next

\* A body that has the mutex is the only one that has its file.
LEMMA OneHolder ==
  ASSUME Exclusive, NEW j \in Job, NEW k \in Job, phase[j] \in Held, phase[k] \in Held, Path(j) = Path(k)
  PROVE  j = k
BY DEF Exclusive, Path

\* Every step keeps InHand: a body reads what its file remembers.
LEMMA InHandStep ==
  ASSUME TypeOK, JobsFollow, Exclusive, BodyFollows, InHand, NothingIsForgotten, [Next]_vars
  PROVE  InHand'
<1> SUFFICES ASSUME NEW j \in Job, NEW x \in Var, (At(j, "truncate") \/ At(j, "fill"))',
                    Stored(Path(j), x)'
             PROVE  (x \in DOMAIN draft[j] \/ Covered(Path(j), x))'
  BY DEF InHand
<1>0. phase'[j] = "active" /\ step'[j] \in {"truncate", "fill"}
  BY DEF At
<1>1. PICK f \in File : f = Path(j) /\ f = Path(j)'
  <2>1. Path(j)' = Path(j) /\ status[j] # "none"
    BY <1>0, ActiveBefore DEF Path
  <2>2. Path(j) \in File
    BY <2>1 DEF Path, File, JobsFollow, TypeOK
  <2> QED
    BY <2>1, <2>2
<1>2. Stored(f, x)'
  BY <1>1 DEF Stored
<1>3. SUFFICES x \in DOMAIN draft'[j] \/ Covered(f, x)'
  BY <1>1 DEF Covered, Removed
<1>4. phase[j] = "active" /\ (BodyStep(j) \/ SameBody(j))
  BY <1>0, ActiveBefore
<1>5. Stored(f, x)
  <2>1. ASSUME UNCHANGED <<phase, step>>, NEW k \in Job, Path(k) = f, phase[k] = "settling" PROVE FALSE
    BY <1>1, <1>4, <2>1, OneHolder DEF Held
  <2> QED
    BY <1>2, <2>1, StoredBefore
<1>6. CASE SameBody(j)
  <2>1. At(j, "truncate") \/ At(j, "fill")
    BY <1>0, <1>4, <1>6 DEF SameBody, At
  <2>2. x \in DOMAIN draft[j] \/ Covered(f, x)
    BY <1>1, <1>5, <2>1 DEF InHand
  <2> QED
    BY <1>6, <2>2, CoveredStays DEF SameBody
<1>7. CASE BodyStep(j)
  <2>1. CASE ReadFile(j)
    <3>1. At(j, "read") /\ draft'[j] = Changed(request[j], Read(f))
      BY <1>1, <2>1 DEF ReadFile, TypeOK
    <3>2. ~Writing(f)
      BY <1>1, <1>4, <3>1, OneHolder DEF Writing, Filling, Held, At
    <3>3. x \in DOMAIN files[f] \/ Covered(f, x)
      BY <1>5, <3>2 DEF NothingIsForgotten, Covered
    <3>4. DOMAIN Read(f) = DOMAIN files[f] /\ request[j].kind \in AllKinds
      BY <1>4, HeldIsSubmitted DEF Read, Held
    <3>5. CASE x \in DOMAIN files[f] /\ x \notin DOMAIN draft'[j]
      <4>1. request[j].kind = "import" \/ (request[j].kind = "unset" /\ x \in DOMAIN request[j].vars)
        BY <3>1, <3>4, <3>5, ChangeDrops
      <4>2. Removed(f, x)
        BY <1>1, <1>4, <4>1 DEF Removed
      <4> QED
        BY <4>2, CoveredStays DEF Covered
    <3> QED
      BY <3>3, <3>5, CoveredStays
  <2>2. CASE Truncate(j)
    <3>1. At(j, "truncate") /\ UNCHANGED draft
      BY <2>2 DEF Truncate
    <3>2. x \in DOMAIN draft[j] \/ Covered(f, x)
      BY <1>1, <1>5, <3>1 DEF InHand
    <3> QED
      BY <3>1, <3>2, CoveredStays
  <2>3. CASE StepFails(j) \/ Fill(j) \/ FillFails(j) \/ Record(j)
    BY <1>0, <2>3 DEF StepFails, Fill, FillFails, Record, Goto, TypeOK
  <2> QED
    BY <1>7, <2>1, <2>2, <2>3 DEF BodyStep
<1> QED
  BY <1>4, <1>6, <1>7

\* Every step keeps NothingIsForgotten.
LEMMA ForgottenStep ==
  ASSUME TypeOK, JobsFollow, Exclusive, BodyFollows, Drafted, InHand, NothingIsForgotten, [Next]_vars
  PROVE  NothingIsForgotten'
<1> SUFFICES ASSUME NEW f \in File, NEW x \in Var, Stored(f, x)'
             PROVE  x \in DOMAIN files'[f] \/ Covered(f, x)' \/ Writing(f)'
  BY DEF NothingIsForgotten, Covered
<1>1. ASSUME UNCHANGED files, NEW k \in Job, request[k].kind = "set", Path(k) = f,
             x \in DOMAIN request[k].vars, Well(k)
      PROVE  x \in DOMAIN files'[f]
  <2>1. files[f] = Changed(request[k], Reread(old[k]))
    BY <1>1 DEF Drafted, DraftedBy, Wanted
  <2> QED
    BY <1>1, <2>1, ChangeDrops DEF AllKinds
<1>2. CASE Stored(f, x)
  <2>1. ASSUME NEW k \in Job, Fill(k), Path(k) = f PROVE x \in DOMAIN files'[f] \/ Covered(f, x)'
    <3>1. At(k, "fill") /\ files'[f] = draft[k]
      BY <2>1 DEF Fill, TypeOK
    <3>2. x \in DOMAIN draft[k] \/ Covered(f, x)
      BY <1>2, <2>1, <3>1 DEF InHand
    <3> QED
      BY <3>1, <3>2, CoveredStays
  <2>2. CASE Writing(f)
    <3>1. PICK k \in Job : Filling(k) /\ Path(k) = f
      BY <2>2 DEF Writing
    <3>2. CASE BodyStep(k)
      <4>1. Fill(k) \/ FillFails(k)
        BY <3>1, <3>2 DEF BodyStep, StepFails, ReadFile, Truncate, Record, At, Filling
      <4>2. FillFails(k) => f \in torn'
        BY <3>1 DEF FillFails
      <4> QED
        BY <2>1, <3>1, <4>1, <4>2 DEF Covered
    <3>3. CASE ~BodyStep(k)
      <4>1. Path(k)' = f
        BY <3>1, RequestStays, HeldIsSubmitted DEF Filling, Held, Path
      <4> QED
        BY <3>1, <3>3, <4>1, FillingStays DEF Writing, Covered
    <3> QED
      BY <3>2, <3>3
  <2>3. CASE x \in DOMAIN files[f]
    <3>1. ASSUME NEW k \in Job, BodyStep(k), Path(k) = f
          PROVE  x \in DOMAIN files'[f] \/ Covered(f, x)' \/ Writing(f)'
      <4>1. CASE Truncate(k)
        <5>1. phase'[k] = "active" /\ step'[k] = "fill" /\ Path(k)' = f
          BY <3>1, <4>1, BodyMoves DEF Truncate, Goto, At, TypeOK, jobVars, Path
        <5> QED
          BY <5>1 DEF Writing, Filling
      <4>2. CASE StepFails(k) \/ ReadFile(k) \/ FillFails(k) \/ Record(k)
        BY <2>3, <4>2 DEF StepFails, ReadFile, FillFails, Record, world
      <4> QED
        BY <2>1, <3>1, <4>1, <4>2 DEF BodyStep
    <3>2. CASE ~\E k \in Job : BodyStep(k) /\ Path(k) = f
      <4>1. files'[f] = files[f]
        BY <3>2, BodyStays, OthersAreQuiet
      <4> QED
        BY <2>3, <4>1
    <3> QED
      BY <3>1, <3>2
  <2>4. Covered(f, x) \/ Writing(f) \/ x \in DOMAIN files[f]
    BY <1>2 DEF NothingIsForgotten, Covered
  <2> QED
    BY <2>2, <2>3, <2>4, CoveredStays
<1> QED
  BY <1>1, <1>2, StoredBefore

-----------------------------------------------------------------------------
(* The theorems. *)

\* The invariant holds when the daemon starts.
LEMMA InitIInv == Init => IInv
<1> SUFFICES ASSUME Init PROVE IInv
  OBVIOUS
<1>1. /\ status = [j \in Job |-> "none"] /\ deployment = [j \in Job |-> NoName]
      /\ phase = [j \in Job |-> "waiting"] /\ result = [j \in Job |-> "none"]
      /\ envPath = {}
  BY DEF Init, Jobs!Init
<1>2. TypeOK
  <2>1. Empty \in Contents /\ 0 \in 0..MaxCrash
    BY MapsStayMaps, EnvBounds
  <2>2. NoRequest \in [kind : AllKinds \cup {"none"}, target : AllTargets, vars : Contents]
    BY <2>1 DEF NoRequest, AllTargets
  <2> QED
    BY <1>1, <2>1, <2>2 DEF Init, TypeOK
<1>3. JobsFollow /\ Exclusive /\ BodyFollows
  BY <1>1 DEF JobsFollow, Exclusive, BodyFollows, Held
<1>4. Drafted /\ Noted /\ InHand /\ NothingIsForgotten
  BY <1>1 DEF Drafted, DraftedBy, Noted, InHand, NothingIsForgotten, Stored, At, Well
<1> QED
  BY <1>2, <1>3, <1>4 DEF IInv

\* Every step keeps the invariant.
LEMMA NextIInv == IInv /\ [Next]_vars => IInv'
<1> SUFFICES ASSUME IInv, [Next]_vars PROVE IInv'
  OBVIOUS
<1>1. TypeOK' /\ JobsFollow' /\ Exclusive' /\ BodyFollows'
  BY TypeStep, FollowStep, ExclusiveStep, BodyFollowsStep DEF IInv
<1>2. Drafted' /\ Noted' /\ InHand' /\ NothingIsForgotten'
  BY DraftedStep, NotedStep, InHandStep, ForgottenStep DEF IInv
<1> QED
  BY <1>1, <1>2 DEF IInv

\* The invariant holds always.
THEOREM Invariance == Spec => []IInv
<1> QED
  BY InitIInv, NextIInv, PTL DEF Spec

\* Every variable keeps its type.
THEOREM TypeCorrect == Spec => []TypeOK
<1>1. IInv => TypeOK
  BY DEF IInv
<1> QED
  BY <1>1, Invariance, PTL

\* A job that says it is done has done to its file exactly what was asked, to
\* what a parser makes of the values that the file had, whatever these are and
\* whatever else ran, failed, was cancelled or died before.
THEOREM ChangeIsOfWhatIsRead == Spec => []ChangeOfWhatIsRead
<1>1. IInv => ChangeOfWhatIsRead
  BY DEF IInv, Drafted, DraftedBy, Well, ChangeOfWhatIsRead
<1> QED
  BY <1>1, Invariance, PTL

\* When no value has a "$", which a parser would take for a reference, the other
\* variables have the value that they had.
THEOREM LiteralChangeIsExact ==
  ASSUME Literal = Value
  PROVE  Spec => []ChangeIsExact
<1>1. ASSUME NEW c \in Contents PROVE Reread(c) = c
  <2>1. PICK S \in SUBSET Var : c \in [S -> Value]
    BY DEF Contents
  <2>2. \A x \in S : Parsed(c[x]) = c[x]
    BY <2>1 DEF Parsed
  <2> QED
    BY <2>1, <2>2 DEF Reread
<1>2. IInv => ChangeIsExact
  <2> SUFFICES ASSUME IInv, NEW j \in Job, phase[j] = "settling", result[j] = "ok"
               PROVE  files[Path(j)] = Changed(request[j], old[j])
    BY DEF ChangeIsExact
  <2>1. files[Path(j)] = Changed(request[j], Reread(old[j]))
    BY DEF IInv, Drafted, DraftedBy, Well, Wanted
  <2>2. Reread(old[j]) = old[j]
    BY <1>1 DEF IInv, TypeOK
  <2> QED
    BY <2>1, <2>2
<1> QED
  BY <1>2, Invariance, PTL

\* A variable that a successful env.set stored is missing from its file only if
\* some job that took its turn unsets it or imports a file, or a write of that
\* file is under way or stopped half way, by a full disk or a crash.
THEOREM FilesRemember == Spec => []NothingIsForgotten
<1>1. IInv => NothingIsForgotten
  BY DEF IInv
<1> QED
  BY <1>1, Invariance, PTL

\* A row names the default file only once the file is there, and a job that
\* changed the default file with success has named it.
THEOREM RowsNameFiles == Spec => []RowNamesTheFile
<1>1. IInv => RowNamesTheFile
  BY DEF IInv, Noted, Well, RowNamesTheFile
<1> QED
  BY <1>1, Invariance, PTL

\* The jobs, with the bodies that this module gives them, are still the jobs
\* that the runner promises.
THEOREM BodiesAreJobs == Spec => Jobs!Spec
<1>1. Init => Jobs!Init
  BY DEF Init
<1>2. [Next]_vars => [Jobs!Next]_(Jobs!vars)
  <2> SUFFICES ASSUME [Next]_vars PROVE [Jobs!Next]_(Jobs!vars)
    OBVIOUS
  <2> USE DEF Jobs!Next, Jobs!vars
  <2>1. ASSUME NEW j \in Job, NEW n \in Name, NEW kind \in Kind, NEW target \in Target,
               NEW variables \in Variables(kind), Submit(j, n, kind, target, variables)
        PROVE  Jobs!Next
    BY <2>1 DEF Submit
  <2>2. ASSUME NEW j \in Job, Begin(j) \/ Skip(j) \/ Return(j) \/ Release(j) PROVE Jobs!Next
    BY <2>2 DEF Begin, Skip, Return, Release
  <2>3. ASSUME NEW j \in Job, Settle(j) PROVE Jobs!Next
    <3>1. Outcome(j) \in Jobs!Terminal
      BY DEF Outcome, Jobs!Terminal
    <3> QED
      BY <2>3, <3>1 DEF Settle
  <2>4. ASSUME NEW j \in Job, Cancel(j) \/ BodyStep(j) PROVE UNCHANGED Jobs!vars
    BY <2>4, BodyMoves DEF Cancel, jobVars
  <2>5. CASE Crash
    BY <2>5 DEF Crash
  <2>6. CASE UNCHANGED vars
    BY <2>6 DEF vars, jobVars
  <2> QED
    BY <2>1, <2>2, <2>3, <2>4, <2>5, <2>6 DEF Next
<1> QED
  BY <1>1, <1>2, PTL DEF Spec, Jobs!Spec
=============================================================================
