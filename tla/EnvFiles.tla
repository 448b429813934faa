------------------------------- MODULE EnvFiles -------------------------------
(***************************************************************************)
(* The jobs env.set, env.unset and env.import: they read an environment    *)
(* file, change it in memory, write it back as a whole and, for the        *)
(* default file, note its path in the row of the deployment.               *)
(*                                                                         *)
(* The runner is taken as JobLifecycle promises it.  os.WriteFile          *)
(* truncates and then writes, and neither reading nor writing looks at the *)
(* context, so a write can stop half way and a cancel does not undo one.   *)
(***************************************************************************)
EXTENDS Naturals, FiniteSets

CONSTANTS Job, Name, NoName,
          Var,         \* names of environment variables
          Value,       \* their values
          Literal,     \* the values without "$", which a parser leaves alone
          Blank,       \* what is left of a value that refers to no variable
          Kind,        \* the kinds of job the clients ask for
          Target,      \* which files they name
          MaxCrash     \* bound: crashes of the daemon

AllKinds == {"set", "unset", "import"}
AllTargets == {"default", "service"}

ASSUME NameIsNotEmpty == NoName \notin Name
ASSUME BlankIsLiteral == Blank \in Literal /\ Literal \subseteq Value
ASSUME RequestsAreKnown == Kind \subseteq AllKinds /\ Target \subseteq AllTargets
ASSUME EnvBounds == MaxCrash \in Nat

VARIABLES
  status, deployment, phase,   \* the jobs, as in JobLifecycle
  request,     \* what each job was asked: kind, file, and the variables
  step,        \* the next step of the body
  result,      \* what the body returns
  ctxDone,     \* jobs whose context is cancelled
  draft,       \* the map "variables" of the body
  files,       \* contents of the files; a missing file reads as empty
  present,     \* the files that exist
  envPath,     \* deployments whose row has the path of the default file
  torn,        \* history: files with a write that stopped half way
  old,         \* history: contents of the file when the body began
  crashes

jobVars == <<status, deployment, phase>>
bodyVars == <<request, step, result, draft, old>>
world == <<files, present, envPath, torn>>
vars == <<jobVars, bodyVars, ctxDone, world, crashes>>

Jobs == INSTANCE JobLifecycle

\* resolveEnvTargetPath: the default file, or one named by the request, which
\* lies next to the Compose file of the deployment
File == Name \X AllTargets
Path(j) == <<deployment[j], request[j].target>>

\* what a file holds, and the maps that a request can bring
Contents == UNION {[S -> Value] : S \in SUBSET Var}
Empty == [x \in {} |-> Blank]
NoRequest == [kind |-> "none", target |-> "default", vars |-> Empty]

TypeOK ==
  /\ status \in [Job -> {"none", "queued", "running"} \cup Jobs!Terminal]
  /\ deployment \in [Job -> Name \cup {NoName}]
  /\ phase \in [Job -> {"waiting", "active", "settling", "over"}]
  /\ request \in [Job -> [kind : AllKinds \cup {"none"}, target : AllTargets, vars : Contents]]
  /\ draft \in [Job -> Contents]
  /\ old \in [Job -> Contents]
  /\ step \in [Job -> {"none", "read", "truncate", "fill", "record", "return"}]
  /\ result \in [Job -> {"none", "ok", "error"}]
  /\ ctxDone \subseteq Job
  /\ files \in [File -> Contents]
  /\ present \subseteq File
  /\ envPath \subseteq Name
  /\ torn \subseteq File
  /\ crashes \in 0..MaxCrash

Init ==
  /\ Jobs!Init
  /\ request = [j \in Job |-> NoRequest]
  /\ step = [j \in Job |-> "none"]
  /\ result = [j \in Job |-> "none"]
  /\ ctxDone = {}
  /\ draft = [j \in Job |-> Empty]
  /\ files = [f \in File |-> Empty]
  /\ present = {}
  /\ envPath = {}
  /\ torn = {}
  /\ old = [j \in Job |-> Empty]
  /\ crashes = 0

-----------------------------------------------------------------------------
(* What the bodies compute. *)

\* Write quotes every value with strconv.Quote; dotenv, which reads double
\* quotes, puts the value of a variable in the place of "$NAME"
Parsed(v) == IF v \in Literal THEN v ELSE Blank
Read(f) == [x \in DOMAIN files[f] |-> Parsed(files[f][x])]

\* Mutant: env.set starts from an empty map
ChangedFromNothing(r, before) ==
  CASE r.kind = "set" -> r.vars
    [] r.kind = "unset" -> [x \in DOMAIN before \ DOMAIN r.vars |-> before[x]]
    [] r.kind = "import" -> r.vars

\* the map that is written: import copies the bytes of its source
Changed(r, before) ==
  CASE r.kind = "set" ->
         [x \in DOMAIN before \cup DOMAIN r.vars |->
            IF x \in DOMAIN r.vars THEN r.vars[x] ELSE before[x]]
    [] r.kind = "unset" -> [x \in DOMAIN before \ DOMAIN r.vars |-> before[x]]
    [] r.kind = "import" -> r.vars

-----------------------------------------------------------------------------
(* Clients and the runner. *)

Submit(j, n, kind, target, variables) ==
  /\ Jobs!Submit(j, n)
  /\ request' = [request EXCEPT ![j] = [kind |-> kind, target |-> target, vars |-> variables]]
  /\ UNCHANGED <<step, result, draft, old, ctxDone, world, crashes>>

Cancel(j) ==
  /\ status[j] \in Jobs!Open
  /\ phase[j] # "over"
  /\ ctxDone' = ctxDone \cup {j}
  /\ UNCHANGED <<jobVars, bodyVars, world, crashes>>

\* Mutant: the path is noted before the file is written
BeginRecords(j) ==
  /\ j \notin ctxDone
  /\ Jobs!BeginBody(j)
  /\ step' = [step EXCEPT ![j] = "read"]
  /\ old' = [old EXCEPT ![j] = files[Path(j)]]
  /\ envPath' = envPath \cup {deployment[j]}
  /\ UNCHANGED <<request, result, draft, ctxDone, files, present, torn, crashes>>

\* getRepository takes the context
Begin(j) ==
  /\ j \notin ctxDone
  /\ Jobs!BeginBody(j)
  /\ step' = [step EXCEPT ![j] = "read"]
  /\ old' = [old EXCEPT ![j] = files[Path(j)]]
  /\ UNCHANGED <<request, result, draft, ctxDone, world, crashes>>

Skip(j) ==
  /\ j \in ctxDone
  /\ Jobs!SkipBody(j)
  /\ result' = [result EXCEPT ![j] = "error"]
  /\ UNCHANGED <<request, step, draft, old, ctxDone, world, crashes>>

Return(j) ==
  /\ phase[j] = "active" /\ step[j] = "return"
  /\ Jobs!EndBody(j)
  /\ UNCHANGED <<bodyVars, ctxDone, world, crashes>>

Outcome(j) ==
  IF j \in ctxDone THEN "cancelled"
  ELSE IF result[j] = "error" THEN "failed" ELSE "succeeded"

Settle(j) ==
  /\ Jobs!Settle(j, Outcome(j))
  /\ UNCHANGED <<bodyVars, ctxDone, world, crashes>>

Release(j) ==
  /\ status[j] \notin Jobs!Open
  /\ Jobs!Release(j)
  /\ UNCHANGED <<bodyVars, ctxDone, world, crashes>>

Filling(j) == phase[j] = "active" /\ step[j] = "fill"

\* what WriteFile had not written is not written any more
Crash ==
  /\ crashes < MaxCrash
  /\ crashes' = crashes + 1
  /\ Jobs!Die
  /\ ctxDone' = {}
  /\ torn' = torn \cup {Path(j) : j \in {k \in Job : Filling(k)}}
  /\ UNCHANGED <<bodyVars, files, present, envPath>>

-----------------------------------------------------------------------------
(* The steps of the bodies. *)

At(j, s) == phase[j] = "active" /\ step[j] = s

Goto(j, s, r) ==
  /\ step' = [step EXCEPT ![j] = s]
  /\ result' = [result EXCEPT ![j] = r]
  /\ UNCHANGED <<jobVars, request, old, ctxDone, crashes>>

\* the file of the request or of the import cannot be read or opened, or the
\* row cannot be written
StepFails(j) ==
  /\ At(j, "read") \/ At(j, "truncate") \/ At(j, "record")
  /\ Goto(j, "return", "error")
  /\ UNCHANGED <<draft, world>>

ReadFile(j) ==
  /\ At(j, "read")
  /\ draft' = [draft EXCEPT ![j] = Changed(request[j], Read(Path(j)))]
  /\ Goto(j, "truncate", "none")
  /\ UNCHANGED world

\* os.WriteFile opens with O_CREATE and O_TRUNC ...
Truncate(j) ==
  /\ At(j, "truncate")
  /\ files' = [files EXCEPT ![Path(j)] = Empty]
  /\ present' = present \cup {Path(j)}
  /\ Goto(j, "fill", "none")
  /\ UNCHANGED <<draft, envPath, torn>>

\* ... and then writes; isDefaultEnvPath decides about the row
Fill(j) ==
  /\ At(j, "fill")
  /\ files' = [files EXCEPT ![Path(j)] = draft[j]]
  /\ IF request[j].target = "default" THEN Goto(j, "record", "none") ELSE Goto(j, "return", "ok")
  /\ UNCHANGED <<draft, present, envPath, torn>>

\* Mutant: the error of WriteFile is ignored
FillFailsSilently(j) ==
  /\ At(j, "fill")
  /\ torn' = torn \cup {Path(j)}
  /\ Goto(j, "return", "ok")
  /\ UNCHANGED <<draft, files, present, envPath>>

\* the disk is full
FillFails(j) ==
  /\ At(j, "fill")
  /\ torn' = torn \cup {Path(j)}
  /\ Goto(j, "return", "error")
  /\ UNCHANGED <<draft, files, present, envPath>>

\* updateRepository takes the context
Record(j) ==
  /\ At(j, "record")
  /\ j \notin ctxDone
  /\ envPath' = envPath \cup {deployment[j]}
  /\ Goto(j, "return", "ok")
  /\ UNCHANGED <<draft, files, present, torn>>

BodyStep(j) ==
  StepFails(j) \/ ReadFile(j) \/ Truncate(j) \/ Fill(j) \/ FillFails(j) \/ Record(j)

\* one variable at a time; an import may bring an empty file
Variables(kind) ==
  CASE kind = "set" -> UNION {[{x} -> Value] : x \in Var}
    [] kind = "unset" -> {[y \in {x} |-> Blank] : x \in Var}
    [] kind = "import" -> {Empty} \cup UNION {[{x} -> Value] : x \in Var}

Next ==
  \/ \E j \in Job :
       \/ \E n \in Name, kind \in Kind, target \in Target :
            \E variables \in Variables(kind) : Submit(j, n, kind, target, variables)
       \/ Cancel(j) \/ Begin(j) \/ Skip(j) \/ BodyStep(j) \/ Return(j) \/ Settle(j) \/ Release(j)
  \/ Crash

Spec == Init /\ [][Next]_vars

-----------------------------------------------------------------------------
(* Properties. *)

\* A job that says it updated, deleted or imported variables has done exactly
\* that to its file when its outcome is written: other variables have the
\* value they had, whatever else ran, failed or was cancelled before.
ChangeIsExact ==
  \A j \in Job :
    phase[j] = "settling" /\ result[j] = "ok"
      => files[Path(j)] = Changed(request[j], old[j])

\* A variable that a successful env.set stored is missing from its file only if
\* some job that took its turn, before or since, unsets it or imports a file,
\* or a write of that file stopped half way or is under way.
Stored(f, x) ==
  \E j \in Job : request[j].kind = "set" /\ Path(j) = f /\ x \in DOMAIN request[j].vars
                 /\ status[j] = "succeeded"
Removed(f, x) ==
  \E j \in Job : /\ phase[j] # "waiting" /\ Path(j) = f
                 /\ \/ request[j].kind = "import"
                    \/ request[j].kind = "unset" /\ x \in DOMAIN request[j].vars
Writing(f) == \E j \in Job : Filling(j) /\ Path(j) = f
NothingIsForgotten ==
  \A f \in File, x \in Var :
    Stored(f, x) /\ x \notin DOMAIN files[f] => Removed(f, x) \/ f \in torn \/ Writing(f)

\* A row names the default file only once the file is there, and a job that
\* changed the default file with success has named it: Compose finds the
\* variables of the next deploy.
RowNamesTheFile ==
  /\ \A n \in envPath : <<n, "default">> \in present
  /\ \A j \in Job : /\ request[j].target = "default"
                    /\ phase[j] = "settling" /\ result[j] = "ok"
                    => deployment[j] \in envPath
=============================================================================
