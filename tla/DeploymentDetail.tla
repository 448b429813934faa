---------------------------- MODULE DeploymentDetail ----------------------------
(***************************************************************************)
(* The view of one deployment, DeploymentDetailView, which App mounts while *)
(* a deployment is selected, and the requests that start jobs.             *)
(*                                                                         *)
(* Nothing is aborted when the view is left: answers arrive after it.      *)
(* React drops what they do to the state of a view that is gone, but not   *)
(* what they do to App: the dialog of the job opens wherever the user is.  *)
(* The row of a deployment is known by a number, its contents left out.    *)
(***************************************************************************)
EXTENDS Naturals

CONSTANTS Name, None,
          MaxView,     \* bound: times a deployment is selected
          MaxFetch,    \* bound: fetches under way together
          MaxCall,     \* bound: other requests under way together
          MaxRow,      \* bound: different rows of a deployment
          MaxChange,   \* bound: changes of rows
          MaxError     \* bound: fetches that fail

ASSUME DetailBounds == {MaxView, MaxFetch, MaxCall, MaxRow, MaxChange, MaxError} \subseteq Nat
ASSUME SomeRow == MaxRow # 0
ASSUME NoneIsNoName == None \notin Name

VARIABLES
  row, changes,        \* the deployments of the daemon
  selected,            \* selectedDeployment of App
  jobOpen,             \* whether activeJobId of App is set
  mounted,             \* how many views there were; the last one may be shown
  detail,              \* deployment of the view: a name and a row, or NoDetail
  loading, error, deleteOpen, envLoading,   \* the rest of its state
  fetch,               \* the calls of fetchDetails, with the view that made them
  call,                \* the requests that start jobs, likewise; view 0: the list
  errors

daemon == <<row, changes>>
state == <<detail, loading, error, deleteOpen, envLoading>>
vars == <<daemon, selected, jobOpen, mounted, state, fetch, call, errors>>

Gone == 0
Row == 0..MaxRow
Fetch == 1..MaxFetch
Call == 1..MaxCall
NameOrNone == Name \cup {None}
NoDetail == [name |-> None, row |-> Gone]
NoFetch == [at |-> "idle", view |-> 0, name |-> None, row |-> Gone]
NoCall == [kind |-> "none", view |-> 0, name |-> None]
EnvKind == {"env"}      \* env.set and env.unset, which the view treats alike
Kind == {"action", "delete"} \cup EnvKind

TypeOK ==
  /\ row \in [Name -> Row]
  /\ changes \in 0..MaxChange
  /\ selected \in NameOrNone
  /\ jobOpen \in BOOLEAN
  /\ mounted \in 0..MaxView
  /\ detail \in [name : Name, row : Row] \cup {NoDetail}
  /\ loading \in BOOLEAN /\ error \in BOOLEAN /\ deleteOpen \in BOOLEAN
  /\ envLoading \in BOOLEAN
  /\ fetch \in [Fetch -> [at : {"asked", "answered"}, view : 0..MaxView, name : Name, row : Row]
                          \cup {NoFetch}]
  /\ call \in [Call -> [kind : Kind, view : 0..MaxView, name : Name] \cup {NoCall}]
  /\ errors \in 0..MaxError

\* the state of a view that is mounted, and, to have one, of a view that is gone
Fresh ==
  /\ detail' = NoDetail
  /\ loading' = TRUE
  /\ error' = FALSE
  /\ deleteOpen' = FALSE
  /\ envLoading' = FALSE

Init ==
  /\ row = [n \in Name |-> 1]
  /\ changes = 0
  /\ selected = None
  /\ jobOpen = FALSE
  /\ mounted = 0
  /\ detail = NoDetail
  /\ loading = TRUE
  /\ error = FALSE
  /\ deleteOpen = FALSE
  /\ envLoading = FALSE
  /\ fetch = [f \in Fetch |-> NoFetch]
  /\ call = [c \in Call |-> NoCall]
  /\ errors = 0

Change(n) ==
  /\ changes < MaxChange
  /\ changes' = changes + 1
  /\ \E r \in Row \ {row[n]} : row' = [row EXCEPT ![n] = r]
  /\ UNCHANGED <<selected, jobOpen, mounted, state, fetch, call, errors>>

-----------------------------------------------------------------------------
(* Selecting a deployment and leaving its view. *)

\* a request takes the first slot that is idle
Asked(f, n, v) ==
  /\ fetch[f] = NoFetch
  /\ \A g \in 1..f - 1 : fetch[g] # NoFetch
  /\ fetch' = [fetch EXCEPT ![f] = [at |-> "asked", view |-> v, name |-> n, row |-> Gone]]

\* the effect of the view fetches at once
Select(n, f) ==
  /\ selected = None
  /\ mounted < MaxView
  /\ selected' = n
  /\ mounted' = mounted + 1
  /\ Asked(f, n, mounted + 1)
  /\ Fresh
  /\ UNCHANGED <<daemon, jobOpen, call, errors>>

\* onBack
Leave ==
  /\ selected # None
  /\ selected' = None
  /\ Fresh
  /\ UNCHANGED <<daemon, jobOpen, mounted, fetch, call, errors>>

\* Mutant: what answers do to a view reaches the one that is shown now
OfAnyView(request) == selected # None

\* whether the view that made a request is still there
OfThisView(request) == selected # None /\ request.view = mounted

-----------------------------------------------------------------------------
(* fetchDetails. *)

\* the timer, which waits for no answer
Poll(f) ==
  /\ selected # None
  /\ Asked(f, selected, mounted)
  /\ UNCHANGED <<daemon, selected, jobOpen, mounted, state, call, errors>>

\* handleGetDeployment
Answer(f) ==
  /\ fetch[f].at = "asked"
  /\ fetch' = [fetch EXCEPT ![f].at = "answered", ![f].row = row[fetch[f].name]]
  /\ UNCHANGED <<daemon, selected, jobOpen, mounted, state, call, errors>>

Failed == error' = TRUE /\ UNCHANGED detail

\* Mutant: a deployment that is shown is not shown anew
ArriveOnce(f) ==
  /\ fetch[f].at = "answered"
  /\ fetch' = [fetch EXCEPT ![f] = NoFetch]
  /\ IF OfThisView(fetch[f])
     THEN /\ loading' = FALSE
          /\ IF fetch[f].row = Gone THEN Failed
             ELSE /\ detail' = IF detail = NoDetail
                               THEN [name |-> fetch[f].name, row |-> fetch[f].row]
                               ELSE detail
                  /\ error' = FALSE
     ELSE UNCHANGED <<detail, loading, error>>
  /\ UNCHANGED <<daemon, selected, jobOpen, mounted, deleteOpen, envLoading, call, errors>>

\* the deployment, or 404
Arrive(f) ==
  /\ fetch[f].at = "answered"
  /\ fetch' = [fetch EXCEPT ![f] = NoFetch]
  /\ IF OfThisView(fetch[f])
     THEN /\ loading' = FALSE
          /\ IF fetch[f].row = Gone THEN Failed
             ELSE /\ detail' = [name |-> fetch[f].name, row |-> fetch[f].row]
                  /\ error' = FALSE
     ELSE UNCHANGED <<detail, loading, error>>
  /\ UNCHANGED <<daemon, selected, jobOpen, mounted, deleteOpen, envLoading, call, errors>>

\* Mutant: the error is dropped
FetchFailsSilently(f) ==
  /\ fetch[f].at = "asked"
  /\ errors < MaxError
  /\ errors' = errors + 1
  /\ fetch' = [fetch EXCEPT ![f] = NoFetch]
  /\ loading' = IF OfThisView(fetch[f]) THEN FALSE ELSE loading
  /\ UNCHANGED <<daemon, selected, jobOpen, mounted, detail, error, deleteOpen, envLoading, call>>

FetchFails(f) ==
  /\ fetch[f].at = "asked"
  /\ errors < MaxError
  /\ errors' = errors + 1
  /\ fetch' = [fetch EXCEPT ![f] = NoFetch]
  /\ IF OfThisView(fetch[f])
     THEN Failed /\ loading' = FALSE
     ELSE UNCHANGED <<detail, loading, error>>
  /\ UNCHANGED <<daemon, selected, jobOpen, mounted, deleteOpen, envLoading, call>>

-----------------------------------------------------------------------------
(* The requests that start jobs.  Nothing keeps a button from being clicked *)
(* again before the answer, but for those of the environment.               *)

Ask(c, kind, v, n) ==
  /\ call[c] = NoCall
  /\ \A d \in 1..c - 1 : call[d] # NoCall
  /\ call' = [call EXCEPT ![c] = [kind |-> kind, view |-> v, name |-> n]]

Shown == selected # None /\ detail # NoDetail

\* handleDeploy, handleRestart, handleStop and handleUpdate: from the view or
\* from the menu of the list
Act(c) ==
  /\ \/ Shown /\ Ask(c, "action", mounted, detail.name)
     \/ selected = None /\ \E n \in Name : Ask(c, "action", 0, n)
  /\ UNCHANGED <<daemon, selected, jobOpen, mounted, state, fetch, errors>>

\* Mutant: the button is there before the deployment is
OpenDeleteEarly ==
  /\ selected # None
  /\ deleteOpen' = TRUE
  /\ UNCHANGED <<daemon, selected, jobOpen, mounted, detail, loading, error, envLoading, fetch, call, errors>>

OpenDelete ==
  /\ Shown
  /\ deleteOpen' = TRUE
  /\ UNCHANGED <<daemon, selected, jobOpen, mounted, detail, loading, error, envLoading, fetch, call, errors>>

\* ConfirmDelete: cancelled, or confirmed
CloseDelete ==
  /\ deleteOpen
  /\ deleteOpen' = FALSE
  /\ UNCHANGED call \/ \E c \in Call : Ask(c, "delete", mounted, detail.name)
  /\ UNCHANGED <<daemon, selected, jobOpen, mounted, detail, loading, error, envLoading, fetch, errors>>

\* setEnvironmentVariable, of a name that is not empty, and
\* removeEnvironmentVariable, whose buttons are disabled while one is under way
ChangeEnv(c) ==
  /\ Shown /\ ~envLoading
  /\ \E kind \in EnvKind : Ask(c, kind, mounted, selected)
  /\ envLoading' = TRUE
  /\ UNCHANGED <<daemon, selected, jobOpen, mounted, detail, loading, error, deleteOpen, fetch, errors>>

\* Mutant: finally ends the wait whichever request it is of
EnvSettledByAny(request) ==
  IF OfThisView(request) THEN envLoading' = FALSE ELSE UNCHANGED envLoading

\* finally; the fields are emptied as well, whatever they hold by then
EnvSettled(request) ==
  IF request.kind \in EnvKind /\ OfThisView(request) THEN envLoading' = FALSE ELSE UNCHANGED envLoading

\* the job is accepted: its dialog opens, and a delete leaves whatever view is
\* shown by then
Accepted(c) ==
  /\ call[c] # NoCall
  /\ call' = [call EXCEPT ![c] = NoCall]
  /\ jobOpen' = TRUE
  /\ IF call[c].kind = "delete"
     THEN selected' = None /\ Fresh
     ELSE /\ EnvSettled(call[c])
          /\ UNCHANGED <<selected, detail, loading, error, deleteOpen>>
  /\ UNCHANGED <<daemon, mounted, fetch, errors>>

\* nobody handles the rejection: no message appears
Rejected(c) ==
  /\ call[c] # NoCall
  /\ call' = [call EXCEPT ![c] = NoCall]
  /\ EnvSettled(call[c])
  /\ UNCHANGED <<daemon, selected, jobOpen, mounted, detail, loading, error, deleteOpen, fetch, errors>>

\* "View log" of a row of the history, and the dialog is closed
ViewLog ==
  /\ Shown
  /\ jobOpen' = TRUE
  /\ UNCHANGED <<daemon, selected, mounted, state, fetch, call, errors>>
CloseLog ==
  /\ jobOpen' = FALSE
  /\ UNCHANGED <<daemon, selected, mounted, state, fetch, call, errors>>

Next ==
  \/ \E n \in Name : Change(n) \/ \E f \in Fetch : Select(n, f)
  \/ Leave
  \/ \E f \in Fetch : Poll(f) \/ Answer(f) \/ Arrive(f) \/ FetchFails(f)
  \/ \E c \in Call : Act(c) \/ ChangeEnv(c) \/ Accepted(c) \/ Rejected(c)
  \/ OpenDelete \/ CloseDelete \/ ViewLog \/ CloseLog

Spec == Init /\ [][Next]_vars

\* the interval fires while the view is shown, and the daemon answers
FairSpec ==
  /\ Spec
  /\ \A f \in Fetch : WF_vars(Poll(f)) /\ WF_vars(Answer(f)) /\ WF_vars(Arrive(f))

-----------------------------------------------------------------------------
(* Properties. *)

\* A view shows the deployment that is selected, and what it asks for and what
\* it deletes is that deployment, although answers for views before it arrive.
ShowsItsOwn ==
  selected # None =>
    /\ detail # NoDetail => detail.name = selected
    /\ \A f \in Fetch : fetch[f] # NoFetch /\ OfThisView(fetch[f]) => fetch[f].name = selected
    /\ \A c \in Call : call[c] # NoCall /\ OfThisView(call[c]) => call[c].name = selected

\* The editor of the environment is disabled exactly while one request of it is
\* under way: no two changes of one view overlap, and none blocks it for ever.
OwnEnvCalls == {c \in Call : call[c].kind \in EnvKind /\ OfThisView(call[c])}
EnvBusy ==
  /\ envLoading <=> OwnEnvCalls # {}
  /\ \A c, d \in OwnEnvCalls : c = d

\* A view without a deployment is waiting for an answer or says what is wrong:
\* "Deployment not found", the text for neither, never shows.
ViewIsHonest ==
  selected # None =>
    /\ loading => \E f \in Fetch : fetch[f] # NoFetch /\ OfThisView(fetch[f])
    /\ detail = NoDetail /\ ~loading => error

\* Once neither the selection nor the row changes any more, the view shows that
\* row without an error, or an error if the deployment is gone.
UpToDate ==
  IF row[selected] = Gone THEN error ELSE detail = [name |-> selected, row |-> row[selected]] /\ ~error
DetailCatchesUp ==
  <>[](selected # None) /\ <>[][UNCHANGED row]_vars => <>[](selected # None /\ UpToDate)
=============================================================================
