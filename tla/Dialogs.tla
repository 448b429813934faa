-------------------------------- MODULE Dialogs --------------------------------
(***************************************************************************)
(* The dialogs of the dashboard and what they share: CreateDeploymentModal *)
(* and JobLogModal, which App keeps mounted, and ConfirmDelete, which the  *)
(* detail view mounts, all use the hook useModalDismiss.  It stops the page *)
(* from scrolling while a dialog is open and closes it on Escape.          *)
(*                                                                         *)
(* The functions onClose are made anew in each render of the component     *)
(* that passes them, so that a render of App runs the effects of all open  *)
(* dialogs again, and one of the detail view alone that of ConfirmDelete:  *)
(* all cleanups and then all effects, in the order of the page, which has  *)
(* the detail view first and JobLogModal last.                             *)
(***************************************************************************)
EXTENDS JobDialog

CONSTANT MaxCreate     \* bound: requests under way to create deployments

ASSUME CreateBound == MaxCreate \in Nat

VARIABLES
  createOpen,                          \* isCreateOpen of App
  createLoading,       \* loading of CreateDeploymentModal; what is typed and what is
                       \* said of it are left out
  create,              \* its requests
  deleteOpen,          \* ConfirmDelete is mounted
  overflow,            \* document.body.style.overflow
  previous,            \* previousOverflow of the three effects
  beside               \* what was ever open beside another dialog

createForm == <<createOpen, createLoading, create>>
page == <<overflow, previous, beside>>
dialogsVars == <<vars, createForm, deleteOpen, page>>

Dialog == {"delete", "create", "job"}

Call == 1..MaxCreate
NoCall == [at |-> "idle", job |-> NoJob]
InFlight(n) == create[n] # NoCall

DialogsTypeOK ==
  /\ TypeOK
  /\ createOpen \in BOOLEAN
  /\ createLoading \in BOOLEAN
  /\ create \in [Call -> [at : {"idle", "asked", "accepted"},
                          job : Job \cup {NoJob}]]
  /\ deleteOpen \in BOOLEAN
  /\ overflow \in {"", "hidden"}
  /\ previous \in [Dialog -> {"", "hidden"}]
  /\ beside \in {"nothing", "create", "delete"}

DialogsInit ==
  /\ Init
  /\ createOpen = FALSE
  /\ createLoading = FALSE
  /\ create = [n \in Call |-> NoCall]
  /\ deleteOpen = FALSE
  /\ overflow = ""
  /\ previous = [d \in Dialog |-> ""]
  /\ beside = "nothing"

-----------------------------------------------------------------------------
(* useModalDismiss. *)

JobOpen == shown # NoJob

Open ==
  (IF deleteOpen THEN {"delete"} ELSE {})
    \cup (IF createOpen THEN {"create"} ELSE {})
    \cup (IF JobOpen THEN {"job"} ELSE {})

\* two are open
Stacked ==
  \/ deleteOpen /\ (createOpen \/ JobOpen)
  \/ createOpen /\ JobOpen

\* Mutant: the cleanup removes its listener only
OverflowKept(ran) == overflow

\* what the cleanups of the dialogs ran leave behind: each puts back what its
\* effect had found, and the last one stays
OverflowRestored(ran) ==
  LET cleaned == Open \cap ran
  IN IF "job" \in cleaned THEN previous["job"]
     ELSE IF "create" \in cleaned THEN previous["create"]
     ELSE IF "delete" \in cleaned THEN previous["delete"]
     ELSE overflow

Before(d) == CASE d = "delete" -> {} [] d = "create" -> {"delete"} [] d = "job" -> {"delete", "create"}

\* a render that runs the effects of the dialogs ran: the cleanups of those
\* that were open, then the effects of those that are, each of which finds
\* "hidden" behind another one
Renders(ran) ==
  LET found == OverflowRestored(ran)
      now == Open'
  IN /\ previous' = [d \in Dialog |->
                       IF d \notin now THEN ""
                       ELSE IF d \notin ran THEN previous[d]
                       ELSE IF Before(d) \cap now \cap ran # {} THEN "hidden"
                       ELSE found]
     /\ overflow' = IF now \cap ran # {} THEN "hidden" ELSE found
     /\ beside' = IF ~Stacked' THEN beside
                  ELSE IF deleteOpen' THEN "delete"
                  ELSE IF beside = "nothing" THEN "create"
                  ELSE beside

\* App renders the detail view too
Effects == Renders(Dialog)

\* any other state of App that changes, the answer to a poll among others
Render ==
  /\ UNCHANGED <<vars, createForm, deleteOpen>>
  /\ Effects

-----------------------------------------------------------------------------
(* ConfirmDelete, of which DeploymentDetail has the view it belongs to. *)

\* opened and closed by the state of the view, which renders alone
OpenDelete ==
  /\ ~deleteOpen
  /\ deleteOpen' = TRUE
  /\ UNCHANGED <<vars, createForm>>
  /\ Renders({"delete"})

CloseDelete ==
  /\ deleteOpen
  /\ deleteOpen' = FALSE
  /\ UNCHANGED <<vars, createForm>>
  /\ Renders({"delete"})

\* any other state of the view that changes
RenderDetail ==
  /\ deleteOpen
  /\ UNCHANGED <<vars, createForm, deleteOpen>>
  /\ Renders({"delete"})

\* the view is left and the question with it
Leave ==
  /\ deleteOpen
  /\ deleteOpen' = FALSE
  /\ UNCHANGED <<vars, createForm>>
  /\ Effects

-----------------------------------------------------------------------------
(* CreateDeploymentModal. *)

OpenCreate ==
  /\ ~createOpen
  /\ createOpen' = TRUE
  /\ UNCHANGED <<vars, createLoading, create, deleteOpen>>
  /\ Effects

\* Mutant: the effect of isOpen, which empties the form, also says that nothing
\* is under way any more
CloseCreateForgets ==
  /\ createOpen
  /\ createOpen' = FALSE
  /\ createLoading' = FALSE
  /\ UNCHANGED <<vars, create, deleteOpen>>
  /\ Effects

\* the form is emptied; what is under way goes on
CloseCreate ==
  /\ createOpen
  /\ createOpen' = FALSE
  /\ UNCHANGED <<vars, createLoading, create, deleteOpen>>
  /\ Effects

\* the button is disabled while a request is under way; without an URL
\* nothing is sent
Submit ==
  /\ createOpen /\ ~createLoading
  /\ createLoading' = TRUE
  /\ \E n \in Call :
       /\ ~InFlight(n) /\ \A m \in 1..n - 1 : InFlight(m)
       /\ create' = [create EXCEPT ![n].at = "asked"]
  /\ UNCHANGED <<vars, createOpen, deleteOpen, page>>

\* handleCreateDeployment answers with the job it accepted
Accept(n, j) ==
  /\ create[n].at = "asked"
  /\ status[j] = "none"
  /\ status' = [status EXCEPT ![j] = "open"]
  /\ create' = [create EXCEPT ![n] = [at |-> "accepted", job |-> j]]
  /\ UNCHANGED <<lines, dialog, source, get, errors, createOpen, createLoading, deleteOpen, page>>

\* onClose, onSuccess and finally: the form that is open then is closed, be it
\* the one that was sent or a later one, and the dialog of the job opens
Created(n) ==
  /\ create[n].at = "accepted"
  /\ create' = [create EXCEPT ![n] = NoCall]
  /\ createLoading' = FALSE
  /\ createOpen' = FALSE
  /\ IF shown = create[n].job THEN UNCHANGED vars ELSE Show(create[n].job)
  /\ UNCHANGED deleteOpen
  /\ Effects

\* an error, or an answer that is lost after the job was accepted
NotCreated(n) ==
  /\ InFlight(n)
  /\ create' = [create EXCEPT ![n] = NoCall]
  /\ createLoading' = FALSE
  /\ UNCHANGED <<vars, createOpen, deleteOpen, page>>

-----------------------------------------------------------------------------
\* The listeners of all open dialogs hear the key.  If React renders between
\* two of them it closes the first, as above; if not, it closes all at once.
Escape ==
  /\ Stacked
  /\ IF JobOpen THEN Close ELSE UNCHANGED vars
  /\ createOpen' = FALSE
  /\ deleteOpen' = FALSE
  /\ UNCHANGED <<createLoading, create>>
  /\ Effects

\* handleDelete leaves the view and opens the dialog of the job in one render
JobDialogStep ==
  \/ /\ \/ Close /\ UNCHANGED deleteOpen
        \/ \E j \in Job : Show(j) /\ deleteOpen' \in {deleteOpen, FALSE}
     /\ UNCHANGED createForm
     /\ Effects
  \/ /\ \/ \E n \in Opening : Follow(n)
        \/ \E j \in Job : Work(j)
     /\ UNCHANGED <<createForm, deleteOpen, page>>

DeleteStep == OpenDelete \/ CloseDelete \/ RenderDetail \/ Leave

CreateStep ==
  \/ OpenCreate \/ CloseCreate \/ Submit
  \/ \E n \in Call : \/ Created(n) \/ NotCreated(n)
                     \/ \E j \in Job : Accept(n, j)

DialogsNext == JobDialogStep \/ CreateStep \/ DeleteStep \/ Render \/ Escape

DialogsSpec == DialogsInit /\ [][DialogsNext]_dialogsVars

-----------------------------------------------------------------------------
(* Properties. *)

\* The button of the form is disabled exactly while one request to create a
\* deployment is under way, however often the form is closed and opened again
\* before the answer: two clicks never create twice.
OneCreateAtATime ==
  /\ createLoading <=> \E n \in Call : InFlight(n)
  /\ \A n, m \in Call : InFlight(n) /\ InFlight(m) => n = m

\* The page does not scroll behind a dialog, unless ConfirmDelete was open
\* beside another one: the one that closes first may let the page go.  And it
\* scrolls again when the last dialog is closed, unless two were ever open
\* together: the cleanups then put "hidden" back, and the page may stay as it
\* is for ever.
PageScrolls ==
  /\ beside # "delete" /\ Open # {} => overflow = "hidden"
  /\ beside = "nothing" /\ Open = {} => overflow = ""
=============================================================================
