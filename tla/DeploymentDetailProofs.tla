------------------------- MODULE DeploymentDetailProofs -------------------------
(***************************************************************************)
(* Machine-checked proofs about DeploymentDetail, for any set of names and *)
(* any number of views, requests and failures.                             *)
(***************************************************************************)
EXTENDS DeploymentDetail, TLAPS

-----------------------------------------------------------------------------
(* The inductive invariant. *)

\* no request is of a view that is still to come, and one that is idle is of
\* none: a view that is mounted has no answers to wait for but its own
NoneOfFuture ==
  /\ selected # None => mounted >= 1
  /\ \A f \in Fetch : fetch[f].view <= mounted
  /\ \A c \in Call : call[c].view <= mounted

\* only a deployment that is shown can be asked to be deleted
DeleteOfShown == deleteOpen => Shown

IInv ==
  /\ TypeOK
  /\ NoneOfFuture
  /\ DeleteOfShown
  /\ ShowsItsOwn
  /\ EnvBusy
  /\ ViewIsHonest

-----------------------------------------------------------------------------
(* Type correctness. *)

FetchSet == [at : {"asked", "answered"}, view : 0..MaxView, name : Name, row : Row] \cup {NoFetch}
CallSet == [kind : Kind, view : 0..MaxView, name : Name] \cup {NoCall}

\* A request that is asked is of the view that asks and keeps the types.
LEMMA AskedType ==
  ASSUME TypeOK, NEW f \in Fetch, NEW n \in Name, NEW v \in 0..MaxView, Asked(f, n, v)
  PROVE  fetch' \in [Fetch -> FetchSet]
BY DetailBounds DEF TypeOK, Asked, FetchSet, Row, Gone

\* The same of the requests that start jobs.
LEMMA AskType ==
  ASSUME TypeOK, NEW c \in Call, NEW k \in Kind, NEW n \in Name, NEW v \in 0..MaxView,
         Ask(c, k, v, n)
  PROVE  call' \in [Call -> CallSet]
BY DEF TypeOK, Ask, CallSet

\* Every step keeps the types.
LEMMA NextType == TypeOK /\ DeleteOfShown /\ [Next]_vars => TypeOK'
<1> SUFFICES ASSUME TypeOK, DeleteOfShown, [Next]_vars PROVE TypeOK'
  OBVIOUS
<1> USE DetailBounds, NoneIsNoName
<1>1. CASE UNCHANGED vars
  BY <1>1 DEF TypeOK, vars, daemon, state
<1>2. ASSUME NEW n \in Name, Change(n) PROVE TypeOK'
  BY <1>2 DEF Change, TypeOK, state, Row
<1>3. ASSUME NEW n \in Name, NEW f \in Fetch, Select(n, f) PROVE TypeOK'
  <2>1. mounted + 1 \in 0..MaxView
    BY <1>3 DEF Select, TypeOK
  <2>2. fetch' \in [Fetch -> FetchSet]
    BY <1>3, <2>1, AskedType DEF Select
  <2> QED
    BY <1>3, <2>1, <2>2 DEF Select, Fresh, TypeOK, daemon, FetchSet, NameOrNone
<1>4. CASE Leave
  BY <1>4 DEF Leave, Fresh, TypeOK, daemon, NameOrNone
<1>5. ASSUME NEW f \in Fetch, Poll(f) PROVE TypeOK'
  <2>1. selected \in Name
    BY <1>5 DEF Poll, TypeOK, NameOrNone
  <2>2. fetch' \in [Fetch -> FetchSet]
    BY <1>5, <2>1, AskedType DEF Poll, TypeOK
  <2> QED
    BY <1>5, <2>2 DEF Poll, TypeOK, daemon, state, FetchSet
<1>6. ASSUME NEW f \in Fetch, Answer(f) PROVE TypeOK'
  <2>1. fetch[f] \in [at : {"asked"}, view : 0..MaxView, name : Name, row : Row]
    BY <1>6 DEF Answer, TypeOK, NoFetch
  <2>2. fetch' \in [Fetch -> FetchSet]
    BY <1>6, <2>1 DEF Answer, TypeOK, FetchSet
  <2> QED
    BY <1>6, <2>2 DEF Answer, TypeOK, daemon, state, FetchSet
<1>7. ASSUME NEW f \in Fetch, Arrive(f) PROVE TypeOK'
  <2>1. fetch[f].name \in Name /\ fetch[f].row \in Row
    BY <1>7 DEF Arrive, TypeOK, NoFetch
  <2>2. fetch' \in [Fetch -> FetchSet]
    BY <1>7 DEF Arrive, TypeOK, FetchSet
  <2>3. detail' \in [name : Name, row : Row] \cup {NoDetail} /\ loading' \in BOOLEAN /\ error' \in BOOLEAN
    <3>1. CASE OfThisView(fetch[f]) /\ fetch[f].row # Gone
      <4>1. detail' = [name |-> fetch[f].name, row |-> fetch[f].row] /\ loading' = FALSE /\ error' = FALSE
        BY <1>7, <3>1, Zenon DEF Arrive
      <4> QED
        BY <2>1, <4>1
    <3>2. CASE OfThisView(fetch[f]) /\ fetch[f].row = Gone
      BY <1>7, <3>2 DEF Arrive, Failed, TypeOK
    <3>3. CASE ~OfThisView(fetch[f])
      BY <1>7, <3>3 DEF Arrive, TypeOK
    <3> QED
      BY <3>1, <3>2, <3>3
  <2> QED
    BY <1>7, <2>2, <2>3 DEF Arrive, TypeOK, daemon, FetchSet
<1>8. ASSUME NEW f \in Fetch, FetchFails(f) PROVE TypeOK'
  <2>1. fetch' \in [Fetch -> FetchSet]
    BY <1>8 DEF FetchFails, TypeOK, FetchSet
  <2>2. detail' = detail /\ loading' \in BOOLEAN /\ error' \in BOOLEAN
    BY <1>8 DEF FetchFails, Failed, TypeOK
  <2> QED
    BY <1>8, <2>1, <2>2 DEF FetchFails, TypeOK, daemon, FetchSet
<1>9. ASSUME NEW c \in Call, Act(c) PROVE TypeOK'
  <2>1. Shown => detail.name \in Name
    BY DEF Shown, TypeOK
  <2>2. call' \in [Call -> CallSet]
    <3>1. CASE Shown /\ Ask(c, "action", mounted, detail.name)
      BY <2>1, <3>1, AskType DEF TypeOK, Kind
    <3>2. CASE \E n \in Name : Ask(c, "action", 0, n)
      BY <3>2, AskType DEF Kind
    <3> QED
      BY <1>9, <3>1, <3>2 DEF Act
  <2> QED
    BY <1>9, <2>2 DEF Act, TypeOK, daemon, state, CallSet
<1>10. CASE OpenDelete
  BY <1>10 DEF OpenDelete, TypeOK, daemon
<1>11. CASE CloseDelete
  <2>1. detail.name \in Name
    BY <1>11 DEF CloseDelete, DeleteOfShown, Shown, TypeOK
  <2>2. call' \in [Call -> CallSet]
    BY <1>11, <2>1, AskType DEF CloseDelete, TypeOK, Kind, CallSet
  <2> QED
    BY <1>11, <2>2 DEF CloseDelete, TypeOK, daemon, CallSet
<1>12. ASSUME NEW c \in Call, ChangeEnv(c) PROVE TypeOK'
  <2>1. selected \in Name
    BY <1>12 DEF ChangeEnv, Shown, TypeOK, NameOrNone
  <2>2. call' \in [Call -> CallSet]
    BY <1>12, <2>1, AskType DEF ChangeEnv, TypeOK, Kind
  <2> QED
    BY <1>12, <2>2 DEF ChangeEnv, TypeOK, daemon, CallSet
<1>13. ASSUME NEW c \in Call, Accepted(c) PROVE TypeOK'
  <2>1. call' \in [Call -> CallSet]
    BY <1>13 DEF Accepted, TypeOK, CallSet
  <2>2. CASE call[c].kind = "delete"
    BY <1>13, <2>1, <2>2 DEF Accepted, Fresh, TypeOK, daemon, CallSet, NameOrNone
  <2>3. CASE call[c].kind # "delete"
    <3>1. envLoading' \in BOOLEAN
      BY <1>13, <2>3 DEF Accepted, EnvSettled, TypeOK
    <3> QED
      BY <1>13, <2>1, <2>3, <3>1 DEF Accepted, TypeOK, daemon, CallSet
  <2> QED
    BY <2>2, <2>3
<1>14. ASSUME NEW c \in Call, Rejected(c) PROVE TypeOK'
  <2>1. call' \in [Call -> CallSet]
    BY <1>14 DEF Rejected, TypeOK, CallSet
  <2>2. envLoading' \in BOOLEAN
    BY <1>14 DEF Rejected, EnvSettled, TypeOK
  <2> QED
    BY <1>14, <2>1, <2>2 DEF Rejected, TypeOK, daemon, CallSet
<1>15. CASE ViewLog \/ CloseLog
  BY <1>15 DEF ViewLog, CloseLog, TypeOK, daemon, state
<1> QED
  BY <1>1, <1>2, <1>3, <1>4, <1>5, <1>6, <1>7, <1>8, <1>9, <1>10, <1>11, <1>12, <1>13, <1>14, <1>15
     DEF Next

-----------------------------------------------------------------------------
(* The invariant is kept. *)

\* The invariant, but for the types, with its sets and its quantifiers spelled
\* out: what the steps below are proved to keep.
OwnEnv(c) == call[c].kind \in EnvKind /\ OfThisView(call[c])
Parts ==
  /\ NoneOfFuture
  /\ DeleteOfShown
  /\ ShowsItsOwn
  /\ envLoading <=> \E c \in Call : OwnEnv(c)
  /\ \A c, d \in Call : OwnEnv(c) /\ OwnEnv(d) => c = d
  /\ ViewIsHonest

\* The invariant is its types and its parts.
LEMMA PartsOfIInv == IInv <=> TypeOK /\ Parts
BY DEF IInv, Parts, EnvBusy, OwnEnvCalls, OwnEnv, OfThisView

\* When no deployment is selected, and nothing of a view is left, only the ages
\* of the requests matter.
LEMMA NothingSelected ==
  ASSUME selected' = None, Fresh,
         \A f \in Fetch : fetch'[f].view <= mounted',
         \A c \in Call : call'[c].view <= mounted'
  PROVE  Parts'
BY DEF Fresh, Parts, NoneOfFuture, DeleteOfShown, Shown, ShowsItsOwn, OwnEnv, OfThisView, ViewIsHonest

\* The steps that leave requests, selection and view alone keep the invariant.
LEMMA QuietKeeps ==
  ASSUME Parts, UNCHANGED <<selected, mounted, fetch, call, detail, loading, error, envLoading>>,
         deleteOpen' => Shown
  PROVE  Parts'
BY DEF Parts, NoneOfFuture, DeleteOfShown, Shown, ShowsItsOwn, OwnEnv, OfThisView, ViewIsHonest

\* A view that is mounted asks for its deployment, and no request of a view
\* before it is taken for its own.
LEMMA SelectKeeps ==
  ASSUME TypeOK, Parts, NEW n \in Name, NEW f \in Fetch, Select(n, f)
  PROVE  Parts'
<1> USE DetailBounds, NoneIsNoName
<1>1. /\ selected' = n /\ n # None
      /\ mounted \in Nat /\ mounted' = mounted + 1
      /\ call' = call
      /\ detail' = NoDetail /\ loading' = TRUE /\ error' = FALSE /\ deleteOpen' = FALSE /\ envLoading' = FALSE
  BY DEF Select, Fresh, TypeOK
<1>2. /\ \A g \in Fetch : g # f => fetch'[g] = fetch[g] /\ fetch[g].view <= mounted
      /\ fetch'[f] = [at |-> "asked", view |-> mounted + 1, name |-> n, row |-> Gone]
  BY DEF Select, Asked, TypeOK, Parts, NoneOfFuture
<1>3. \A g \in Fetch : fetch[g].view \in Nat
  BY DEF TypeOK, NoFetch
<1>4. \A c \in Call : call[c].view \in Nat /\ call[c].view <= mounted
  BY DEF TypeOK, NoCall, Parts, NoneOfFuture
<1>5. NoneOfFuture'
  BY <1>1, <1>2, <1>3, <1>4 DEF NoneOfFuture
<1>6. \A c \in Call : ~OfThisView(call[c])'
  BY <1>1, <1>4 DEF OfThisView
<1>7. \A g \in Fetch : OfThisView(fetch[g])' => g = f
  BY <1>1, <1>2, <1>3 DEF OfThisView
<1>8. ShowsItsOwn'
  BY <1>1, <1>2, <1>6, <1>7 DEF ShowsItsOwn
<1>9. OfThisView(fetch[f])' /\ fetch'[f] # NoFetch
  BY <1>1, <1>2 DEF OfThisView, NoFetch
<1>10. ViewIsHonest'
  BY <1>1, <1>9 DEF ViewIsHonest
<1> QED
  BY <1>1, <1>5, <1>6, <1>8, <1>10 DEF Parts, OwnEnv, DeleteOfShown

\* What fetchDetails asks and how it ends.
LEMMA PollKeeps ==
  ASSUME TypeOK, Parts, NEW f \in Fetch, Poll(f)
  PROVE  Parts'
<1>1. UNCHANGED <<selected, mounted, call, detail, loading, error, deleteOpen, envLoading>>
  BY DEF Poll, state
<1>2. /\ \A g \in Fetch : g # f => fetch'[g] = fetch[g]
      /\ fetch[f] = NoFetch
      /\ fetch'[f] = [at |-> "asked", view |-> mounted, name |-> selected, row |-> Gone]
  BY DEF Poll, Asked, TypeOK
<1>3. mounted \in Nat
  BY DetailBounds DEF TypeOK
<1>4. NoneOfFuture'
  BY <1>1, <1>2, <1>3 DEF Parts, NoneOfFuture
<1>5. ShowsItsOwn'
  BY <1>1, <1>2 DEF Parts, ShowsItsOwn, OfThisView
<1>6. ViewIsHonest'
  BY <1>1, <1>2 DEF Parts, ViewIsHonest, OfThisView, NoFetch
<1> QED
  BY <1>1, <1>4, <1>5, <1>6 DEF Parts, DeleteOfShown, Shown, OwnEnv, OfThisView

\* An answer of the daemon stays that of its view.
LEMMA AnswerKeeps ==
  ASSUME TypeOK, Parts, NEW f \in Fetch, Answer(f)
  PROVE  Parts'
<1>1. UNCHANGED <<selected, mounted, call, detail, loading, error, deleteOpen, envLoading>>
  BY DEF Answer, state
<1>2. fetch[f].at = "asked" /\ fetch[f] # NoFetch
  BY DEF Answer, NoFetch
<1>3. fetch[f] \in [at : {"asked", "answered"}, view : 0..MaxView, name : Name, row : Row]
  BY <1>2 DEF TypeOK
<1>4. \A g \in Fetch : g # f => fetch'[g] = fetch[g]
  BY DEF Answer, TypeOK
<1>5. fetch'[f].at = "answered" /\ fetch'[f].view = fetch[f].view /\ fetch'[f].name = fetch[f].name
  <2>1. fetch'[f] = [fetch[f] EXCEPT !.at = "answered", !.row = row[fetch[f].name]]
    BY DEF Answer, TypeOK
  <2> QED
    BY <1>3, <2>1
<1>6. fetch'[f] # NoFetch
  BY <1>5 DEF NoFetch
<1>7. NoneOfFuture' /\ ShowsItsOwn' /\ ViewIsHonest'
  BY <1>1, <1>2, <1>4, <1>5, <1>6 DEF Parts, NoneOfFuture, ShowsItsOwn, ViewIsHonest, OfThisView
<1> QED
  BY <1>1, <1>7 DEF Parts, DeleteOfShown, Shown, OwnEnv, OfThisView

\* A fetch that ends says something of the view that asked, and only of that one.
LEMMA EndedFetchKeeps ==
  ASSUME TypeOK, Parts, NEW f \in Fetch,
         fetch' = [fetch EXCEPT ![f] = NoFetch],
         UNCHANGED <<selected, mounted, deleteOpen, envLoading, call>>,
         \/ ~OfThisView(fetch[f]) /\ UNCHANGED <<detail, loading, error>>
         \/ OfThisView(fetch[f]) /\ loading' = FALSE /\ error' = TRUE /\ UNCHANGED detail
         \/ /\ OfThisView(fetch[f]) /\ fetch[f] # NoFetch /\ fetch[f].name \in Name
            /\ loading' = FALSE /\ error' = FALSE
            /\ detail' = [name |-> fetch[f].name, row |-> fetch[f].row]
  PROVE  Parts'
<1>1. /\ \A g \in Fetch : g # f => fetch'[g] = fetch[g]
      /\ fetch'[f] = NoFetch /\ NoFetch.view = 0
  BY DEF TypeOK, NoFetch
<1>2. mounted \in Nat
  BY DetailBounds DEF TypeOK
<1>3. NoneOfFuture'
  BY <1>1, <1>2 DEF Parts, NoneOfFuture
<1>4. \A c \in Call : OwnEnv(c)' <=> OwnEnv(c)
  BY DEF OwnEnv, OfThisView
<1>5. CASE ~OfThisView(fetch[f]) /\ UNCHANGED <<detail, loading, error>>
  <2>1. ShowsItsOwn' /\ ViewIsHonest'
    BY <1>1, <1>5 DEF Parts, ShowsItsOwn, ViewIsHonest, OfThisView
  <2> QED
    BY <1>3, <1>4, <1>5, <2>1 DEF Parts, DeleteOfShown, Shown
<1>6. CASE OfThisView(fetch[f]) /\ loading' = FALSE /\ error' = TRUE /\ UNCHANGED detail
  <2>1. ShowsItsOwn' /\ ViewIsHonest'
    BY <1>1, <1>6 DEF Parts, ShowsItsOwn, ViewIsHonest, OfThisView
  <2> QED
    BY <1>3, <1>4, <1>6, <2>1 DEF Parts, DeleteOfShown, Shown
<1>7. CASE /\ OfThisView(fetch[f]) /\ fetch[f] # NoFetch /\ fetch[f].name \in Name
           /\ loading' = FALSE /\ error' = FALSE
           /\ detail' = [name |-> fetch[f].name, row |-> fetch[f].row]
  <2>1. detail' # NoDetail /\ detail'.name = fetch[f].name
    BY <1>7, NoneIsNoName DEF NoDetail
  <2>2. fetch[f].name = selected /\ selected # None
    BY <1>7 DEF Parts, ShowsItsOwn, OfThisView
  <2>3. ShowsItsOwn' /\ ViewIsHonest'
    BY <1>1, <1>7, <2>1, <2>2 DEF Parts, ShowsItsOwn, ViewIsHonest, OfThisView
  <2> QED
    BY <1>3, <1>4, <2>1, <2>2, <2>3 DEF Parts, DeleteOfShown, Shown
<1> QED
  BY <1>5, <1>6, <1>7

\* So does the answer that arrives
LEMMA ArriveKeeps ==
  ASSUME TypeOK, Parts, NEW f \in Fetch, Arrive(f)
  PROVE  Parts'
<1>1. fetch[f] # NoFetch /\ fetch[f].name \in Name
  BY DEF Arrive, TypeOK, NoFetch
<1>2. CASE OfThisView(fetch[f])
  BY <1>1, <1>2, EndedFetchKeeps DEF Arrive, Failed
<1>3. CASE ~OfThisView(fetch[f])
  BY <1>3, EndedFetchKeeps DEF Arrive
<1> QED
  BY <1>2, <1>3

\* and the request that fails.
LEMMA FetchFailsKeeps ==
  ASSUME TypeOK, Parts, NEW f \in Fetch, FetchFails(f)
  PROVE  Parts'
<1>1. CASE OfThisView(fetch[f])
  BY <1>1, EndedFetchKeeps DEF FetchFails, Failed
<1>2. CASE ~OfThisView(fetch[f])
  BY <1>2, EndedFetchKeeps DEF FetchFails
<1> QED
  BY <1>1, <1>2

\* A request that is no change of the environment is nobody's but that of the
\* deployment that is shown, or of the list.
LEMMA AskKeeps ==
  ASSUME TypeOK, Parts, NEW c \in Call, NEW k \in Kind \ EnvKind, NEW n \in Name,
         NEW v \in {0, mounted}, Ask(c, k, v, n), v = mounted /\ selected # None => n = selected,
         UNCHANGED <<selected, mounted, fetch, detail, loading, error, envLoading>>,
         deleteOpen' => Shown
  PROVE  Parts'
<1>1. /\ \A d \in Call : d # c => call'[d] = call[d]
      /\ call[c] = NoCall
      /\ call'[c] = [kind |-> k, view |-> v, name |-> n]
  BY DEF Ask, TypeOK
<1>2. mounted \in Nat
  BY DetailBounds DEF TypeOK
<1>3. NoneOfFuture'
  BY <1>1, <1>2 DEF Parts, NoneOfFuture
<1>4. ShowsItsOwn'
  BY <1>1 DEF Parts, ShowsItsOwn, OfThisView
<1>5. \A d \in Call : OwnEnv(d)' <=> OwnEnv(d)
  BY <1>1 DEF OwnEnv, OfThisView, NoCall, EnvKind
<1>6. ViewIsHonest' /\ DeleteOfShown'
  BY DEF Parts, ViewIsHonest, OfThisView, DeleteOfShown, Shown
<1> QED
  BY <1>3, <1>4, <1>5, <1>6 DEF Parts

\* The buttons and the menus of the list.
LEMMA ActKeeps ==
  ASSUME TypeOK, Parts, NEW c \in Call, Act(c)
  PROVE  Parts'
<1>1. /\ "action" \in Kind \ EnvKind
      /\ UNCHANGED <<selected, mounted, fetch, detail, loading, error, envLoading, deleteOpen>>
      /\ deleteOpen => Shown
  BY DEF Act, state, Kind, EnvKind, Parts, DeleteOfShown
<1>2. CASE Shown /\ Ask(c, "action", mounted, detail.name)
  <2>1. detail.name \in Name /\ detail.name = selected
    BY <1>2 DEF Shown, TypeOK, Parts, ShowsItsOwn
  <2> QED
    BY <1>1, <1>2, <2>1, AskKeeps
<1>3. CASE selected = None /\ \E n \in Name : Ask(c, "action", 0, n)
  BY <1>1, <1>3, AskKeeps
<1> QED
  BY <1>2, <1>3 DEF Act

\* The confirmation of a delete.
LEMMA CloseDeleteKeeps ==
  ASSUME TypeOK, Parts, CloseDelete
  PROVE  Parts'
<1>1. /\ UNCHANGED <<selected, mounted, fetch, detail, loading, error, envLoading>>
      /\ deleteOpen' = FALSE /\ Shown
  BY DEF CloseDelete, Parts, DeleteOfShown
<1>2. CASE UNCHANGED call
  BY <1>1, <1>2, QuietKeeps
<1>3. CASE \E c \in Call : Ask(c, "delete", mounted, detail.name)
  <2>1. "delete" \in Kind \ EnvKind
    BY DEF Kind, EnvKind
  <2>2. detail.name \in Name /\ detail.name = selected
    BY <1>1 DEF Shown, TypeOK, Parts, ShowsItsOwn
  <2> QED
    BY <1>1, <1>3, <2>1, <2>2, AskKeeps
<1> QED
  BY <1>2, <1>3 DEF CloseDelete

\* A change of the environment finds none under way.
LEMMA ChangeEnvKeeps ==
  ASSUME TypeOK, Parts, NEW c \in Call, ChangeEnv(c)
  PROVE  Parts'
<1>1. /\ UNCHANGED <<selected, mounted, fetch, detail, loading, error, deleteOpen>>
      /\ envLoading' = TRUE /\ envLoading = FALSE /\ Shown
  BY DEF ChangeEnv, TypeOK
<1>2. PICK k \in EnvKind : Ask(c, k, mounted, selected)
  BY DEF ChangeEnv
<1>3. /\ \A d \in Call : d # c => call'[d] = call[d]
      /\ call'[c] = [kind |-> k, view |-> mounted, name |-> selected]
  BY <1>2 DEF Ask, TypeOK
<1>4. mounted \in Nat
  BY DetailBounds DEF TypeOK
<1>5. NoneOfFuture'
  BY <1>1, <1>3, <1>4 DEF Parts, NoneOfFuture
<1>6. ShowsItsOwn'
  BY <1>1, <1>3 DEF Parts, ShowsItsOwn, OfThisView
<1>7. OwnEnv(c)' /\ \A d \in Call : d # c => ~OwnEnv(d)'
  BY <1>1, <1>3 DEF Parts, OwnEnv, OfThisView, Shown
<1>8. ViewIsHonest' /\ DeleteOfShown'
  BY <1>1 DEF Parts, ViewIsHonest, OfThisView, DeleteOfShown, Shown
<1> QED
  BY <1>1, <1>5, <1>6, <1>7, <1>8 DEF Parts

\* A request that ends ends the wait that it began, and no other one.
LEMMA EndedCallKeeps ==
  ASSUME TypeOK, Parts, NEW c \in Call,
         call' = [call EXCEPT ![c] = NoCall], EnvSettled(call[c]),
         UNCHANGED <<selected, mounted, fetch, detail, loading, error, deleteOpen>>
  PROVE  Parts'
<1>1. /\ \A d \in Call : d # c => call'[d] = call[d]
      /\ call'[c] = NoCall /\ NoCall.view = 0 /\ NoCall.kind \notin EnvKind
  BY DEF TypeOK, NoCall, EnvKind
<1>2. mounted \in Nat
  BY DetailBounds DEF TypeOK
<1>3. NoneOfFuture'
  BY <1>1, <1>2 DEF Parts, NoneOfFuture
<1>4. ShowsItsOwn'
  BY <1>1 DEF Parts, ShowsItsOwn, OfThisView
<1>5. ViewIsHonest' /\ DeleteOfShown'
  BY DEF Parts, ViewIsHonest, OfThisView, DeleteOfShown, Shown
<1>6. ~OwnEnv(c)' /\ \A d \in Call : d # c => (OwnEnv(d)' <=> OwnEnv(d))
  BY <1>1 DEF OwnEnv, OfThisView
<1>7. CASE OwnEnv(c)
  <2>1. envLoading' = FALSE
    BY <1>7 DEF EnvSettled, OwnEnv
  <2>2. \A d \in Call : ~OwnEnv(d)'
    BY <1>6, <1>7 DEF Parts
  <2> QED
    BY <1>3, <1>4, <1>5, <2>1, <2>2 DEF Parts
<1>8. CASE ~OwnEnv(c)
  <2>1. envLoading' = envLoading
    BY <1>8 DEF EnvSettled, OwnEnv
  <2>2. \A d \in Call : OwnEnv(d)' <=> OwnEnv(d)
    BY <1>6, <1>8
  <2> QED
    BY <1>3, <1>4, <1>5, <2>1, <2>2 DEF Parts
<1> QED
  BY <1>7, <1>8

\* An accepted delete leaves whatever view is shown by then.
LEMMA AcceptedKeeps ==
  ASSUME TypeOK, Parts, NEW c \in Call, Accepted(c)
  PROVE  Parts'
<1>1. CASE call[c].kind = "delete"
  <2>1. selected' = None /\ Fresh /\ UNCHANGED <<mounted, fetch>>
    BY <1>1 DEF Accepted
  <2>2. \A d \in Call : call'[d].view <= mounted'
    BY <2>1, DetailBounds DEF Accepted, TypeOK, NoCall, Parts, NoneOfFuture
  <2> QED
    BY <2>1, <2>2, NothingSelected DEF Parts, NoneOfFuture
<1>2. CASE call[c].kind # "delete"
  BY <1>2, EndedCallKeeps DEF Accepted
<1> QED
  BY <1>1, <1>2

\* Every step keeps the invariant.
LEMMA NextIInv == IInv /\ [Next]_vars => IInv'
<1>0. IInv' <=> TypeOK' /\ Parts'
  BY PartsOfIInv, PTL
<1> SUFFICES ASSUME TypeOK, Parts, [Next]_vars PROVE Parts'
  BY <1>0, NextType, PartsOfIInv DEF IInv
<1> USE DEF Parts, DeleteOfShown
<1>1. CASE UNCHANGED vars
  BY <1>1, QuietKeeps DEF vars, state
<1>2. ASSUME NEW n \in Name, Change(n) PROVE Parts'
  BY <1>2, QuietKeeps DEF Change, state
<1>3. ASSUME NEW n \in Name, NEW f \in Fetch, Select(n, f) PROVE Parts'
  BY <1>3, SelectKeeps
<1>4. CASE Leave
  BY <1>4, NothingSelected DEF Leave, NoneOfFuture
<1>5. ASSUME NEW f \in Fetch, Poll(f) \/ Answer(f) \/ Arrive(f) \/ FetchFails(f) PROVE Parts'
  BY <1>5, PollKeeps, AnswerKeeps, ArriveKeeps, FetchFailsKeeps
<1>6. ASSUME NEW c \in Call, Act(c) \/ ChangeEnv(c) \/ Accepted(c) PROVE Parts'
  BY <1>6, ActKeeps, ChangeEnvKeeps, AcceptedKeeps
<1>7. ASSUME NEW c \in Call, Rejected(c) PROVE Parts'
  BY <1>7, EndedCallKeeps DEF Rejected
<1>8. CASE OpenDelete
  BY <1>8, QuietKeeps DEF OpenDelete
<1>9. CASE CloseDelete
  BY <1>9, CloseDeleteKeeps
<1>10. CASE ViewLog \/ CloseLog
  BY <1>10, QuietKeeps DEF ViewLog, CloseLog, state
<1> QED
  BY <1>1, <1>2, <1>3, <1>4, <1>5, <1>6, <1>7, <1>8, <1>9, <1>10 DEF Next

\* Without a view and without requests there is nothing to be wrong.
LEMMA InitIInv == Init => IInv
<1> SUFFICES ASSUME Init PROVE TypeOK /\ Parts
  BY PartsOfIInv
<1> USE DetailBounds, NoneIsNoName DEF Init
<1>1. TypeOK
  <2>1. row \in [Name -> Row] /\ changes \in 0..MaxChange /\ mounted \in 0..MaxView /\ errors \in 0..MaxError
    <3>1. 1 \in Row
      BY SomeRow DEF Row
    <3> QED
      BY <3>1
  <2>2. fetch \in [Fetch -> FetchSet] /\ call \in [Call -> CallSet]
    BY DEF FetchSet, CallSet
  <2> QED
    BY <2>1, <2>2 DEF TypeOK, NameOrNone, FetchSet, CallSet
<1>2. Parts
  BY DEF Parts, NoneOfFuture, DeleteOfShown, ShowsItsOwn, OwnEnv, OfThisView, ViewIsHonest, NoFetch, NoCall
<1> QED
  BY <1>1, <1>2

-----------------------------------------------------------------------------
(* The results. *)

\* The invariant holds in every reachable state.
THEOREM Invariance == Spec => []IInv
BY InitIInv, NextIInv, PTL DEF Spec

\* Every variable keeps its type.
THEOREM TypeCorrect == Spec => []TypeOK
<1>1. IInv => TypeOK
  BY DEF IInv
<1> QED
  BY <1>1, Invariance, PTL

\* A view shows, asks for and deletes the deployment that is selected, however
\* many answers for views before it arrive late.
THEOREM OwnDeploymentOnly == Spec => []ShowsItsOwn
<1>1. IInv => ShowsItsOwn
  BY DEF IInv
<1> QED
  BY <1>1, Invariance, PTL

\* The editor of the environment waits exactly while one request of its view is
\* under way.
THEOREM EnvOneAtATime == Spec => []EnvBusy
<1>1. IInv => EnvBusy
  BY DEF IInv
<1> QED
  BY <1>1, Invariance, PTL

\* A view without a deployment waits for an answer or says what is wrong.
THEOREM HonestView == Spec => []ViewIsHonest
<1>1. IInv => ViewIsHonest
  BY DEF IInv
<1> QED
  BY <1>1, Invariance, PTL
=============================================================================
