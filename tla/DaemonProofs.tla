------------------------------ MODULE DaemonProofs ------------------------------
(***************************************************************************)
(* Machine-checked proofs about Daemon, for any number of units, of runs   *)
(* in the foreground and of failures.                                      *)
(***************************************************************************)
EXTENDS Daemon, TLAPS

-----------------------------------------------------------------------------
(* The type invariant, whose third conjunct is the one that several         *)
(* processes could break: the path names no process that has ended.         *)

\* The type invariant holds when no process runs.
LEMMA InitTypeOK == Init => TypeOK
BY DaemonBounds, PathIsNoProcess DEF Init, TypeOK, Bound, Process

\* Every step of a process keeps the types.
LEMMA NextTypeOK == TypeOK /\ [Next]_vars => TypeOK'
<1> SUFFICES ASSUME TypeOK, [Next]_vars PROVE TypeOK'
  OBVIOUS
<1> USE KindsDiffer, PathIsNoProcess DEF TypeOK, Bound, Goto, Exit
<1>1. CASE UNCHANGED vars
  BY <1>1 DEF vars
<1>2. ASSUME NEW p \in Process, Boot(p) PROVE TypeOK'
  BY <1>2 DEF Boot
<1>3. ASSUME NEW p \in Process, Restart(p) PROVE TypeOK'
  BY <1>3 DEF Restart
<1>4. ASSUME NEW p \in Process, Remove(p) PROVE TypeOK'
  BY <1>4 DEF Remove
<1>5. ASSUME NEW p \in Process, Listen(p) PROVE TypeOK'
  <2>1. CASE path = "nobody"
    BY <1>5, <2>1 DEF Listen, Process
  <2>2. CASE path # "nobody"
    BY <1>5, <2>2 DEF Listen, Process
  <2> QED
    BY <2>1, <2>2
<1>6. ASSUME NEW p \in Process, Chmod(p) PROVE TypeOK'
  BY <1>6 DEF Chmod
<1>7. ASSUME NEW p \in Process, OpenStore(p) PROVE TypeOK'
  BY <1>7 DEF OpenStore
<1>8. ASSUME NEW p \in Process, OpenFails(p) PROVE TypeOK'
  <2>1. CASE p \in Foreground
    BY <1>8, <2>1, DaemonBounds DEF OpenFails, Fail, Process
  <2>2. CASE p \notin Foreground
    BY <1>8, <2>2, DaemonBounds DEF OpenFails, Fail, Orphaned, Process
  <2> QED
    BY <2>1, <2>2
<1>9. ASSUME NEW p \in Process, ServeFails(p) PROVE TypeOK'
  BY <1>9, DaemonBounds DEF ServeFails, Fail
<1>10. ASSUME NEW p \in Process, Close(p) PROVE TypeOK'
  BY <1>10 DEF Close, Process
<1>11. ASSUME NEW p \in Process, Crash(p) PROVE TypeOK'
  BY <1>11, DaemonBounds DEF Crash, Fail, Orphaned, Process
<1>12. ASSUME NEW p \in Process, Stop(p) PROVE TypeOK'
  BY <1>12 DEF Stop, Orphaned
<1> QED
  BY <1>1, <1>2, <1>3, <1>4, <1>5, <1>6, <1>7, <1>8, <1>9, <1>10, <1>11, <1>12 DEF Next, Run

\* Every variable keeps its type, and a path that names a process names one
\* that still listens, however many others have come and gone.
THEOREM TypeCorrect == Spec => []TypeOK
<1>1. Init => TypeOK
  BY InitTypeOK
<1>2. TypeOK /\ [Next]_vars => TypeOK'
  BY NextTypeOK
<1> QED
  BY <1>1, <1>2, PTL DEF Spec

-----------------------------------------------------------------------------
(* Who takes the path from whom. *)

\* The body of ReachedUntilDisplaced.
Displaced(p) ==
  \/ pc[p] = "close" \/ pc'[p] \in {"off", "failed"}
  \/ \E q \in Process \ {p} : pc[q] \in {"remove", "close"} /\ pc'[q] # pc[q]

KeepsItsPath == \A p \in Process : path = p /\ path' # p => Displaced(p)

\* Only a start, a listener that is closed, or the end of p itself takes the
\* path from p.
LEMMA NextKeeps == TypeOK /\ [Next]_vars => KeepsItsPath
<1> SUFFICES ASSUME TypeOK, [Next]_vars, NEW p \in Process, path = p, path' # p
             PROVE Displaced(p)
  BY DEF KeepsItsPath
<1> USE KindsDiffer, PathIsNoProcess DEF TypeOK, Bound, Goto, Exit, Displaced
<1>1. CASE UNCHANGED vars
  BY <1>1 DEF vars
<1>2. ASSUME NEW q \in Process, Boot(q) \/ Restart(q) \/ Chmod(q) \/ OpenStore(q) \/ ServeFails(q)
      PROVE Displaced(p)
  BY <1>2 DEF Boot, Restart, Chmod, OpenStore, ServeFails
<1>3. ASSUME NEW q \in Process, Remove(q) PROVE Displaced(p)
  \* p listens and q does not, so that they differ
  <2>1. q # p
    BY <1>3 DEF Remove
  <2> QED
    BY <1>3, <2>1 DEF Remove
<1>4. ASSUME NEW q \in Process, Listen(q) PROVE Displaced(p)
  BY <1>4 DEF Listen
<1>5. ASSUME NEW q \in Process, OpenFails(q) PROVE Displaced(p)
  BY <1>5 DEF OpenFails, Orphaned
<1>6. ASSUME NEW q \in Process, Close(q) PROVE Displaced(p)
  BY <1>6 DEF Close
<1>7. ASSUME NEW q \in Process, Crash(q) PROVE Displaced(p)
  BY <1>7 DEF Crash, Orphaned
<1>8. ASSUME NEW q \in Process, Stop(q) PROVE Displaced(p)
  BY <1>8 DEF Stop, Orphaned
<1> QED
  BY <1>1, <1>2, <1>3, <1>4, <1>5, <1>6, <1>7, <1>8 DEF Next, Run

\* The daemon that clients reach stays reachable until it ends, another one
\* starts, or another one closes a listener whose path is no longer its own.
THEOREM OnlyStartsDisplace == Spec => ReachedUntilDisplaced
<1>1. TypeOK /\ [Next]_vars => [KeepsItsPath]_vars
  BY NextKeeps
<1>2. Spec => []TypeOK
  BY TypeCorrect
<1>3. [KeepsItsPath]_vars <=> [\A p \in Process : path = p /\ path' # p =>
        \/ pc[p] = "close" \/ pc'[p] \in {"off", "failed"}
        \/ \E q \in Process \ {p} : pc[q] \in {"remove", "close"} /\ pc'[q] # pc[q]]_vars
  BY DEF KeepsItsPath, Displaced
<1> QED
  BY <1>1, <1>2, <1>3, PTL DEF Spec, ReachedUntilDisplaced
=============================================================================
