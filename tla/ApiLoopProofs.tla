---------------------------- MODULE ApiLoopProofs ----------------------------
(***************************************************************************)
(* Proofs about event loops that wait for row locks, for every set of      *)
(* requests, background tasks, processes and rows.                         *)
(*                                                                         *)
(* A loop stops only for a coroutine that waits for a row or commits, and  *)
(* a row is kept only by one that will still commit.  So the only way into *)
(* a circle is over a handler that has returned and whose commit the loop  *)
(* has yet to schedule: it needs a loop that waits for such a handler of   *)
(* its own, or two loops with handlers that wait for each other's.         *)
(***************************************************************************)
EXTENDS ApiLoop, TLAPS

\* One process serves the requests.
OneApi == \A g, h \in Handlers : ProcessOf[g] = ProcessOf[h]

\* In one process nobody wants the row that a request writes.
RowsApart ==
  \A h \in Handlers : \A x \in Coroutines \ {h} :
    ProcessOf[x] = ProcessOf[h] => RowOf[x] # RowOf[h]

\* A loop has stopped for a row that is kept by a handler of its own, whose
\* commit is still to be scheduled.
LoopWaitsForItself ==
  \E x \in Coroutines :
    /\ pc[x] = "blocked"
    /\ holder[RowOf[x]] \in Handlers
    /\ pc[holder[RowOf[x]]] = "exiting"
    /\ ProcessOf[holder[RowOf[x]]] = ProcessOf[x]

\* Handlers leave the loop with their transaction open, scopes do not.
Kinds ==
  \A x \in Coroutines :
    /\ pc[x] = "committing" => x \in Scopes
    /\ pc[x] \in {"exiting", "closing", "closed"} => x \in Handlers

\* Who has a row has asked for it and will commit, and the other way round.
HoldersCommit ==
  /\ \A row \in Rows : holder[row] # None =>
       /\ RowOf[holder[row]] = row
       /\ pc[holder[row]] \in {"committing", "exiting", "closing"}
  /\ \A x \in Coroutines :
       pc[x] \in {"committing", "exiting", "closing"} => holder[RowOf[x]] = x

\* Who has stopped a loop waits for a row or commits, and the other way round.
LoopsStopForRows ==
  /\ \A p \in Processes : busy[p] # None => pc[busy[p]] \in {"blocked", "committing"}
  /\ \A x \in Coroutines : pc[x] \in {"blocked", "committing"} => busy[ProcessOf[x]] = x

LoopInv == TypeOK /\ Kinds /\ HoldersCommit /\ LoopsStopForRows

-----------------------------------------------------------------------------

LEMMA InitInv == Init => LoopInv
BY DEF Init, LoopInv, TypeOK, Kinds, HoldersCommit, LoopsStopForRows

\* Where coroutines run and what they write.
LEMMA Places ==
  ASSUME NEW x \in Coroutines
  PROVE  x # None /\ ProcessOf[x] \in Processes /\ RowOf[x] \in Rows
BY ProcessAssumption, RowAssumption, NoneAssumption

\* Run, or Unblock, takes a row and either goes on to its commit or returns.
LEMMA TakesRowStep ==
  ASSUME LoopInv, NEW x \in Coroutines, pc[x] \in {"ready", "blocked"}, TakesRow(x),
         busy[ProcessOf[x]] \in {None, x}
  PROVE  LoopInv'
<1> USE Places DEF LoopInv, TypeOK, TakesRow, GoesTo, RowIsFree
<1>1. x \in Scopes <=> x \notin Handlers
  BY KindsAssumption DEF Coroutines
<1>2. TypeOK'
  OBVIOUS
<1>3. Kinds'
  BY <1>1 DEF Kinds
<1>4. HoldersCommit'
  BY DEF HoldersCommit
<1>5. LoopsStopForRows'
  BY DEF LoopsStopForRows
<1> QED
  BY <1>2, <1>3, <1>4, <1>5

LEMMA InvStep == LoopInv /\ [Next]_vars => LoopInv'
<1> SUFFICES ASSUME LoopInv, [Next]_vars PROVE LoopInv'
  OBVIOUS
<1> USE Places DEF LoopInv, TypeOK, GoesTo
<1>1. ASSUME NEW x \in Coroutines, Arrive(x) PROVE LoopInv'
  BY <1>1 DEF Arrive, Kinds, HoldersCommit, LoopsStopForRows
<1>2. ASSUME NEW x \in Coroutines, Run(x) PROVE LoopInv'
  BY <1>2, TakesRowStep DEF Run, LoopIsFree
<1>3. ASSUME NEW x \in Coroutines, RunBlocks(x) PROVE LoopInv'
  BY <1>3 DEF RunBlocks, LoopIsFree, Kinds, HoldersCommit, LoopsStopForRows
<1>4. ASSUME NEW x \in Coroutines, Unblock(x) PROVE LoopInv'
  BY <1>4, TakesRowStep DEF Unblock, LoopsStopForRows
<1>5. ASSUME NEW x \in Coroutines, ScopeCommits(x) PROVE LoopInv'
  BY <1>5 DEF ScopeCommits, Kinds, HoldersCommit, LoopsStopForRows
<1>6. ASSUME NEW x \in Coroutines, DispatchExit(x) PROVE LoopInv'
  BY <1>6 DEF DispatchExit, LoopIsFree, Kinds, HoldersCommit, LoopsStopForRows
<1>7. ASSUME NEW x \in Coroutines, CloseSession(x) PROVE LoopInv'
  BY <1>7 DEF CloseSession, Kinds, HoldersCommit, LoopsStopForRows
<1>8. ASSUME NEW x \in Coroutines, Respond(x) PROVE LoopInv'
  BY <1>8 DEF Respond, LoopIsFree, Kinds, HoldersCommit, LoopsStopForRows
<1>9. CASE UNCHANGED vars
  BY <1>9 DEF vars, Kinds, HoldersCommit, LoopsStopForRows
<1> QED
  BY <1>1, <1>2, <1>3, <1>4, <1>5, <1>6, <1>7, <1>8, <1>9 DEF Next, Advance

LEMMA AlwaysInv == Spec => []LoopInv
BY InitInv, InvStep, PTL DEF Spec

-----------------------------------------------------------------------------
(***************************************************************************)
(* How long the waits are, when there is one API process and its loop does *)
(* not wait for itself.                                                    *)
(***************************************************************************)

Free == {y \in Coroutines : GoesOn(y)}

\* Waiting for one that is some waits away is one wait more.
LEMMA OneWaitMore ==
  ASSUME NEW S, NEW x \in Coroutines, pc[x] # "idle", Keeper(x) \in S
  PROVE  x \in Nearer(S)
BY DEF Nearer

\* A blocked coroutine waits for nobody, or for one that will commit.
LEMMA Blocked ==
  ASSUME LoopInv, NEW x \in Coroutines, pc[x] = "blocked"
  PROVE  \/ x \in Nearer(Free)
         \/ /\ Keeper(x) \in Handlers /\ pc[Keeper(x)] = "exiting"
            /\ Keeper(x) = holder[RowOf[x]]
<1> DEFINE h == holder[RowOf[x]]
<1>1. Keeper(x) = h /\ h \in Coroutines \cup {None}
  BY Places DEF Keeper, LoopInv, TypeOK
<1>2. CASE h = None
  BY <1>1, <1>2 DEF Free, GoesOn, Nearer
<1>3. CASE h # None
  <2>1. h \in Coroutines /\ pc[h] \in {"committing", "exiting", "closing"}
    BY <1>1, <1>3, Places DEF LoopInv, HoldersCommit
  <2>2. CASE pc[h] \in {"committing", "closing"}
    <3>1. h \in Free
      BY <2>1, <2>2 DEF Free, GoesOn
    <3> QED
      BY <1>1, <3>1, OneWaitMore
  <2>3. CASE pc[h] = "exiting"
    BY <1>1, <2>1, <2>3 DEF LoopInv, Kinds
  <2> QED
    BY <2>1, <2>2, <2>3
<1> QED
  BY <1>2, <1>3

\* One whose loop has stopped is one wait further from the end than the
\* coroutine that has stopped it.
LEMMA Stopped ==
  ASSUME LoopInv, NEW x \in Coroutines, pc[x] \notin {"idle", "blocked"}
  PROVE  \/ x \in Nearer(Free)
         \/ /\ Keeper(x) \in Coroutines /\ pc[Keeper(x)] = "blocked"
            /\ ProcessOf[Keeper(x)] = ProcessOf[x]
<1> DEFINE y == busy[ProcessOf[x]]
<1>1. Keeper(x) = y /\ y \in Coroutines \cup {None}
  BY Places DEF Keeper, LoopInv, TypeOK
<1>2. CASE y = None
  BY <1>1, <1>2 DEF Free, GoesOn, Nearer
<1>3. CASE y # None
  <2>1. y \in Coroutines /\ pc[y] \in {"blocked", "committing"} /\ ProcessOf[y] = ProcessOf[x]
    BY <1>1, <1>3, Places DEF LoopInv, TypeOK, LoopsStopForRows
  <2>2. CASE pc[y] = "committing"
    <3>1. y \in Free
      BY <2>1, <2>2 DEF Free, GoesOn
    <3> QED
      BY <1>1, <3>1, OneWaitMore
  <2>3. CASE pc[y] = "blocked"
    BY <1>1, <2>1, <2>3
  <2> QED
    BY <2>1, <2>2, <2>3
<1> QED
  BY <1>2, <1>3

LEMMA WaitsAreBounded ==
  ASSUME LoopInv, OneApi, ~LoopWaitsForItself
  PROVE  WaitsEnd
<1> DEFINE N1 == Nearer(Free)
           N2 == Nearer(N1)
           N3 == Nearer(N2)
           N4 == Nearer(N3)
<1>1. Free \subseteq N1 /\ N1 \subseteq N2 /\ N2 \subseteq N3 /\ N3 \subseteq N4
  BY DEF Nearer
\* Where requests are served, a blocked coroutine waits for another process.
<1>2. ASSUME NEW x \in Coroutines, pc[x] = "blocked", NEW h \in Handlers,
             ProcessOf[x] = ProcessOf[h]
      PROVE  x \in N1
  BY <1>2, Blocked DEF OneApi, LoopWaitsForItself, Coroutines
<1>3. ASSUME NEW h \in Handlers, pc[h] = "exiting"
      PROVE  h \in N2
  <2>1. h \in Coroutines
    BY DEF Coroutines
  <2>2. \/ h \in N1
        \/ /\ Keeper(h) \in Coroutines /\ pc[Keeper(h)] = "blocked"
           /\ ProcessOf[Keeper(h)] = ProcessOf[h]
    BY <1>3, <2>1, Stopped
  <2>3. h \in N1 \/ Keeper(h) \in N1
    BY <1>2, <2>2
  <2> QED
    BY <1>1, <1>3, <2>1, <2>3, OneWaitMore
<1>4. ASSUME NEW x \in Coroutines, pc[x] = "blocked"
      PROVE  x \in N3
  <2>1. x \in N1 \/ Keeper(x) \in N2
    BY <1>3, <1>4, Blocked
  <2> QED
    BY <1>1, <1>4, <2>1, OneWaitMore
<1>5. ASSUME NEW x \in Coroutines, pc[x] \notin {"idle", "blocked"}
      PROVE  x \in N4
  <2>1. x \in N1 \/ Keeper(x) \in N3
    BY <1>4, <1>5, Stopped
  <2> QED
    BY <1>1, <1>5, <2>1, OneWaitMore
<1> QED
  BY <1>1, <1>4, <1>5 DEF WaitsEnd, Free

\* A loop that waits for itself waits for the row of one of its own requests.
LEMMA ApartLoopsDoNot ==
  ASSUME LoopInv, RowsApart
  PROVE  ~LoopWaitsForItself
<1> SUFFICES ASSUME NEW x \in Coroutines, pc[x] = "blocked", holder[RowOf[x]] \in Handlers,
                    ProcessOf[holder[RowOf[x]]] = ProcessOf[x]
             PROVE  FALSE
  BY DEF LoopWaitsForItself
<1>1. /\ holder[RowOf[x]] # None /\ RowOf[holder[RowOf[x]]] = RowOf[x]
      /\ pc[holder[RowOf[x]]] # "blocked"
  BY Places DEF LoopInv, HoldersCommit, Coroutines
<1> QED
  BY <1>1 DEF RowsApart

\* The loop that would schedule the commit waits for it.
LEMMA LoopWaitsOn ==
  ASSUME LoopInv, [Next]_vars, LoopWaitsForItself
  PROVE  LoopWaitsForItself'
<1>1. PICK x \in Coroutines :
        /\ pc[x] = "blocked"
        /\ holder[RowOf[x]] \in Handlers
        /\ pc[holder[RowOf[x]]] = "exiting"
        /\ ProcessOf[holder[RowOf[x]]] = ProcessOf[x]
  BY DEF LoopWaitsForItself
<1> DEFINE h == holder[RowOf[x]]
<1>2. h \in Coroutines /\ h # None /\ RowOf[h] = RowOf[x]
  BY <1>1, Places DEF Coroutines, LoopInv, HoldersCommit
<1>3. busy[ProcessOf[x]] = x /\ x # None
  BY <1>1, Places DEF LoopInv, LoopsStopForRows
<1>4. ASSUME NEW y \in Coroutines, NEW s, GoesTo(y, s), y # x, y # h,
             holder'[RowOf[x]] = holder[RowOf[x]]
      PROVE  LoopWaitsForItself'
  <2>1. pc'[x] = "blocked" /\ pc'[h] = "exiting"
    BY <1>1, <1>2, <1>4 DEF GoesTo, LoopInv, TypeOK
  <2> QED
    BY <1>1, <1>4, <2>1 DEF LoopWaitsForItself
\* Neither the coroutine that waits nor the handler can go on ...
<1>5. ASSUME NEW y \in Coroutines, Arrive(y) \/ Advance(y)
      PROVE  y # x /\ y # h
  BY <1>1, <1>2, <1>3, <1>5 DEF Arrive, Advance, Run, RunBlocks, Unblock, ScopeCommits,
     DispatchExit, CloseSession, Respond, LoopIsFree, RowIsFree, TakesRow
\* ... and nobody else takes the row away.
<1>6. ASSUME NEW y \in Coroutines, y # h, TakesRow(y) \/ ScopeCommits(y) \/ CloseSession(y)
      PROVE  holder'[RowOf[x]] = holder[RowOf[x]]
  <2>1. RowOf[y] # RowOf[x]
    BY <1>2, <1>6 DEF LoopInv, HoldersCommit, TakesRow, RowIsFree, ScopeCommits, CloseSession
  <2> QED
    BY <1>6, <2>1, Places DEF LoopInv, TypeOK, TakesRow, ScopeCommits, CloseSession
<1>7. ASSUME NEW y \in Coroutines, Arrive(y) \/ Advance(y)
      PROVE  LoopWaitsForItself'
  <2>1. y # x /\ y # h
    BY <1>5, <1>7
  <2>2. CASE Run(y) \/ Unblock(y)
    <3>1. PICK s \in {"exiting", "committing"} : TakesRow(y) /\ GoesTo(y, s)
      BY <2>2 DEF Run, Unblock, TakesRow
    <3> QED
      BY <1>4, <1>6, <2>1, <3>1
  <2>3. CASE ScopeCommits(y) \/ CloseSession(y)
    BY <1>4, <1>6, <2>1, <2>3 DEF ScopeCommits, CloseSession
  <2>4. CASE Arrive(y) \/ RunBlocks(y) \/ DispatchExit(y) \/ Respond(y)
    BY <1>4, <2>1, <2>4 DEF Arrive, RunBlocks, DispatchExit, Respond
  <2> QED
    BY <1>7, <2>2, <2>3, <2>4 DEF Advance
<1>8. CASE UNCHANGED vars
  BY <1>1, <1>8 DEF vars, LoopWaitsForItself
<1> QED
  BY <1>7, <1>8 DEF Next

-----------------------------------------------------------------------------

\* Each row and each loop is kept by a coroutine of its own, whatever waits.
THEOREM TypeCorrect == Spec => []TypeOK
BY AlwaysInv, PTL DEF LoopInv

\* With one API process and any number of workers, watchers and requests, there
\* is one way only to stop a loop for good: a coroutine of the API wants the row
\* of a request whose handler has returned before get_db has committed.
THEOREM HangsAreOfOneLoop ==
  ASSUME OneApi
  PROVE  Spec => [](~LoopWaitsForItself => WaitsEnd)
<1>1. LoopInv => (~LoopWaitsForItself => WaitsEnd)
  BY WaitsAreBounded
<1> QED
  BY <1>1, AlwaysInv, PTL

\* From there is no way back: the loop that would schedule the commit stays where it
\* is, and none of its requests is answered any more.
THEOREM HangsLast ==
  Spec => [](LoopWaitsForItself => []LoopWaitsForItself)
<1>1. LoopInv /\ [Next]_vars /\ LoopWaitsForItself => LoopWaitsForItself'
  BY LoopWaitsOn
<1> QED
  BY <1>1, AlwaysInv, PTL DEF Spec

\* So the waits of the API and its workers always come to an end if what a request
\* writes is written by no other coroutine of the API at the time, whichever rows
\* the workers want: a worker's session_scope commits without its loop.
THEOREM ApartWaitsEnd ==
  ASSUME OneApi, RowsApart
  PROVE  Spec => []WaitsEnd
<1>1. LoopInv => WaitsEnd
  BY WaitsAreBounded, ApartLoopsDoNot
<1> QED
  BY <1>1, AlwaysInv, PTL

=============================================================================
