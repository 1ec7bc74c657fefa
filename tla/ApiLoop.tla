------------------------------- MODULE ApiLoop -------------------------------
(***************************************************************************)
(* The event loops of the API and worker processes against the row locks   *)
(* of PostgreSQL.  Route handlers (app/main.py) are coroutines that call   *)
(* SQLAlchemy synchronously: a statement that waits for a row stops the    *)
(* whole event loop.  A handler keeps the rows it has locked or flushed    *)
(* until the exit of get_db (app/database.py), a plain generator, which    *)
(* FastAPI runs in a thread pool after the loop has scheduled it.  The     *)
(* login watcher and the worker use session_scope, which flushes and       *)
(* commits without leaving the loop.                                       *)
(*                                                                         *)
(* A row stands for what a coroutine locks: the workspace (create_job), the*)
(* workspace session (update_workspace_login_status) or the auth session,  *)
(* whose last_seen_at every handler writes with its first flush.           *)
(***************************************************************************)
EXTENDS Naturals

CONSTANTS Handlers,     \* requests in flight, answered by a route handler
          Scopes,       \* coroutines that write through session_scope
          Processes,    \* one event loop each
          Rows,
          ProcessOf,    \* ProcessOf[x]: the process that runs coroutine x
          RowOf,        \* RowOf[x]: the row coroutine x writes
          None          \* nobody

Coroutines == Handlers \cup Scopes

ASSUME KindsAssumption == Handlers \cap Scopes = {}
ASSUME ProcessAssumption == ProcessOf \in [Coroutines -> Processes]
ASSUME RowAssumption == RowOf \in [Coroutines -> Rows]
ASSUME NoneAssumption == None \notin Coroutines

VARIABLES pc,       \* where each coroutine is
          holder,   \* holder[row]: whose transaction has locked the row
          busy      \* busy[p]: the coroutine whose database call keeps p's loop

vars == <<pc, holder, busy>>

LoopIsFree(x) == busy[ProcessOf[x]] = None
RowIsFree(x) == holder[RowOf[x]] = None

TypeOK ==
  /\ pc \in [Coroutines -> {"idle", "ready", "blocked", "committing",
                            "exiting", "closing", "closed"}]
  /\ holder \in [Rows -> Coroutines \cup {None}]
  /\ busy \in [Processes -> Coroutines \cup {None}]
  /\ \A p \in Processes : busy[p] # None => ProcessOf[busy[p]] = p

Init ==
  /\ pc = [x \in Coroutines |-> "idle"]
  /\ holder = [row \in Rows |-> None]
  /\ busy = [p \in Processes |-> None]

GoesTo(x, stage) == pc' = [pc EXCEPT ![x] = stage]

\* A request whose dependencies (get_db, get_request_context) the pool has
\* resolved, or a watcher or worker task whose await is over.
Arrive(x) ==
  /\ pc[x] = "idle"
  /\ GoesTo(x, "ready")
  /\ UNCHANGED <<holder, busy>>

\* x has its row.  A handler returns to the loop with the transaction open; a
\* scope keeps the loop up to its commit.
TakesRow(x) ==
  /\ RowIsFree(x)
  /\ holder' = [holder EXCEPT ![RowOf[x]] = x]
  /\ GoesTo(x, IF x \in Handlers THEN "exiting" ELSE "committing")
  /\ busy' = [busy EXCEPT ![ProcessOf[x]] = IF x \in Handlers THEN None ELSE x]

\* The statement finds the row free ...
Run(x) ==
  /\ pc[x] = "ready"
  /\ LoopIsFree(x)
  /\ TakesRow(x)

\* ... or waits for it, and the loop waits with it.
RunBlocks(x) ==
  /\ pc[x] = "ready"
  /\ LoopIsFree(x)
  /\ ~RowIsFree(x)
  /\ busy' = [busy EXCEPT ![ProcessOf[x]] = x]
  /\ GoesTo(x, "blocked")
  /\ UNCHANGED holder

Unblock(x) ==
  /\ pc[x] = "blocked"
  /\ TakesRow(x)

\* session_scope commits (or rolls back) on the loop.
ScopeCommits(x) ==
  /\ pc[x] = "committing"
  /\ holder' = [holder EXCEPT ![RowOf[x]] = None]
  /\ busy' = [busy EXCEPT ![ProcessOf[x]] = None]
  /\ GoesTo(x, "idle")

\* The handler has returned or raised; the loop hands the exit of get_db to
\* the thread pool, some turns later.
DispatchExit(x) ==
  /\ pc[x] = "exiting"
  /\ LoopIsFree(x)
  /\ GoesTo(x, "closing")
  /\ UNCHANGED <<holder, busy>>

\* Deliberate error: an exit that leaves the transaction open.
CloseSessionOnly(x) ==
  /\ pc[x] = "closing"
  /\ GoesTo(x, "closed")
  /\ UNCHANGED <<holder, busy>>

\* The pool thread commits or rolls back, whatever the loop is doing.
CloseSession(x) ==
  /\ pc[x] = "closing"
  /\ holder' = [holder EXCEPT ![RowOf[x]] = None]
  /\ GoesTo(x, "closed")
  /\ UNCHANGED busy

Respond(x) ==
  /\ pc[x] = "closed"
  /\ LoopIsFree(x)
  /\ GoesTo(x, "idle")
  /\ UNCHANGED <<holder, busy>>

\* What a coroutine does between two awaits of its own.
Advance(x) ==
  \/ Run(x) \/ RunBlocks(x) \/ Unblock(x) \/ ScopeCommits(x)
  \/ DispatchExit(x) \/ CloseSession(x) \/ Respond(x)

Next == \E x \in Coroutines : Arrive(x) \/ Advance(x)

Spec == Init /\ [][Next]_vars

\* A loop that is free again and again reaches every callback of its queue,
\* PostgreSQL serves the waiters of a row in order and the pool runs every
\* task, so a coroutine that may go on again and again does.  Each stage has
\* its own way out, so one condition per coroutine says this of all of them.
FairSpec == Spec /\ \A x \in Coroutines : SF_vars(Advance(x))

\* Who keeps a coroutine from going on: the one whose row it wants, or the one
\* that has stopped its loop.
Keeper(x) == IF pc[x] = "blocked" THEN holder[RowOf[x]] ELSE busy[ProcessOf[x]]
GoesOn(x) == pc[x] \in {"committing", "closing"} \/ (pc[x] # "idle" /\ Keeper(x) = None)

\* Nobody waits for himself, by whatever detour over the loops and rows of the
\* processes: who waits is at most four others away from one that goes on.
Nearer(S) == S \cup {x \in Coroutines : pc[x] # "idle" /\ Keeper(x) \in S}
WaitsEnd ==
  \A x \in Coroutines : pc[x] # "idle" =>
    x \in Nearer(Nearer(Nearer(Nearer({y \in Coroutines : GoesOn(y)}))))

\* The API answers every request and every background task gets its turn,
\* although database waits stop whole event loops and the commits that end
\* them are scheduled by those same loops (get_db, create_job).
EveryRequestIsAnswered ==
  \A x \in Coroutines : pc[x] # "idle" ~> pc[x] = "idle"

=============================================================================
