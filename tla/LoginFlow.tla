------------------------------ MODULE LoginFlow ------------------------------
(***************************************************************************)
(* Zalo login: the route handlers and the login watcher of the API process *)
(* (app/main.py), which run on one event loop; the thread that owns        *)
(* Playwright (_PlaywrightThread of app/zalo_driver.py), which executes the*)
(* driver's operations one at a time in the order they were submitted; the *)
(* workspace_sessions rows; and the worker process, which needs the        *)
(* browser profile that the login browser holds.                           *)
(*                                                                         *)
(* An operation touches only what its thread owns, so it is one step.  Its *)
(* result reaches the event loop through call_soon_threadsafe, in order,   *)
(* and a coroutine runs from there to its next await in one step.          *)
(***************************************************************************)
EXTENDS Naturals, Sequences, SequencesExt

CONSTANTS Workspaces,
          Requests,      \* each is one HTTP request
          FaultSets      \* the faults that may occur together

Faults == {"runtime",  \* Playwright fails to start or loses its driver process
           "database", \* the transaction on workspace_sessions fails
           "new page", \* BrowserContext.new_page of the worker fails
           "restart"}  \* the API process is restarted

ASSUME FaultsAssumption == FaultSets \subseteq SUBSET Faults

VARIABLES runtime,   \* the API's Playwright runtime
          page,      \* page[w]: the login browser; "closed" by its user
          memory,    \* memory[w]: _login_state of the API's driver
          profile,   \* profile[w]: who holds the profile lease
          signedIn,  \* signedIn[w]: Zalo accepts the profile's cookies
          row,       \* row[w]: workspace_sessions.login_state
          watcher,   \* watcher[w]: the task in _login_watch_tasks
          tasks,     \* operations submitted to the owner thread
          answers,   \* results on their way to the event loop
          request,   \* the requests
          queued,    \* queued[w]: a job waits for the worker
          job,       \* what the worker does
          faults     \* what may fail in this behaviour

api == <<runtime, page, memory, watcher, tasks, answers, request, faults>>
vars == <<api, profile, signedIn, row, queued, job>>

RuntimeBreaks == "runtime" \in faults
DatabaseFails == "database" \in faults
NewPageFails == "new page" \in faults
ApiRestarts == "restart" \in faults

Kinds == {"status", "start", "stop", "sync"}
Operations == {"active", "check", "start", "stop"}
LoginState == {"idle", "waiting_qr", "authenticated", "error"}
Watcher == "watcher"
Nobody == "nobody"      \* the coroutine that awaited the result is gone
Actors == Requests \cup {Watcher, Nobody}

ASSUME ActorsAssumption == Watcher \notin Requests /\ Nobody \notin Requests

\* What an operation gives back: a status, whether a login browser is open,
\* or an exception.
Results == LoginState \cup {"open", "not_open", "exception"}

TypeOK ==
  /\ runtime \in {"stopped", "ready", "failed"}
  /\ page \in [Workspaces -> {"none", "open", "closed"}]
  /\ memory \in [Workspaces -> LoginState]
  /\ profile \in [Workspaces -> {"free", "login", "worker"}]
  /\ signedIn \in [Workspaces -> BOOLEAN]
  /\ row \in [Workspaces -> LoginState \cup {"expired"}]
  /\ watcher \in [Workspaces -> {"none", "sleeping", "checking", "stopping"}]
  /\ tasks \in Seq([op : Operations, ws : Workspaces, by : Actors])
  /\ answers \in Seq([op : Operations, ws : Workspaces, by : Actors, result : Results])
  /\ request \in [Requests -> [kind : Kinds, ws : Workspaces,
                               pc : {"idle", "waiting", "done"}]]
  /\ queued \in [Workspaces -> BOOLEAN]
  /\ job \in [pc : {"idle", "acquiring", "browsing", "failing"}, ws : Workspaces]
  /\ faults \in FaultSets

\* The first use of a workspace inserts its row as IDLE.
Init ==
  /\ runtime = "stopped"
  /\ page = [w \in Workspaces |-> "none"]
  /\ memory = [w \in Workspaces |-> "idle"]
  /\ profile = [w \in Workspaces |-> "free"]
  /\ signedIn = [w \in Workspaces |-> FALSE]
  /\ row = [w \in Workspaces |-> "idle"]
  /\ watcher = [w \in Workspaces |-> "none"]
  /\ tasks = << >>
  /\ answers = << >>
  /\ request \in [Requests -> [kind : Kinds, ws : Workspaces, pc : {"idle"}]]
  /\ queued = [w \in Workspaces |-> FALSE]
  /\ job \in [pc : {"idle"}, ws : Workspaces]
  /\ faults \in FaultSets

-----------------------------------------------------------------------------
(***************************************************************************)
(* The owner thread.                                                       *)
(***************************************************************************)

Task(op, w, by) == [op |-> op, ws |-> w, by |-> by]

\* _PlaywrightThread.submit: the operation joins the FIFO queue.
Submit(op, w, by) == tasks' = Append(tasks, Task(op, w, by))

\* Deliberate error: the result of the newest operation is delivered first.
AnswerNewestFirst(result) ==
  /\ tasks # << >>
  /\ tasks' = Tail(tasks)
  /\ answers' = IF Head(tasks).by = Nobody THEN answers
                ELSE <<[op |-> Head(tasks).op, ws |-> Head(tasks).ws,
                        by |-> Head(tasks).by, result |-> result]>> \o answers

\* _run: the oldest operation is executed and its future gets the result.
Answer(result) ==
  /\ tasks # << >>
  /\ tasks' = Tail(tasks)
  /\ answers' = IF Head(tasks).by = Nobody THEN answers
                ELSE Append(answers, [op |-> Head(tasks).op, ws |-> Head(tasks).ws,
                                      by |-> Head(tasks).by, result |-> result])

Executes(op, w) == tasks # << >> /\ Head(tasks).op = op /\ Head(tasks).ws = w

\* Deliberate error: the lease is left to the garbage collector.
CloseBrowserOnly(W) ==
  /\ page' = [w \in Workspaces |-> IF w \in W THEN "none" ELSE page[w]]
  /\ UNCHANGED profile

\* _close_login_sync for the workspaces W: page, context and lease go.
CloseLogin(W) ==
  /\ page' = [w \in Workspaces |-> IF w \in W THEN "none" ELSE page[w]]
  /\ profile' = [w \in Workspaces |->
                   IF w \in W /\ profile[w] = "login" THEN "free" ELSE profile[w]]

\* _invalidate_shared_runtime_sync: the browsers of all workspaces close.
InvalidateSharedRuntime ==
  /\ CloseLogin(Workspaces)
  /\ runtime' = "failed"

\* get_playwright_sync: the runtime is there, or is started now.
EnsurePlaywright == runtime' = "ready"
PlaywrightDoesNotStart == RuntimeBreaks /\ runtime # "ready" /\ runtime' = "failed"

-----------------------------------------------------------------------------
(***************************************************************************)
(* The operations: _start_login_sync ...                                   *)
(***************************************************************************)

StartUnavailable(w) ==
  /\ Executes("start", w)
  /\ PlaywrightDoesNotStart
  /\ Answer("exception")
  /\ UNCHANGED <<page, memory, profile>>

StartBusy(w) ==
  /\ Executes("start", w)
  /\ page[w] = "open"
  /\ EnsurePlaywright
  /\ Answer("exception")
  /\ UNCHANGED <<page, memory, profile>>

\* The worker holds the profile.
StartProfileInUse(w) ==
  /\ Executes("start", w)
  /\ page[w] # "open"
  /\ profile[w] = "worker"
  /\ EnsurePlaywright
  /\ CloseLogin({w})
  /\ Answer("exception")
  /\ UNCHANGED memory

\* Whatever a closed browser left is cleaned up, the lease taken, and Chrome
\* shows the login page.
StartOpens(w) ==
  /\ Executes("start", w)
  /\ page[w] # "open"
  /\ profile[w] # "worker"
  /\ EnsurePlaywright
  /\ page' = [page EXCEPT ![w] = "open"]
  /\ profile' = [profile EXCEPT ![w] = "login"]
  /\ memory' = [memory EXCEPT ![w] = "waiting_qr"]
  /\ Answer("waiting_qr")

StartLaunchFails(w) ==
  /\ Executes("start", w)
  /\ page[w] # "open"
  /\ profile[w] # "worker"
  /\ \/ EnsurePlaywright /\ CloseLogin({w})
     \/ RuntimeBreaks /\ InvalidateSharedRuntime
  /\ Answer("exception")
  /\ UNCHANGED memory

(***************************************************************************)
(* ... _check_login_sync ...                                               *)
(***************************************************************************)

CheckRemembers(w) ==
  /\ Executes("check", w)
  /\ memory[w] = "authenticated"
  /\ Answer("authenticated")
  /\ UNCHANGED <<runtime, page, memory, profile>>

CheckFindsNoBrowser(w) ==
  /\ Executes("check", w)
  /\ memory[w] # "authenticated"
  /\ page[w] # "open"
  /\ CloseLogin({w})
  /\ memory' = [memory EXCEPT ![w] = "idle"]
  /\ Answer("idle")
  /\ UNCHANGED runtime

Looks(w) == Executes("check", w) /\ memory[w] # "authenticated" /\ page[w] = "open"

\* Deliberate error: the browser stays open for the user to look at.
CheckAuthenticatesOpen(w) ==
  /\ Looks(w)
  /\ signedIn[w]
  /\ memory' = [memory EXCEPT ![w] = "authenticated"]
  /\ Answer("authenticated")
  /\ UNCHANGED <<runtime, page, profile>>

CheckAuthenticates(w) ==
  /\ Looks(w)
  /\ signedIn[w]
  /\ CloseLogin({w})
  /\ memory' = [memory EXCEPT ![w] = "authenticated"]
  /\ Answer("authenticated")
  /\ UNCHANGED runtime

\* Nobody has scanned the code, or the page does not show it yet.
CheckWaits(w) ==
  /\ Looks(w)
  /\ memory' = [memory EXCEPT ![w] = "waiting_qr"]
  /\ Answer("waiting_qr")
  /\ UNCHANGED <<runtime, page, profile>>

CheckErrs(w) ==
  /\ Looks(w)
  /\ CloseLogin({w})
  /\ memory' = [memory EXCEPT ![w] = "error"]
  /\ Answer("error")
  /\ UNCHANGED runtime

CheckLosesRuntime(w) ==
  /\ Looks(w)
  /\ RuntimeBreaks
  /\ InvalidateSharedRuntime
  /\ Answer("exception")
  /\ UNCHANGED memory

(***************************************************************************)
(* ... _stop_login_sync and _is_login_browser_active_sync.                 *)
(***************************************************************************)

StopCloses(w) ==
  /\ Executes("stop", w)
  /\ CloseLogin({w})
  /\ memory' = [memory EXCEPT ![w] = "idle"]
  /\ Answer("idle")
  /\ UNCHANGED runtime

TellsActive(w) ==
  /\ Executes("active", w)
  /\ Answer(IF page[w] = "open" THEN "open" ELSE "not_open")
  /\ UNCHANGED <<runtime, page, memory, profile>>

Execute ==
  /\ \E w \in Workspaces :
       \/ StartUnavailable(w) \/ StartBusy(w) \/ StartProfileInUse(w)
       \/ StartOpens(w) \/ StartLaunchFails(w)
       \/ CheckRemembers(w) \/ CheckFindsNoBrowser(w) \/ CheckAuthenticates(w)
       \/ CheckWaits(w) \/ CheckErrs(w) \/ CheckLosesRuntime(w)
       \/ StopCloses(w) \/ TellsActive(w)
  /\ UNCHANGED <<signedIn, row, watcher, request, queued, job, faults>>

-----------------------------------------------------------------------------
(***************************************************************************)
(* The event loop: the watcher and the route handlers.                     *)
(***************************************************************************)

\* When the watcher of w is cancelled, what it awaits is dropped: a result that
\* has arrived is not read, an operation in the queue is skipped, and one that
\* the thread has already taken runs to its end for nobody.
Awaited(t, w) == t.by = Watcher /\ t.ws = w
\* Deliberate error: all that the workspace waits for is dropped.
UnreadOfAll(w, arrived) == SelectSeq(arrived, LAMBDA a : a.ws # w)
\* There is at most one such entry.
WithoutAwaited(w, entries) ==
  LET awaited == {k \in DOMAIN entries : Awaited(entries[k], w)}
  IN  IF awaited = {} THEN entries ELSE RemoveAt(entries, CHOOSE k \in awaited : TRUE)
Unread(w, arrived) == WithoutAwaited(w, arrived)
Abandoned(w) ==
  {WithoutAwaited(w, tasks),
   [i \in DOMAIN tasks |-> IF Awaited(tasks[i], w) THEN [tasks[i] EXCEPT !.by = Nobody]
                           ELSE tasks[i]]}

\* Every 1.5 seconds the watcher checks the login; after 600 it stops it.
WatcherChecks(w) ==
  /\ watcher[w] = "sleeping"
  /\ watcher' = [watcher EXCEPT ![w] = "checking"]
  /\ Submit("check", w, Watcher)
  /\ UNCHANGED <<row, answers, request, queued>>

WatcherTimesOut(w) ==
  /\ watcher[w] = "sleeping"
  /\ watcher' = [watcher EXCEPT ![w] = "stopping"]
  /\ Submit("stop", w, Watcher)
  /\ UNCHANGED <<row, answers, request, queued>>

Delivers(r, op) ==
  answers # << >> /\ Head(answers).by = r /\ Head(answers).op = op
Delivered == answers' = Tail(answers)

\* update_workspace_login_status.
UpdateLoginStatus(w, result) == row' = [row EXCEPT ![w] = result]

\* Deliberate error: the watcher leaves once it has a result.
WatcherReadsOnce ==
  /\ Delivers(Watcher, "check")
  /\ Head(answers).result # "exception"
  /\ LET w == Head(answers).ws IN
       /\ UpdateLoginStatus(w, Head(answers).result)
       /\ watcher' = [watcher EXCEPT ![w] = "none"]
  /\ Delivered
  /\ UNCHANGED <<tasks, request, queued>>

\* The watcher stores what it sees, and stays while the code is not scanned.
WatcherReads ==
  /\ Delivers(Watcher, "check")
  /\ Head(answers).result # "exception"
  /\ LET w == Head(answers).ws IN
       /\ UpdateLoginStatus(w, Head(answers).result)
       /\ watcher' = [watcher EXCEPT ![w] =
                        IF Head(answers).result = "waiting_qr" THEN "sleeping" ELSE "none"]
  /\ Delivered
  /\ UNCHANGED <<tasks, request, queued>>

WatcherStops ==
  /\ Delivers(Watcher, "stop")
  /\ UpdateLoginStatus(Head(answers).ws, Head(answers).result)
  /\ watcher' = [watcher EXCEPT ![Head(answers).ws] = "none"]
  /\ Delivered
  /\ UNCHANGED <<tasks, request, queued>>

\* An exception of the driver or of the database ends the watcher.
WatcherFails ==
  /\ \/ Delivers(Watcher, "check") /\ (DatabaseFails \/ Head(answers).result = "exception")
     \/ Delivers(Watcher, "stop") /\ DatabaseFails
  /\ watcher' = [watcher EXCEPT ![Head(answers).ws] = "none"]
  /\ Delivered
  /\ UNCHANGED <<row, tasks, request, queued>>

-----------------------------------------------------------------------------

Goes(r, stage) == request' = [request EXCEPT ![r].pc = stage]
Asks(r, kind) == request[r].pc = "idle" /\ request[r].kind = kind

StatusBegins(r) ==
  /\ Asks(r, "status")
  /\ Goes(r, "waiting")
  /\ Submit("check", request[r].ws, r)
  /\ UNCHANGED <<row, watcher, answers, queued>>

StartBegins(r) ==
  /\ Asks(r, "start")
  /\ Goes(r, "waiting")
  /\ Submit("start", request[r].ws, r)
  /\ UNCHANGED <<row, watcher, answers, queued>>

\* login_stop cancels the watcher before it waits for the thread.
StopBegins(r) ==
  /\ Asks(r, "stop")
  /\ Goes(r, "waiting")
  /\ LET w == request[r].ws IN
       /\ answers' = Unread(w, answers)
       /\ \E rest \in Abandoned(w) : tasks' = Append(rest, Task("stop", w, r))
       /\ watcher' = [watcher EXCEPT ![w] = "none"]
  /\ UNCHANGED <<row, queued>>

\* It has cancelled the watcher when its first transaction fails.
StopBreaks(r) ==
  /\ DatabaseFails
  /\ Asks(r, "stop")
  /\ Goes(r, "done")
  /\ answers' = Unread(request[r].ws, answers)
  /\ tasks' \in Abandoned(request[r].ws)
  /\ watcher' = [watcher EXCEPT ![request[r].ws] = "none"]
  /\ UNCHANGED <<row, queued>>

\* sync_contacts first asks whether a login browser is open.
SyncBegins(r) ==
  /\ Asks(r, "sync")
  /\ Goes(r, "waiting")
  /\ Submit("active", request[r].ws, r)
  /\ UNCHANGED <<row, watcher, answers, queued>>

\* The handlers' ends.  An exception is an error response and a rollback.
Raised(r) ==
  /\ Delivers(r, Head(answers).op)
  /\ Head(answers).result = "exception" \/ DatabaseFails
  /\ Goes(r, "done")
  /\ Delivered
  /\ UNCHANGED <<row, watcher, tasks, queued>>

\* Deliberate error: an idle driver hides the stored login.
StatusEndsStoring(r) ==
  /\ Delivers(r, "check") /\ request[r].kind = "status"
  /\ Head(answers).result # "exception"
  /\ UpdateLoginStatus(request[r].ws, Head(answers).result)
  /\ Goes(r, "done")
  /\ Delivered
  /\ UNCHANGED <<watcher, tasks, queued>>

\* A driver without a browser does not undo a stored login.
StatusEnds(r) ==
  /\ Delivers(r, "check") /\ request[r].kind = "status"
  /\ Head(answers).result # "exception"
  /\ LET w == request[r].ws IN
       IF Head(answers).result = "idle" /\ row[w] = "authenticated" THEN UNCHANGED row
       ELSE UpdateLoginStatus(w, Head(answers).result)
  /\ Goes(r, "done")
  /\ Delivered
  /\ UNCHANGED <<watcher, tasks, queued>>

\* Deliberate error: the browser is left to the polls of the user interface.
StartEndsUnwatched(r) ==
  /\ Delivers(r, "start")
  /\ Head(answers).result # "exception"
  /\ UpdateLoginStatus(request[r].ws, Head(answers).result)
  /\ Goes(r, "done")
  /\ Delivered
  /\ UNCHANGED <<watcher, tasks, queued>>

\* login_start stores the state and replaces the workspace's watcher.
StartEnds(r) ==
  /\ Delivers(r, "start")
  /\ Head(answers).result # "exception"
  /\ LET w == request[r].ws IN
       /\ UpdateLoginStatus(w, Head(answers).result)
       /\ watcher' = [watcher EXCEPT ![w] = "sleeping"]
       /\ answers' = Unread(w, Tail(answers))
       /\ tasks' \in Abandoned(w)
  /\ Goes(r, "done")
  /\ UNCHANGED queued

StopEnds(r) ==
  /\ Delivers(r, "stop")
  /\ UpdateLoginStatus(request[r].ws, Head(answers).result)
  /\ Goes(r, "done")
  /\ Delivered
  /\ UNCHANGED <<watcher, tasks, queued>>

\* create_job accepts one job of a workspace at a time.
HasJob(w) == queued[w] \/ (job.pc # "idle" /\ job.ws = w)
CreateJob(w) == ~HasJob(w) /\ queued' = [queued EXCEPT ![w] = TRUE]

SyncLooks(r) ==
  /\ Delivers(r, "active")
  /\ Head(answers).result = "open"
  /\ Submit("check", request[r].ws, r)
  /\ Delivered
  /\ UNCHANGED <<row, watcher, request, queued>>

\* No login browser, or one that is done: the job is queued ...
SyncQueues(r) ==
  /\ \/ Delivers(r, "active") /\ Head(answers).result = "not_open" /\ UNCHANGED row
     \/ /\ Delivers(r, "check") /\ request[r].kind = "sync"
        /\ Head(answers).result \notin {"exception", "waiting_qr"}
        /\ UpdateLoginStatus(request[r].ws, Head(answers).result)
  /\ CreateJob(request[r].ws)
  /\ Goes(r, "done")
  /\ Delivered
  /\ UNCHANGED <<watcher, tasks>>

\* ... or 409, because of the QR code or of another job, and a rollback.
SyncRejected(r) ==
  /\ \/ Delivers(r, "active") /\ Head(answers).result = "not_open"
        /\ HasJob(request[r].ws)
     \/ /\ Delivers(r, "check") /\ request[r].kind = "sync"
        /\ \/ Head(answers).result = "waiting_qr"
           \/ Head(answers).result # "exception" /\ HasJob(request[r].ws)
  /\ Goes(r, "done")
  /\ Delivered
  /\ UNCHANGED <<row, watcher, tasks, queued>>

EventLoop ==
  /\ \/ \E w \in Workspaces : WatcherChecks(w) \/ WatcherTimesOut(w)
     \/ WatcherReads \/ WatcherStops \/ WatcherFails
     \/ \E r \in Requests :
          \/ StatusBegins(r) \/ StartBegins(r) \/ StopBegins(r) \/ StopBreaks(r)
          \/ SyncBegins(r)
          \/ StatusEnds(r) \/ StartEnds(r) \/ StopEnds(r) \/ Raised(r)
          \/ SyncLooks(r) \/ SyncQueues(r) \/ SyncRejected(r)
  /\ UNCHANGED <<runtime, page, memory, profile, signedIn, job, faults>>

\* The lifespan's end cancels the watchers and shuts every driver down; a crash
\* leaves the same: Chrome goes with its driver and the lock of a dead process
\* is reclaimed.  The rows stay.
RestartApi ==
  /\ ApiRestarts
  /\ CloseLogin(Workspaces)
  /\ runtime' = "stopped"
  /\ memory' = [w \in Workspaces |-> "idle"]
  /\ watcher' = [w \in Workspaces |-> "none"]
  /\ tasks' = << >>
  /\ answers' = << >>
  /\ request' = [r \in Requests |->
                   IF request[r].pc = "waiting" THEN [request[r] EXCEPT !.pc = "done"]
                   ELSE request[r]]
  /\ UNCHANGED <<signedIn, row, queued, job, faults>>

-----------------------------------------------------------------------------
(***************************************************************************)
(* The worker process, from the claim of a job to its outcome.             *)
(***************************************************************************)

WorkerClaims(w) ==
  /\ job.pc = "idle"
  /\ queued[w]
  /\ queued' = [queued EXCEPT ![w] = FALSE]
  /\ job' = [pc |-> "acquiring", ws |-> w]
  /\ UNCHANGED <<api, profile, signedIn, row>>

JobEnds == job' = [job EXCEPT !.pc = "idle"]

\* _get_worker_context waits for the lease, then for Chrome.
WorkerTakesProfile ==
  /\ job.pc = "acquiring"
  /\ profile[job.ws] = "free"
  /\ profile' = [profile EXCEPT ![job.ws] = "worker"]
  /\ job' = [job EXCEPT !.pc = "browsing"]
  /\ UNCHANGED <<api, signedIn, row, queued>>

\* No lease in time, or no Chrome (then the lease is given back).
WorkerGivesUp ==
  /\ job.pc = "acquiring"
  /\ JobEnds
  /\ UNCHANGED <<api, profile, signedIn, row, queued>>

\* context.new_page() is called before the try that closes context and lease.
WorkerLeaksProfile ==
  /\ NewPageFails
  /\ job.pc = "acquiring"
  /\ profile[job.ws] = "free"
  /\ profile' = [profile EXCEPT ![job.ws] = "worker"]
  /\ JobEnds
  /\ UNCHANGED <<api, signedIn, row, queued>>

\* _close_worker_context, and the job's result.
WorkerFinishes ==
  /\ job.pc = "browsing"
  /\ signedIn[job.ws]
  /\ profile' = [profile EXCEPT ![job.ws] = "free"]
  /\ JobEnds
  /\ UNCHANGED <<api, signedIn, row, queued>>

\* Zalo shows its login page: ZaloNotAuthenticatedError, after the close.
WorkerIsRejected ==
  /\ job.pc = "browsing"
  /\ ~signedIn[job.ws]
  /\ profile' = [profile EXCEPT ![job.ws] = "free"]
  /\ job' = [job EXCEPT !.pc = "failing"]
  /\ UNCHANGED <<api, signedIn, row, queued>>

\* _job_failure_class: the error is not retryable, and its text is "Connect
\* Zalo before running this operation.", without the words "session expired".
NotAuthenticated == [retryable |-> FALSE, saysSessionExpired |-> FALSE]
JobFailureClass(error) ==
  IF error.retryable THEN "transient"
  ELSE IF error.saysSessionExpired THEN "session_expired" ELSE "permanent"

WorkerRecordsFailure ==
  /\ job.pc = "failing"
  /\ IF JobFailureClass(NotAuthenticated) = "session_expired"
     THEN row' = [row EXCEPT ![job.ws] = "expired"] ELSE UNCHANGED row
  /\ JobEnds
  /\ UNCHANGED <<api, profile, signedIn, queued>>

\* A killed worker; its lock is reclaimed by the next owner.
WorkerRestarts ==
  /\ JobEnds
  /\ profile' = [w \in Workspaces |-> IF profile[w] = "worker" THEN "free" ELSE profile[w]]
  /\ UNCHANGED <<api, signedIn, row, queued>>

Worker ==
  \/ \E w \in Workspaces : WorkerClaims(w)
  \/ WorkerTakesProfile \/ WorkerGivesUp \/ WorkerLeaksProfile
  \/ WorkerFinishes \/ WorkerIsRejected \/ WorkerRecordsFailure

-----------------------------------------------------------------------------
(***************************************************************************)
(* The person at the phone, and Zalo.                                      *)
(***************************************************************************)

ScansQr(w) == page[w] = "open" /\ signedIn' = [signedIn EXCEPT ![w] = TRUE]
                /\ UNCHANGED page
ClosesWindow(w) == page[w] = "open" /\ page' = [page EXCEPT ![w] = "closed"]
                     /\ UNCHANGED signedIn
SessionExpires(w) == signedIn[w] /\ signedIn' = [signedIn EXCEPT ![w] = FALSE]
                       /\ UNCHANGED page

Outside ==
  /\ \E w \in Workspaces : ScansQr(w) \/ ClosesWindow(w) \/ SessionExpires(w)
  /\ UNCHANGED <<runtime, memory, profile, row, watcher, tasks, answers,
                 request, queued, job, faults>>

Next == Execute \/ EventLoop \/ RestartApi \/ Worker \/ WorkerRestarts \/ Outside

Spec == Init /\ [][Next]_vars

\* The thread and the event loop keep running, and the clock reaches the
\* watcher's deadline however often it looks before.
FairSpec ==
  /\ Spec
  /\ WF_vars(Execute)
  /\ WF_vars(EventLoop)
  /\ \A w \in Workspaces :
       SF_vars(WatcherTimesOut(w)
                 /\ UNCHANGED <<runtime, page, memory, profile, signedIn, job, faults>>)

-----------------------------------------------------------------------------
(***************************************************************************)
(* Properties.                                                             *)
(***************************************************************************)

\* The API holds the lease of a profile exactly while a login context of its
\* own is on it, through failing launches, lost runtimes and closed windows.
LoginLeaseFollowsBrowser ==
  \A w \in Workspaces : (page[w] # "none") <=> (profile[w] = "login")

StopIsPending(w) ==
  \E r \in Requests : request[r].kind = "stop" /\ request[r].ws = w /\ request[r].pc = "waiting"
StartIsPending(w) ==
  \E r \in Requests : request[r].kind = "start" /\ request[r].ws = w /\ request[r].pc = "waiting"

\* An open login browser, which keeps the workspace's jobs out, has a watcher
\* that will close it, or the handler that will is on its way; only a failing
\* database, which ends watchers and handlers, leaves it alone.
LoginBrowserIsWatched ==
  \A w \in Workspaces :
    page[w] # "none" /\ ~DatabaseFails =>
      watcher[w] # "none" \/ StopIsPending(w) \/ StartIsPending(w)

\* Where nothing fails, a stored WAITING_QR has somebody who will replace it: no
\* late result of a poll brings it back after the watcher has stored the outcome
\* and left.
QrWaitIsWatched ==
  \A w \in Workspaces :
    row[w] = "waiting_qr" /\ faults = {} =>
      watcher[w] # "none" \/ StopIsPending(w) \/ StartIsPending(w)

\* A driver that reports AUTHENTICATED has given the profile back, so that the
\* jobs the answer allows find it free (compact plan, change 2).
AuthenticatedReleasesProfile ==
  \A w \in Workspaces : memory[w] = "authenticated" => page[w] = "none" /\ profile[w] # "login"

\* A stored login outlives the API process: no poll turns it into IDLE because
\* the new process has no browser.  A sync asks only after it has seen one.
PollsKeepLogin ==
  [][\A w \in Workspaces :
       row[w] = "authenticated" /\ row'[w] = "idle" =>
         LET by == Head(answers).by IN
           by = Watcher \/ (by \in Requests /\ request[by].kind \in {"stop", "sync"})]_vars

\* Nothing that was read before a login succeeded gives it up afterwards.
SyncsKeepLogin ==
  [][\A w \in Workspaces :
       row[w] = "authenticated" /\ row'[w] = "idle" =>
         Head(answers).by = Watcher \/ Head(answers).op = "stop"]_vars

\* Only a request to stop gives up a stored login.
OnlyUsersDisconnect ==
  [][\A w \in Workspaces :
       row[w] = "authenticated" /\ row'[w] = "idle" => Head(answers).by \in Requests]_vars

\* A wait for the scan does not last for ever.
QrWaitEnds ==
  \A w \in Workspaces :
    row[w] = "waiting_qr" /\ faults = {} ~> row[w] # "waiting_qr"

\* Neither does a login browser, even if Playwright breaks or the API restarts:
\* the profile is given back to the worker.
LoginBrowserCloses ==
  \A w \in Workspaces : page[w] # "none" /\ ~DatabaseFails ~> page[w] = "none"

\* Every request is answered, whatever waits before it at the owner thread.
RequestsAreAnswered ==
  \A r \in Requests : request[r].pc = "waiting" ~> request[r].pc = "done"

\* A profile that the worker holds has a job behind it: true of every end of a
\* job but a failing new_page (LoginLeak.cfg).
WorkerLeaseHasJob ==
  \A w \in Workspaces : profile[w] = "worker" => job.pc = "browsing" /\ job.ws = w

\* A login browser is not opened for a workspace that has a job.
LoginRespectsJobs ==
  [][\A w \in Workspaces :
       page[w] # "open" /\ page'[w] = "open" =>
         ~HasJob(w)]_vars

\* A worker that finds the workspace signed out leaves no stored login.
RejectionIsRecorded ==
  [][job.pc = "failing" /\ job'.pc = "idle" => row'[job.ws] # "authenticated"]_vars

=============================================================================
