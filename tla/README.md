# TLA+ models of MMBZalo

MMBZalo drives the Zalo web client for several workspaces (tenants): an API
process serves the web UI and opens a login browser, worker processes take
automation jobs from PostgreSQL and drive a browser with Playwright. Each
workspace has one Chromium profile on disk, and everything that is hard in this
program follows from that: one job, one browser, one owner at a time, while API
requests, workers, background tasks and restarts interleave.

Paths below are relative to the repository.

## 1. Inventory

| Component | Code | State | Operations | Model |
|---|---|---|---|---|
| Job queue | `app/services.py`, `app/worker.py`, job routes of `app/main.py` | rows of `automation_jobs`, `automation_job_events`, `campaigns`; the row lock of a workspace; worker process and its lease renewal task | submit, cancel, poll (sweep + claim), start, progress, succeed, fail, handler, renew, crash | `JobQueue` |
| Profile lease | `app/browser_lease.py` | lock directory, `owner.json`, its age | acquire, reclaim, release | `ProfileLease` |
| Login flow | `/api/login/*` and the watcher in `app/main.py`, login part of `app/zalo_driver.py` | login browser, `_login_state`, `workspace_sessions` row, watcher task | start, status, stop, watch, time out | `LoginFlow` |
| API event loop | `app/database.py`, `app/dependencies.py`, all routes | open transactions, thread pool, row locks | run a handler, commit in the pool | `ApiLoop` |
| Playwright owner thread | `_PlaywrightThread` in `app/zalo_driver.py` | task queue, runtime, owner thread | submit, run, invalidate, restart | `LoginFlow` (partly) |
| Contact sync | `_sync_contacts_sync`, `persist_synced_contacts` | crawl phase and counters; `contacts`, `contact_sync_runs` | crawl passes, upsert, deactivate | `ContactSync` |
| Campaign execution | `_send_campaign_messages_sync`, `persist_campaign_execution` | route of each recipient, results table | index, open, send, store | `SendJobs` |
| Accounts | registration, sessions, roles in `app/services.py`, `app/security.py` | users, memberships, `auth_sessions` | register, log in, resolve, revoke, switch | `Accounts` |
| Rate limiter | `app/rate_limit.py` | one deque of times per action and client | allow, restart | `RateLimiter` |
| Settings, proxy, names | `app/proxy_config.py`, `app/contact_name_utils.py` | one settings row, or none | parse, normalise | not modelled |
| Web client | `frontend/app.js` | pollers, button state | poll, guard, render | not modelled |
| Page automation | selectors and in-page JavaScript in `app/zalo_driver.py` | a foreign web site | find, scroll, score, click, type | its decisions, in `ContactSync` and `SendJobs` |
| Schema, configuration, entry points, legacy importer (`app/contact_store.py`) | | | | not modelled |

How they interact. A route authenticates (`get_request_context`), then either
touches rows (submit, cancel) or calls a driver. Drivers of all workspaces in a
process share one Playwright thread. The worker polls the job table; the row is
its only contact with the API. Login browser (API process) and automation
browser (worker process) meet only at the profile lease.

What is hard, and what makes each component correct:

* **Job queue.** Transactions of API requests, workers, a renewal task and a
  progress callback overlap under READ COMMITTED. At most one active job per
  workspace; one worker per job; an ended job stays ended and its worker has
  stopped; the campaign row agrees with its job; every job ends; a cancellation
  recorded before the claim is honoured.
* **Profile lease.** Separate file system calls, crashes between any two, a
  reclaim that may race with a new owner. One owner; a lock is removed only by
  its owner or when its owner is dead; no crash locks a profile for good.
* **Login flow.** Four writers of one session row, each holding a result that
  may be stale. The row must end up telling what the browser's state is.
* **API event loop.** A coroutine that waits for a row lock blocks the thread
  the lock's holder needs. Every request must be answered.
* **Playwright thread.** One FIFO queue; after a runtime failure the next
  operation must get a new runtime, and no browser of the old one survives.
* **Contact sync.** The crawl judges from what a foreign page shows, loads late
  and replaces. "Success" deactivates what it did not see, so it must mean "all".
* **Campaign execution.** The driver knows people by names alone. Nobody but the
  recipients is written to, nobody twice in an execution, and what is stored as
  sent was sent; progress never runs ahead of it; a campaign ends with its job,
  unless the worker's last handler has to end the job.
* **Accounts.** Uniqueness is checked before it is inserted; sessions are read,
  touched and revoked by requests that overlap. Identities stay unique, sessions
  within their tenant, and a logout holds.
* **Rate limiter.** No window with more than the limit, nobody refused before.

`PROJECT.json` lists every hazard with its line and the properties that cover it.

## 2. Plan

Done, in this order:

1. `WorkspaceSlots` (abstract), `JobQueue`, `JobQueueProofs`, `ProfileLease`, `ApiLoop`.
2. `LoginFlow`: the login flow, the owner thread it runs on, and the worker it
   shares the profile with, on top of an abstract lease.
3. `ContactSync` (crawl, then persistence), `SendJobs`, `Accounts`.
4. `RateLimiter` and `RateLimiterProofs`; `AccountsProofs`.
5. `ContactSyncProofs`, `SendJobsProofs`, `LoginFlowProofs`; the campaign's row in
   `JobQueueProofs`.
6. `ProfileLock` and `ProfileLeaseProofs`; `ApiLoopProofs`.

Left:

* A composition of `JobQueue` with `ProfileLease`, and a timed lease renewal.
* The replacement of a driver whose settings have changed (`get_driver`).

## 3. What the modules model

### WorkspaceSlots
What the queue promises, without transactions or workers: a workspace has one
slot; a job is opened only when nothing else is open in its workspace, open
jobs are closed (several at once: the sweep), and stay closed.

### JobQueue
State: one function per column that matters (`status`, `jobHome`,
`jobCampaign`, `cancelRequested`, `leaseLapsed`, `campaignStatus`, `lastJob`),
the workspace row lock (`rowLock`), and a program counter per API request
(`reqPc`) and per worker process (`workerPc`, with `renewer` for its renewal
task). `Jobs` are numbered in creation order, so `1 .. created` are the rows.

Atomicity. A transaction is cut where another can get in between:

* `create_job` holds the workspace row from its check to the commit
  (`SubmitInsert`, `SubmitCommit`); `execute_campaign` has loaded the campaign
  before (`SubmitBegin`), and SQLAlchemy writes the campaign's status only when
  it differs from what was loaded (`reqLoaded`).
* `create_job_event` reads `max(sequence_no)` without a lock. A transaction
  that has read it is in a `...Seq` state; another event committed on the same
  job puts it in `stale`, and its insert then violates the unique constraint.
  What happens next is the caller's business: a cancellation is a bare 500
  (`CancelConflict`), a progress event is swallowed (`ProgressConflict`), a
  start or a result goes to the worker's exception handler (`StartConflict`,
  `SucceedConflict`, `FailConflict`), and the handler's own transaction ends the
  process (`HandlerConflict`).
* A flush locks rows until the commit. `Poll` (sweep and claim, both FOR UPDATE
  SKIP LOCKED, in one transaction) takes a set `skipped` of jobs such a
  transaction may hold at that moment; all others it sees committed.
* The renewal task only matters through the lease: `LeaseLapses` needs that no
  live renewal task covers the job. `RenewerStops` ends it early, by an
  exception (`RenewalMayFail`) or because the job was found ended.

All five job types share the worker's actions. Only a campaign job has a
campaign, reports progress, and can fail to start for want of contacts.

Abstractions: `COMPLETED` and `COMPLETED_WITH_FAILURES` are one value, and the
statuses nothing writes are left out; `created_at` order is insertion order;
`run_after` is always in the past, as no code sets it later; a worker's writes
are not compared with what it loaded; a lease of a live worker with a live
renewal task does not lapse (60 s against a renewal every 10 s: a stall of a
live process of that length is not modelled).

### JobQueueProofs
The theorems of section 5.

### ProfileLock
What a lease promises those who launch browsers, without files: a lock, which is
taken when nobody holds it and left by its holder. `LoginFlow` takes its profiles
to be such locks.

### ProfileLease
Agents are processes of one host (the API and a worker). `lockDir`, `metadata`
and `aged` are the directory, `owner.json` (the owner's process and incarnation,
for token and pid) and "mtime at least a minute ago". Each action is one file
system call of `acquire`, `_reclaim_stale_lock` or `release`. `Crash` leaves the
files as they are and the browser dies with its process; `Restart` gives a
supervised process a new pid. Pids are not reused. A live process does not take
a minute from one call to the next (guard of `Ages`). An unreadable or truncated
`owner.json` is `None`, as it is for the code. Reading
`owner.json` and asking whether its pid is alive are two calls (`Read`, `Ask`);
`seen` is what was read in the first and judged in the second, whatever the files
say by then. So a process may remove a lock that it has not judged: it has read the
record of an owner that dies, another process (the restarted owner, or one that
reclaims at the same time) makes the lock anew, and the first one finds the old pid
dead and unlinks the new `owner.json` (`profile_reclaim_race`). One process that
reclaims alone can do that. `ReclaimsAreUndisturbed` says that it does not happen:
nobody has just made the lock while another process may go on to remove it. As long
as that is so a holder keeps its lock (`UndisturbedReclaimsAreSafe`). With two
processes it is so until one is restarted (`NoRestart`), since a reclaim needs a
dead owner; until then the files implement `ProfileLock` (`ActsAsLock`).

### ProfileLeaseProofs
The theorems of section 5 on `ProfileLease`.

### ApiLoop
Coroutines of two kinds: `Handlers` (route handlers, which lock or flush rows
through the session of `get_db`) and `Scopes` (login watcher, worker loop, which
use `session_scope`). `busy[p]` is the coroutine whose synchronous database call
keeps the event loop of process `p`; `holder[row]` has the row's lock. A handler
that has returned is `exiting` with its transaction open: the loop hands the
exit of `get_db` to the thread pool (`DispatchExit`), the pool thread commits
whatever the loop does (`CloseSession`), the loop answers (`Respond`). A scope
keeps the loop from flush to commit. Everything before the first write is
`Arrive`: no handler awaits anything after it. Each coroutine writes one row;
several rows per handler add waits between threads, which PostgreSQL's own
deadlock detection ends. A rejected submission keeps its lock like an accepted
one. Nobody restarts a process that hangs, so restarts are left out. `WaitsEnd`
says that whoever waits, for its row, its loop or a thread, is at most four others
away from a coroutine that has a step to take (`Nearer`).

### ApiLoopProofs
The theorems of section 5 on `ApiLoop`.

### LoginFlow
The API's event loop, the owner thread and the worker. `tasks` is the FIFO queue
of `_PlaywrightThread`, `answers` the results on their way back to the loop. An
operation of the thread is one step (`Execute`), and so is a coroutine from one
await to the next (`EventLoop`): what a request has read before an await is
stale when its answer comes, which is what the hazards of this part are.
`memory` is the driver's `_login_state`, `row` the stored one; `page` is the
login browser, that the user may close by hand. `profile` is an abstract lease:
free, with the login browser, or with the worker. A task that is cancelled leaves
its operation in the queue, unless it has begun (`Abandoned`), and the result has
nobody to go to; a watcher awaits one thing, so there is one entry to drop
(`WithoutAwaited`). `RestartApi` stands for a
shutdown and a crash. The four fault kinds are chosen once per behaviour
(`faults`), so that one run asks all the questions, each where it applies.
Screenshots and the text of errors are left out.

### LoginFlowProofs
The theorems of section 5 on `LoginFlow`.

### ContactSync
One `contact_sync` job against Zalo's page. The page has a list of contacts, has
loaded a prefix of it, and shows the rows that meet the viewport; rows that are
asked for arrive up to `lag` snapshots late. Each pass of the crawl is a snapshot
and what its phase does about it, with the code's counters, scroll distances
and 12 pixels of tolerance in integers. The container may be replaced, which
removes the mark it is found by. The view is opened by clicks that hit or miss; a
list that is empty gives `view_not_found`, as the code takes a list for there
only if it shows a row. `Persist` writes contacts and run in one transaction.
Abstractions: during a crawl the list changes only by rows that arrive; a contact
is its identity key, so names and their normalisation do not appear; what the
page and the database are like is chosen once (`site`); the time limit of a crawl
is part of `CrawlIsCut`.

### ContactSyncProofs
The theorems of section 5 on `ContactSync`.

### SendJobs
The four kinds of jobs that write to people. A name is a sequence of words, so
that one may start with, or contain, another; two accounts may have the same. The
search shows any of those whose name has the term in it, or that Zalo finds in
another way (`Related`); the score of a kind of search result is 45 or 5. The
driver's path for a recipient is in the model with its guards: index of threads,
direct click, search, choice of an item by score, confirmation by the header,
typing, submitting. A click that takes effect after its confirmation has failed
is modelled by the thread it leaves open. The driver's part of a job ends with a
result per target, which the worker stores (`StoreResults`), or with an exception,
upon which one transaction fails campaign and job (`Aborts`). Every transaction may
fail (`DataFaults`): that of the start (`PrepareFails`), those that find the driver
(`DriverFails`), of the results (`StoreFails`), and the one that was to fail
campaign and job (`AbortRollsBack`). The handler of `worker_loop` then fails the job
alone and the campaign stays queued (`HandleException`); if its own transaction fails
too the process ends, and the sweep fails both (`Crash`).
A friend request counts as a message of its own kind: it is excluded from
`OncePerExecution`, whose subject is the text. A group job has one target and a
page of its own. The progress events are counters; when they are written is in
`JobQueue`.

### SendJobsProofs
The theorems of section 5 on `SendJobs`.

### Accounts
Statements of requests interleave under READ COMMITTED. A unique value that is
inserted, and a session row that is updated, are held until the commit; whoever
wants the same waits. A request makes at most one user, workspace and session,
which are known by the request's name. `old` are the sessions past `expires_at`;
a refused request rolls back, so an expired session is only marked by logout.
Requests interleave as if each had a process of its own. Within one API process the
event loop schedules the commits (`get_db`), and a request that waits for another
one's row on that loop keeps it from its commit: that is `ApiLoop`'s subject
(`api_together`). Here a request at its commit may stay there for ever; no fairness
is assumed and nothing is said of requests that end. Left out: hashing, roles beyond
membership, inactive users, cookies; `last_login_at` with its row lock; and the rows
that the same requests insert or touch through `ensure_worker_node`,
`ensure_workspace_session` and `ensure_workspace_settings`. None of these carries an
identity, a membership or a session; a conflict on one of their unique values is a
500 like that of a commit that fails (`CommitFails`), and a wait for one is, again,
`ApiLoop`'s.

### AccountsProofs
The theorems of section 5 on `Accounts`.

### RateLimiter
`InMemoryRateLimiter.allow` on an integer clock. `log` is history: all allowed
attempts since the process started, which the deque forgets. A restart forgets
both, as the limiter is per process.

### RateLimiterProofs
The theorems of section 5 on `RateLimiter`.

## 4. Runs

| Run | Instance | Question | Result |
|---|---|---|---|
| `fenced` | 2 workers, 1 request, 1 campaign, 2 jobs, renewals do not fail, fair | does an ended job stop, does it keep its outcome, do jobs end, do campaign and job agree | holds |
| `unfenced` | 2 workspaces, 2 workers, 2 requests, 2 jobs, renewals fail | what survives a late worker; refinement of `WorkspaceSlots` | holds |
| `profile_lease` | 2 supervised processes, 3 incarnations each, fair | do the files act as a lock, is a held profile locked while no lock is made anew during a reclaim, are orphaned locks reclaimed | holds |
| `profile_reclaim_race` | 2 supervised processes, 2 incarnations | one owner | violated |
| `api_apart` | API with 2 requests and a watcher on 3 rows; a worker with its renewal task and another worker, on rows of the requests and one of their own; fair | how far is who waits from one that goes on, is every request answered | holds |
| `api_together` | 2 requests of one API process on one row, fair | is every request answered | violated |
| `login` | 2 workspaces, 2 requests, no faults; a Playwright and an API that fail; all faults; fair | are login browsers watched and closed, waits ended, stored logins kept | holds |
| `contact_sync` | lists up to 10 rows of 160 px in 320 px; rows at once, with or without failures, or 2 at a time and up to 3 snapshots late; 20 passes | is "success" complete, does nobody listed become inactive | holds |
| `send_distinct` | 3 accounts, 2 executions, all faults, fair | who is written to, how often, what is stored, do jobs end, and their campaigns with them unless the handler is reached | holds |
| `send_nested` | a name that is the start of another | who is written to | violated |
| `accounts` | 4 requests of any kind, 2 e-mails, 2 names, commits fail | identities, tenancy, logout | holds |
| `rate_limiter` | limits 2, 1 and 0, window 2, clock to 5, restarts | limit kept, and reached before a refusal | holds |

Bounds.

* `JobQueue`: two jobs are needed for everything said of two rows (a second
  submission, a retry, a late result after a new job); a third would repeat the
  second, as jobs of a workspace do not overlap (proved). Two workers and two
  requests are the pairs the races are between.
* `ProfileLease`: three incarnations let a process die in acquire, again while it
  reclaims, and run a third time.
* `ApiLoop`: the coroutines can form the longest chain of waits there is: a renewal
  behind its worker's loop, which waits for the row of a request that has returned,
  which is behind the API's loop, which waits for another worker's row. With three in
  place of four steps `WaitsEnd` fails.
* `LoginFlow`: two workspaces share the runtime and the thread; two requests and
  a watcher meet in every pair, and a request may be of any kind.
* `ContactSync`: ten rows are more than two viewports and two scrolls, and the
  crawl of a still list ends within 20 passes: `StillListsSucceed` would fail if
  the limit cut it. The code's limit is 160.
* `SendJobs`: two recipients show what a failure for one does to the other, the
  third account is the one that must not be written to; two executions are a job
  and its retry. A message has one line (see `SendLines` below).
* `Accounts`: two that race, and two that use what they have made.
* `RateLimiter`: the clock passes two windows.

Symmetry is used in `unfenced` and `accounts`, whose properties are safety
properties that do not tell the permuted values apart. Type invariants document what
the variables are; those of section 5 are proved, and none is checked by a run.

Deadlock is checked except where everybody may be done (`LoginFlow`, `SendJobs`
and `Accounts`: all requests answered, all executions over) and in
`api_together`, where the API hangs.

Fairness. `FairSpec` of `JobQueue` assumes that a running worker executes its
next statement, that a supervisor restarts it, that time passes, and two strong
conditions: a poll that meets no locked row happens if it is enabled again and
again (a row is locked for milliseconds, polls are seconds apart and each run
of the process begins with one), and a browser operation returns (its loops and
timeouts are finite, although progress events interrupt it). No fairness of the
requests is assumed: no one has to submit or cancel. In `ProfileLease` each
begun call is executed, browsers are closed, processes are restarted, time
passes, and processes keep asking for the profile. In `ApiLoop` a coroutine that
may go on again and again does: asyncio's queue, PostgreSQL's lock queue and the
thread pool are first in, first out. In `LoginFlow` thread and event loop keep
running, and the watcher's deadline (600 s) is reached however often it polls
before; nobody has to scan, close or stop. In `SendJobs` the worker goes on with
its job. `ContactSync`, `Accounts` and `RateLimiter` assume none.

### Findings
* `profile_reclaim_race`: the reclaim removes a lock it has not looked at again, be it
  since it read `owner.json` or since it found its owner dead.
* `api_together`: a double click may hang the API. The handler of the second
  request waits for the row of the first one on the event loop, before that loop
  has scheduled the first one's commit; the engine sets no lock timeout. With
  rows apart in the one API process of the deployment, waiting is harmless
  (`api_apart`, where the worker's scopes hold rows the API waits for), and nothing
  else than a loop that waits for itself can hang it (`HangsAreOfOneLoop`).
* `send_nested`: the header of a thread is accepted if it contains the target, so
  that "Nam Anh" is confirmed, and written to, as "Nam", when the search shows
  only the former.

### Further counterexamples
These configurations are not runs of the project; each makes TLC show a behaviour
of the code that the named property, natural as it is, does not allow.

| Configuration | Property | What happens |
|---|---|---|
| `JobQueueLateWorker` | `EndedJobsHaveStopped` | one exception in `_renew_active_job_lease` ends it, unseen; another worker fails the job as lapsed while its browser runs |
| `JobQueueCancelConflict` | `CancellationsAreRecorded` | a cancellation that races with a job event is a 500 |
| `ApiLoopTwoApis` | `WaitsEnd` | two API processes, in each a request that has returned and one that wants the row of the other's: both loops stop for good |
| `LoginRejected` | `RejectionIsRecorded` | Zalo's rejection is recognised by words its error does not have, so the stored login stays |
| `LoginOverJob` | `LoginRespectsJobs` | a login starts while the workspace has a job, and takes the profile first |
| `LoginLeak` | `WorkerLeaseHasJob` | `new_page` fails outside the `try`, and the lease stays |
| `LoginDeadline` | `OnlyUsersDisconnect` | a watcher at its deadline stops a login that has just succeeded |
| `LoginSync` | `SyncsKeepLogin` | a contact sync, which has seen the login browser, stores the status it is told later, IDLE, over a login stored in between |
| `SyncLate` | `SuccessIsComplete` | a page that shows more than a viewport of rows and loads the rest a snapshot late is taken for complete |
| `SendRelated` | `OnlyRecipientsAreWritten` | a friend whom the search shows for another reason scores high enough to be opened, and is then confirmed by its own name |
| `SendGroup` | `GroupMessageIsForGroup` | a group job opens the best kind of result, whatever its name, and confirms nothing |
| `SendNamesakes` | `SentMeansDelivered` | of two contacts of one name, one is written to for both |
| `SendLines` | `OncePerExecution` | the line breaks of a message are Enter keys, so that each line is a message |
| `SendRetry` | `NoDuplicateSends` | a worker is killed after sending and before storing; the retry sends again |
| `SendStuck` | `CampaignEndsWithJob` | a job that the handler of `worker_loop` fails, after a transaction that failed or for want of contacts, leaves its campaign queued |
| `AccountsConflict` | `ConflictsAreExplained` | two registrations of one e-mail: the second is a bare 500 |

## 5. Proofs

`JobQueueProofs` is checked by TLAPS for all sets of workspaces, workers,
requests and campaigns and any number of jobs, from the named assumptions of
`JobQueue` (a campaign has one workspace; `None` is none of the values).

| Theorem | Property | Extra assumption |
|---|---|---|
| `TypeCorrect` | `TypeOK` | |
| `OneActiveJob` | `OneActiveJobPerWorkspace` | |
| `ExclusiveClaims` | `ClaimsAreExclusive` | |
| `CancelsTakeEffect` | `CancelledBeforeClaimNeverRuns` | |
| `ImplementsSlots` | `SlotsSpec` | |
| `FencedJobsHaveStopped` | `EndedJobsHaveStopped` | `Fenced` |
| `FencedBrowsers` | `OneBrowserJobPerWorkspace` | `Fenced` |
| `FencedOutcomesAreFinal` | `OutcomeIsFinal` | `Fenced` |
| `FencedCampaigns` | `CampaignFollowsItsJob` | `Fenced` |

The argument. `OneActiveJobPerWorkspace` is not inductive: a submission between
its check and its commit could add a second row, and a late worker could revive
an ended job. `RowInv` therefore says that a submission that has passed the
check holds its workspace's row and that no active job exists there
(`SubmissionsHoldTheLock`), that rows are numbered without gaps, and `OneActive`.
A late worker revives nothing because a job it holds at its start is still in
the status the claim gave it (`StartsAreFresh`: no lease lapses before the
renewal task has had a chance to end), and no later transaction makes a job
active. `WorkerInv` keeps that only claimed jobs are held and waiting jobs have
no lease; that gives `ClaimsAreExclusive`. Refinement follows step by step:
`SubmitCommit` opens the job, sweeps and results close active ones, and
everything else is a stutter.

`FenceInv` adds that the job of a working worker is leased or running and, while
the worker's renewal task lives, not lapsed. It is preserved by every step but a
sweep by another worker of a job whose renewal task died; `Fenced` (one worker,
or renewals that do not fail) is used exactly there, in `SweepSparesHeldJobs`.
`JobQueueLateWorker.cfg` shows that without it the conclusion is false.

For the campaign's row, jobs of one campaign are of one workspace, so that at most
one of them is active, and that one is `last_job_id`: a submission that passes the
check finds all earlier ones ended, and writes the pointer with the row. Starts,
results and cancellations write job and campaign in one transaction. `Fenced` is
needed because a late worker's result would write the campaign of a newer job.

`RateLimiterProofs` holds for all sets of buckets, limits, windows and horizons,
from `LimitAssumption` and `TimeAssumption`.

| Theorem | Property |
|---|---|
| `TypeCorrect` | `TypeOK`: no deque outgrows its limit |
| `WindowLimit` | `WindowIsLimited` |
| `RefusalsAreDue` | `RefusedOnlyWhenFull` |

The properties speak of all attempts, the code keeps a few of them. The inductive
invariant relates the two: the deque is the end of the log (`HitsEndLog`), what
precedes it there has left the window (`DroppedIsOld`), and the log is sorted and
of the past (`LogIsSorted`). An attempt that is allowed then comes after fewer
than the limit within the window, which keeps `LogIsSpaced`; one that is refused
finds the limit's oldest entry alive. The lemmas on sequences say what popping
and appending do to these facts.

`AccountsProofs` holds for all sets of requests, e-mails and workspace names, whether
or not commits fail, from `NobodyAssumption` (`Nobody` is no request).

| Theorem | Property |
|---|---|
| `UniqueIdentities` | `IdentitiesAreUnique` |
| `Tenancy` | `SessionsStayInTenancy` |
| `LogoutsHold` | `LoggedOutIsRefused` |

The properties speak of committed rows, the steps depend on those still
uncommitted. `EmailsAreApart` and `SlugsAreApart` say that a row under way differs
in its unique value from all committed ones and from all others under way; an
insert keeps this because it waits for the holder and then looks once more. That
the tenancy of a switch holds at its commit (`SwitchesAreAllowed`) needs that
memberships stay and that a session never changes its user. A logout lasts
because no commit makes an ended session active again (`SessionsLast`), so that a
request sent after it fails in `Resolves` (`LateOnesAreRefused`).

`LoginFlowProofs` holds for all sets of workspaces, requests and faults, from
`ActorsAssumption` (the watcher and nobody are no requests).

| Theorem | Property |
|---|---|
| `TypeCorrect` | `TypeOK` |
| `LoginLease` | `LoginLeaseFollowsBrowser` |
| `AuthenticatedLeaves` | `AuthenticatedReleasesProfile` |
| `BrowserIsWatched` | `LoginBrowserIsWatched` |
| `QrIsWatched` | `QrWaitIsWatched` |
| `PollsKeep` | `PollsKeepLogin` |

`LeaseInv` joins the first two properties, which preserve each other, with the
worker's share: while it browses, the profile is its own. The others speak of
results under way. `Orderly` says whose they are: a request waits for one thing at a
time, which is of its kind; a watcher never awaits a start. But that an open browser
is looked after by a watcher, or by a request to stop or to start (`GuardInv`), is
not inductive: its guard leaves when it reads that the browser is gone, which may be
old news. `OrderInv` says that it is not: if there is a browser again, or a result
that tells of one, then behind the news there is the answer of the start that has
opened it, whose handler will set a new watcher. This holds because the thread's
results arrive in order and a cancellation drops only what the watcher awaits; the
lemmas on sequences say what delivery and cancellation leave of the answers, in
their order (`Thins`). For the stored WAITING_QR (`QrInv`) the same news, stored, is
what replaces it. `PollsKeepLogin` excepts a sync because of `LoginSync.cfg`, which
takes three requests.

`ContactSyncProofs` holds for all lists, row heights, viewports and sites, from
`LayoutAssumption` and `ListsAssumption` and the conditions in the table.

| Theorem | Property | Condition |
|---|---|---|
| `CompleteSyncs` | `SuccessIsComplete` | `Virtualised` |
| `ListedStayActive` | `ListedContactsStayActive` | `Virtualised` |
| `CompleteSyncsMirror` | `SuccessMirrorsList` | `Virtualised` |
| `StillListsEnd` | `StillListsSucceed` | `Virtualised`, `PassesSuffice` |

`Virtualised`: the client has all rows in memory and renders those in view, no row
is as low as the code's tolerance of 12 px, and the viewport is higher than the
least scroll of 240 px. It describes the page the crawl is written for; the sites of
the `contact_sync` run that have their rows at once satisfy it, and with late rows
the conclusion may be false (`SyncLate.cfg`). The invariant (`SeenInv`) is that
on its way down the crawl has seen every row above the viewport, and after a
snapshot those in it: one scroll does not pass what the last snapshot has shown
(`ScrollsOverlap`), so what it scrolls away it has seen, and at the end it has seen
all. `PaceInv` counts passes: each one scrolls by `ScrollDelta` or is one of the few
at the end. `PassesSuffice` holds of the run's 20 passes, and of the code's 160 for a
list of up to about 130 viewports.

`SendJobsProofs` holds for all accounts, names, lists and numbers of executions,
under the conditions in the table; where the table does not say so, for all faults.

| Theorem | Property | Condition |
|---|---|---|
| `TypeCorrect` | `TypeOK` | |
| `CampaignsEnd` | `CampaignsEndWithTheirJobs` | that no exception gets to the handler of `worker_loop` is its premise |
| `TotalsAddUp` | `StoredTotalsAddUp` | no list names anybody twice |
| `OnlyRecipients` | `OnlyRecipientsAreWritten` | `TellsApart` |
| `SentIsDelivered` | `SentMeansDelivered` | `TellsApart` |
| `OncePerJob` | `OncePerExecution` | `TellsApart`, `SaidOnce` |
| `SoundProgress` | `ProgressIsSound` | `TellsApart`, `SaidOnce` |

`TellsApart`: no name contains another account's name, and whom Zalo shows for
another reason it shows among strangers. `SaidOnce`: a list names nobody twice and a
message has one line. The `send_distinct` instance satisfies both; `SendNested`,
`SendRelated`, `SendNamesakes` and `SendLines` show that no part can be left out. So
the theorems say exactly where the driver is right: its paths (index, direct click,
search, wrong clicks that take effect late) confuse nobody by themselves. The heart
of `MailInv` is that the thread on show when the driver composes is the target's
(`opened = Target`), for every path that leads there; `OnceInv` adds that whoever has
got this job's message is a target already behind it. `CampaignsEnd` excepts whatever
follows an exception that gets to the handler of `worker_loop`, which knows nothing of
campaigns (`SendStuck`): a transaction of the job has failed, or all the campaign's
contacts are gone.

`ProfileLeaseProofs` holds for all sets of processes, supervised or not, and any
number of incarnations, from the named assumptions of `ProfileLease` and the conditions
in the table.

| Theorem | Property | Condition |
|---|---|---|
| `TypeCorrect` | `TypeOK` | |
| `UndisturbedReclaims` | `UndisturbedReclaimsAreSafe` | that reclaims are undisturbed is its premise |
| `UndisturbedReclaimsSpareTheLiving` | no living owner's record is taken away | `[]ReclaimsAreUndisturbed` |
| `UndisturbedReclaimsLock` | `Lock!LockSpec` | `[]ReclaimsAreUndisturbed` |
| `TwoHoldersAreLocked` | `HeldProfileIsLocked` (`NoRestart`) | `TwoAgents` |
| `TwoSpareTheLiving` | `LocksOfTheLivingStay` | `TwoAgents` |
| `TwoActAsLock` | `ActsAsLock` | `TwoAgents` |

The files say little: a directory with no `owner.json` may belong to a process about
to write it or to a dead one. `LeaseInv` says what they can be trusted in. A process
that has made the directory and not finished with it still has it, with its own record
or none yet (`OwnersHaveTheLock`), and is the only one (`OneOwner`). A record is of
the past, and if its pid is alive it is the owner's (`RecordsAreTrue`). Who is about
to remove something has judged it rightly: while a process stands in `unlink` or
`rmdir`, no process that lives has the lock, and one that asks for a pid asks for that
of the owner, if there is one (`ReclaimsAreDue`). Only this last part needs
`ReclaimsAreUndisturbed`, and only where a process makes the lock: it would become the
owner under the feet of one that has read, or judged, the lock before. `AloneInv` shows
that two processes cannot do that before a restart: what one of them has read is the
other's record (`AsksForAnother`), and a lock that is being removed tells of a death.
`TwoAgents` cannot be dropped there: of three processes one may die, and the second
takes the profile while the third still has the dead one's record. The deployment
(`DEPLOYMENT.md`) has an API and one worker process.

`ApiLoopProofs` holds for all sets of requests, background tasks, processes and rows,
from the named assumptions of `ApiLoop` and the conditions in the table.

| Theorem | Property | Condition |
|---|---|---|
| `TypeCorrect` | `TypeOK` | |
| `ApartWaitsEnd` | `WaitsEnd` | `OneApi`, `RowsApart` |
| `HangsAreOfOneLoop` | `WaitsEnd` in every state in which no loop waits for itself | `OneApi` |
| `HangsLast` | a loop that waits for itself does so for ever | |

`OneApi`: one process serves requests; `ApiLoopTwoApis` shows what two may do.
`RowsApart`: within a process nobody wants the row that a request writes; `api_together`
shows the double click that violates it. A loop stops only for a coroutine that waits
for a row or commits (`LoopsStopForRows`), and who has a row will commit
(`HoldersCommit`). So a chain of waits goes from a coroutine to the loop it needs, to
the holder of the row that loop has stopped for, and at most once more to such a loop
and holder, because a background task commits without its loop's help and only a
request that has returned needs it. `HangsAreOfOneLoop` says that with one API process
that is the only way to hang, and `HangsLast` that it is one.

Only model-checked: all liveness (`SubmittedJobsEnd`, `OrphansAreReclaimed`,
`EveryRequestIsAnswered`, `QrWaitEnds`, `LoginBrowserCloses`,
`RequestsAreAnswered`, `JobsEnd`), which speaks of fairness and is
beyond the prover; and what the conditions above exclude (late pages,
names that contain each other, locks made anew during a reclaim), where the runs and
counterexamples show what happens. Every safety property of the passing runs is
stated by a theorem.

### Not modelled
* Workspace settings, proxy parsing, contact names: pure functions of text, best
  tested; the modules take identity keys and names as given.
* The web client: pollers and button guards of one page. What the server does
  when its requests race is in `LoginFlow`, `JobQueue` and `ApiLoop`.
* Schema, configuration, entry points: declarations. The constraints that matter
  appear in the modules that rely on them.
* The legacy contact store, which the service does not reach.
* Of the driver: the modal of friend requests, the extraction of profiles from
  the page, screenshots and debug artifacts, and the replacement of a driver
  whose settings have changed.

## 6. Reproducing

    tlc -workers 2 -config JobQueueFenced.cfg MCJobQueue.tla
    tlc -workers 2 -config LoginFlow.cfg MCLoginFlow.tla
    tlapm JobQueueProofs.tla
    tlapm RateLimiterProofs.tla
    tlapm AccountsProofs.tla
    tlapm LoginFlowProofs.tla
    tlapm ContactSyncProofs.tla
    tlapm SendJobsProofs.tla
    tlapm ProfileLeaseProofs.tla
    tlapm ApiLoopProofs.tla

The other runs are in `PROJECT.json`, each with its configuration; a
configuration belongs to the MC module its name starts with.

Operators marked "Deliberate error" are variants of a definition with a
plausible bug; put in place of the definition each makes the property it is
listed with in `PROJECT.json` fail. Nothing else refers to them.
