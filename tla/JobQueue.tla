------------------------------ MODULE JobQueue ------------------------------
(***************************************************************************)
(* The automation job queue: the rows of automation_jobs and campaigns, the*)
(* API handlers that submit and cancel jobs (app/services.py, app/main.py) *)
(* and the worker processes that claim and run them (app/worker.py).       *)
(*                                                                         *)
(* PostgreSQL runs READ COMMITTED with autoflush off (app/database.py), so *)
(* a transaction is cut where another one can get in between: after it has *)
(* read something it later relies on, and at its commit.  A flush locks    *)
(* the rows it writes until the commit; flush and commit are one step here,*)
(* and a sweep that runs between the two (FOR UPDATE SKIP LOCKED) is given *)
(* by the argument "skipped" of Poll.                                      *)
(***************************************************************************)
EXTENDS Naturals

CONSTANTS Workspaces,      \* tenants
          Workers,         \* worker processes (one MMBZALO_HOST_IDENTITY each)
          Requests,        \* concurrently served API requests
          Campaigns,       \* saved campaigns
          CampaignHome,    \* CampaignHome[c]: the workspace that owns c
          MaxJobs,         \* bound: jobs ever submitted
          RenewalMayFail,  \* a database error may end a lease renewal task
          None             \* no job, no campaign, no lock holder, no row value

ASSUME MaxJobsAssumption == MaxJobs \in Nat
ASSUME HomeAssumption == CampaignHome \in [Campaigns -> Workspaces]
ASSUME RenewalAssumption == RenewalMayFail \in BOOLEAN

Jobs == 1 .. MaxJobs     \* in the order of created_at

JobStatus == {"queued", "leased", "running", "succeeded", "failed", "cancelled"}
Active    == {"queued", "leased", "running"}     \* what create_job looks for
Terminal  == {"succeeded", "failed", "cancelled"}
CampaignStatus == {"draft", "queued", "completed", "failed"}

ASSUME NoneAssumption ==
  /\ None \notin Jobs
  /\ None \notin JobStatus
  /\ None \notin CampaignStatus
  /\ None \notin Workspaces
  /\ None \notin Campaigns
  /\ None \notin Requests

VARIABLES
  \* the database
  created,         \* number of rows of automation_jobs
  status,          \* status[j]: None before the row exists
  jobHome,         \* workspace_id of the row
  jobCampaign,     \* payload_json["campaign_id"], None for the other job types
  cancelRequested,
  leaseLapsed,     \* lease_expires_at is in the past
  campaignStatus,
  lastJob,         \* last_job_id of the campaign
  rowLock,         \* rowLock[ws]: the request that holds the workspace row
  \* transactions that have read max(sequence_no) of a job's events, and whose
  \* number another transaction has taken since (uq_job_events_job_sequence)
  stale,
  \* API requests
  reqPc, reqHome, reqCampaign, reqLoaded, reqJob,
  \* worker processes
  workerPc, workerJob,
  renewer          \* the lease renewal task: off, on, or ended early (dead)

dbVars     == <<created, status, jobHome, jobCampaign, cancelRequested, leaseLapsed>>
campaignVars == <<campaignStatus, lastJob>>
reqVars    == <<reqPc, reqHome, reqCampaign, reqLoaded, reqJob>>
workerVars == <<workerPc, workerJob, renewer>>
vars == <<dbVars, campaignVars, rowLock, stale, reqVars, workerVars>>

ReqPcs == {"idle", "submitting", "inserted", "cancelling", "cancelSeq"}

\* "...Seq": the transaction has read max(sequence_no) and has yet to commit.
SeqPcs  == {"startSeq", "progressSeq", "succeedSeq", "failSeq", "handlerSeq"}
Working == SeqPcs \cup {"start", "driver", "browse", "handler", "handlerLoaded"}
WorkerPcs == Working \cup {"down", "idle"}

TypeOK ==
  /\ created \in 0 .. MaxJobs
  /\ status \in [Jobs -> JobStatus \cup {None}]
  /\ jobHome \in [Jobs -> Workspaces \cup {None}]
  /\ jobCampaign \in [Jobs -> Campaigns \cup {None}]
  /\ cancelRequested \in [Jobs -> BOOLEAN]
  /\ leaseLapsed \in [Jobs -> BOOLEAN]
  /\ campaignStatus \in [Campaigns -> CampaignStatus]
  /\ lastJob \in [Campaigns -> Jobs \cup {None}]
  /\ rowLock \in [Workspaces -> Requests \cup {None}]
  /\ stale \subseteq Requests \cup Workers
  /\ reqPc \in [Requests -> ReqPcs]
  /\ reqHome \in [Requests -> Workspaces \cup {None}]
  /\ reqCampaign \in [Requests -> Campaigns \cup {None}]
  /\ reqLoaded \in [Requests -> CampaignStatus \cup {None}]
  /\ reqJob \in [Requests -> Jobs \cup {None}]
  /\ workerPc \in [Workers -> WorkerPcs]
  /\ workerJob \in [Workers -> Jobs \cup {None}]
  /\ renewer \in [Workers -> {"off", "on", "dead"}]

Init ==
  /\ created = 0
  /\ status = [j \in Jobs |-> None]
  /\ jobHome = [j \in Jobs |-> None]
  /\ jobCampaign = [j \in Jobs |-> None]
  /\ cancelRequested = [j \in Jobs |-> FALSE]
  /\ leaseLapsed = [j \in Jobs |-> FALSE]
  /\ campaignStatus = [c \in Campaigns |-> "draft"]
  /\ lastJob = [c \in Campaigns |-> None]
  /\ rowLock = [ws \in Workspaces |-> None]
  /\ stale = {}
  /\ reqPc = [r \in Requests |-> "idle"]
  /\ reqHome = [r \in Requests |-> None]
  /\ reqCampaign = [r \in Requests |-> None]
  /\ reqLoaded = [r \in Requests |-> None]
  /\ reqJob = [r \in Requests |-> None]
  /\ workerPc = [w \in Workers |-> "idle"]
  /\ workerJob = [w \in Workers |-> None]
  /\ renewer = [w \in Workers |-> "off"]

-----------------------------------------------------------------------------
(***************************************************************************)
(* create_job_event: a transaction reads max(sequence_no) and, at its next *)
(* flush, inserts that number plus one.  Committing an event on the jobs   *)
(* js makes the number of every other reader of those jobs a duplicate.    *)
(***************************************************************************)
Readers(js) ==
  {r \in Requests : reqPc[r] = "cancelSeq" /\ reqJob[r] \in js}
    \cup {w \in Workers : workerPc[w] \in SeqPcs /\ workerJob[w] \in js}

Records(me, js) == stale' = (stale \cup Readers(js)) \ {me}

Abandons(me) == stale' = stale \ {me}

\* Jobs whose row a transaction has flushed but not committed may be skipped.
Lockable == {j \in Jobs : Readers({j}) # {}}

\* Deliberate error: an active-job check that overlooks running jobs.
ActiveInButRunning(ws) ==
  {j \in Jobs : jobHome[j] = ws /\ status[j] \in {"queued", "leased"}}

ActiveIn(ws) == {j \in Jobs : jobHome[j] = ws /\ status[j] \in Active}

-----------------------------------------------------------------------------
(***************************************************************************)
(* API requests                                                            *)
(***************************************************************************)
ResetRequest(r) ==
  /\ reqPc' = [reqPc EXCEPT ![r] = "idle"]
  /\ reqHome' = [reqHome EXCEPT ![r] = None]
  /\ reqCampaign' = [reqCampaign EXCEPT ![r] = None]
  /\ reqLoaded' = [reqLoaded EXCEPT ![r] = None]
  /\ reqJob' = [reqJob EXCEPT ![r] = None]

\* A submission starts; execute_campaign loads the campaign before the lock.
SubmitBegin(r, ws, c) ==
  /\ reqPc[r] = "idle"
  /\ c # None => CampaignHome[c] = ws
  /\ reqPc' = [reqPc EXCEPT ![r] = "submitting"]
  /\ reqHome' = [reqHome EXCEPT ![r] = ws]
  /\ reqCampaign' = [reqCampaign EXCEPT ![r] = c]
  /\ reqLoaded' = [reqLoaded EXCEPT ![r] =
                     IF c = None THEN None ELSE campaignStatus[c]]
  /\ UNCHANGED <<dbVars, campaignVars, rowLock, stale, reqJob, workerVars>>

\* The workspace row is locked and an active job found: JobAlreadyRunningError.
SubmitRejected(r) ==
  /\ reqPc[r] = "submitting"
  /\ rowLock[reqHome[r]] = None
  /\ ActiveIn(reqHome[r]) # {}
  /\ ResetRequest(r)
  /\ UNCHANGED <<dbVars, campaignVars, rowLock, stale, workerVars>>

\* Deliberate error: the check and the insertion without the row lock.
SubmitInsertUnlocked(r) ==
  /\ reqPc[r] = "submitting"
  /\ ActiveIn(reqHome[r]) = {}
  /\ reqPc' = [reqPc EXCEPT ![r] = "inserted"]
  /\ UNCHANGED <<dbVars, campaignVars, rowLock, stale, reqHome, reqCampaign,
                 reqLoaded, reqJob, workerVars>>

\* The workspace row is locked, no active job is found, the row is inserted.
SubmitInsert(r) ==
  /\ reqPc[r] = "submitting"
  /\ rowLock[reqHome[r]] = None
  /\ ActiveIn(reqHome[r]) = {}
  /\ rowLock' = [rowLock EXCEPT ![reqHome[r]] = r]
  /\ reqPc' = [reqPc EXCEPT ![r] = "inserted"]
  /\ UNCHANGED <<dbVars, campaignVars, stale, reqHome, reqCampaign, reqLoaded,
                 reqJob, workerVars>>

\* The commit: the job appears, the campaign points at it.  SQLAlchemy writes
\* campaign.status only when it differs from the value loaded at the start.
SubmitCommit(r) ==
  LET j == created + 1
      c == reqCampaign[r]
  IN
  /\ reqPc[r] = "inserted"
  /\ created < MaxJobs
  /\ created' = j
  /\ status' = [status EXCEPT ![j] = "queued"]
  /\ jobHome' = [jobHome EXCEPT ![j] = reqHome[r]]
  /\ jobCampaign' = [jobCampaign EXCEPT ![j] = c]
  /\ IF c = None
     THEN UNCHANGED campaignVars
     ELSE /\ lastJob' = [lastJob EXCEPT ![c] = j]
          /\ campaignStatus' = IF reqLoaded[r] = "queued"
                               THEN campaignStatus
                               ELSE [campaignStatus EXCEPT ![c] = "queued"]
  /\ rowLock' = [rowLock EXCEPT ![reqHome[r]] = None]
  /\ ResetRequest(r)
  /\ UNCHANGED <<cancelRequested, leaseLapsed, stale, workerVars>>

\* cancel_job finds a job that has not ended (on an ended one it does nothing).
CancelBegin(r, j) ==
  /\ reqPc[r] = "idle"
  /\ status[j] \in Active
  /\ reqPc' = [reqPc EXCEPT ![r] = "cancelling"]
  /\ reqJob' = [reqJob EXCEPT ![r] = j]
  /\ UNCHANGED <<dbVars, campaignVars, rowLock, stale, reqHome, reqCampaign,
                 reqLoaded, workerVars>>

CancelReadsSeq(r) ==
  /\ reqPc[r] = "cancelling"
  /\ reqPc' = [reqPc EXCEPT ![r] = "cancelSeq"]
  /\ UNCHANGED <<dbVars, campaignVars, rowLock, stale, reqHome, reqCampaign,
                 reqLoaded, reqJob, workerVars>>

CancelCommit(r) ==
  /\ reqPc[r] = "cancelSeq"
  /\ r \notin stale
  /\ cancelRequested' = [cancelRequested EXCEPT ![reqJob[r]] = TRUE]
  /\ Records(r, {reqJob[r]})
  /\ ResetRequest(r)
  /\ UNCHANGED <<created, status, jobHome, jobCampaign, leaseLapsed,
                 campaignVars, rowLock, workerVars>>

\* The event number was taken: IntegrityError, get_db rolls back, a 500.
CancelConflict(r) ==
  /\ reqPc[r] = "cancelSeq"
  /\ r \in stale
  /\ Abandons(r)
  /\ ResetRequest(r)
  /\ UNCHANGED <<dbVars, campaignVars, rowLock, workerVars>>

\* The API process stops, or the handler fails elsewhere: rollback.
RequestAborts(r) ==
  /\ reqPc[r] # "idle"
  /\ rowLock' = [ws \in Workspaces |-> IF rowLock[ws] = r THEN None ELSE rowLock[ws]]
  /\ Abandons(r)
  /\ ResetRequest(r)
  /\ UNCHANGED <<dbVars, campaignVars, workerVars>>

-----------------------------------------------------------------------------
(***************************************************************************)
(* Worker processes                                                        *)
(***************************************************************************)
Holds(w, j) == workerPc[w] \in Working /\ workerJob[w] = j

\* Deliberate error: a sweep that overlooks jobs claimed but not started.
ExpiredRunning(skipped) ==
  {j \in Jobs \ skipped : status[j] = "running" /\ leaseLapsed[j]}

\* fail_expired_job_leases: what the sweep of Poll ends.
Expired(skipped) ==
  {j \in Jobs \ skipped : status[j] \in {"leased", "running"} /\ leaseLapsed[j]}

\* The oldest queued job the claim query may lock; {} when there is none.
NextQueued(skipped) ==
  LET queued == {j \in Jobs \ skipped : status[j] = "queued"}
  IN  {j \in queued : \A i \in queued : j <= i}

\* Deliberate error: a claim that does not look at cancel_requested.
RunsEvenCancelled(claimed) == claimed

RunsOf(claimed) == {j \in claimed : ~cancelRequested[j]}

\* Deliberate error: expired jobs are queued again, up to max_attempts.
SweepRequeues(expired, claimed) ==
  [j \in Jobs |-> IF j \in RunsOf(claimed) THEN "leased"
                 ELSE IF j \in claimed THEN "cancelled"
                 ELSE IF j \in expired THEN "queued"
                 ELSE status[j]]

\* The status column after the sweep and the claim.
SweepAndClaim(expired, claimed) ==
  [j \in Jobs |-> IF j \in RunsOf(claimed) THEN "leased"
                 ELSE IF j \in claimed THEN "cancelled"
                 ELSE IF j \in expired THEN "failed"
                 ELSE status[j]]

\* One turn of worker_loop's claim transaction: sweep, claim, and either keep
\* the job or, when its cancellation was requested, end it.
Poll(w, skipped) ==
  LET expired == Expired(skipped)
      claimed == NextQueued(skipped)
  IN
  /\ workerPc[w] = "idle"
  /\ status' = SweepAndClaim(expired, claimed)
  /\ campaignStatus' = [c \in Campaigns |->
                          IF lastJob[c] \in expired THEN "failed" ELSE campaignStatus[c]]
  /\ Records(w, expired \cup claimed)
  /\ \/ /\ RunsOf(claimed) = {}
        /\ UNCHANGED workerVars
     \/ \E j \in RunsOf(claimed) :
          /\ workerPc' = [workerPc EXCEPT ![w] = "start"]
          /\ workerJob' = [workerJob EXCEPT ![w] = j]
          /\ renewer' = [renewer EXCEPT ![w] = "on"]
  /\ UNCHANGED <<created, jobHome, jobCampaign, cancelRequested, leaseLapsed,
                 lastJob, rowLock, reqVars>>

\* The worker enters another stage of the same job without touching the rows.
Moves(w, from, to) ==
  /\ workerPc[w] = from
  /\ workerPc' = [workerPc EXCEPT ![w] = to]
  /\ UNCHANGED <<dbVars, campaignVars, rowLock, stale, reqVars, workerJob, renewer>>

\* The transaction fails on its event number and is rolled back.
Conflicts(w, from, to) ==
  /\ w \in stale
  /\ workerPc[w] = from
  /\ workerPc' = [workerPc EXCEPT ![w] = to]
  /\ Abandons(w)
  /\ UNCHANGED <<dbVars, campaignVars, rowLock, reqVars, workerJob, renewer>>

\* The finally clause of worker_loop: the renewal task is cancelled.
Leaves(w, to) ==
  /\ workerPc' = [workerPc EXCEPT ![w] = to]
  /\ workerJob' = [workerJob EXCEPT ![w] = None]
  /\ renewer' = [renewer EXCEPT ![w] = "off"]

\* The mark_job_* functions assign the status unconditionally.
MarkRunning(j)   == status' = [status EXCEPT ![j] = "running"]
MarkSucceeded(j) == status' = [status EXCEPT ![j] = "succeeded"]
MarkFailed(j)    == status' = [status EXCEPT ![j] = "failed"]

\* Deliberate error: the campaign keeps the status it has.
PrepareCampaignAsIs(c) == UNCHANGED campaignStatus

\* prepare_campaign_job queues the campaign (again).
PrepareCampaign(c) ==
  campaignStatus' = IF c = None THEN campaignStatus
                    ELSE [campaignStatus EXCEPT ![c] = "queued"]

\* persist_campaign_execution, in the transaction that marks the job.
PersistCampaignExecution(j) ==
  LET c == jobCampaign[j]
  IN  IF c = None
      THEN UNCHANGED campaignVars
      ELSE /\ campaignStatus' = [campaignStatus EXCEPT ![c] = "completed"]
           /\ lastJob' = [lastJob EXCEPT ![c] = j]

\* First transaction of _process_*: mark_job_running reads the event number.
StartReadsSeq(w) == Moves(w, "start", "startSeq")

\* ... and commits.
StartCommit(w) ==
  LET j == workerJob[w] IN
  /\ workerPc[w] = "startSeq"
  /\ w \notin stale
  /\ MarkRunning(j)
  /\ PrepareCampaign(jobCampaign[j])
  /\ Records(w, {j})
  /\ workerPc' = [workerPc EXCEPT ![w] = "driver"]
  /\ UNCHANGED <<created, jobHome, jobCampaign, cancelRequested, leaseLapsed,
                 lastJob, rowLock, reqVars, workerJob, renewer>>

StartConflict(w) == Conflicts(w, "startSeq", "handler")

\* prepare_campaign_job raises "Campaign has no matched contacts": rollback.
StartHasNoContacts(w) ==
  /\ workerPc[w] = "startSeq"
  /\ w \notin stale
  /\ jobCampaign[workerJob[w]] # None
  /\ workerPc' = [workerPc EXCEPT ![w] = "handler"]
  /\ UNCHANGED <<dbVars, campaignVars, rowLock, stale, reqVars, workerJob, renewer>>

\* _driver_for_workspace returns, or raises outside the try of _process_*.
DriverReady(w) == Moves(w, "driver", "browse")
DriverFails(w) == Moves(w, "driver", "handler")

\* progress_callback of a campaign, on the Playwright thread; emit_progress
\* swallows its exceptions.
ProgressReadsSeq(w) ==
  /\ Moves(w, "browse", "progressSeq")
  /\ jobCampaign[workerJob[w]] # None

ProgressCommit(w) ==
  /\ workerPc[w] = "progressSeq"
  /\ w \notin stale
  /\ leaseLapsed' = [leaseLapsed EXCEPT ![workerJob[w]] = FALSE]
  /\ Records(w, {workerJob[w]})
  /\ workerPc' = [workerPc EXCEPT ![w] = "browse"]
  /\ UNCHANGED <<created, status, jobHome, jobCampaign, cancelRequested,
                 campaignVars, rowLock, reqVars, workerJob, renewer>>

ProgressConflict(w) == Conflicts(w, "progressSeq", "browse")

\* The driver operation returns a result or raises; the transaction that
\* stores the outcome has read its event number.
BrowseSucceeds(w) == Moves(w, "browse", "succeedSeq")
BrowseFails(w)    == Moves(w, "browse", "failSeq")

SucceedCommit(w) ==
  LET j == workerJob[w] IN
  /\ workerPc[w] = "succeedSeq"
  /\ w \notin stale
  /\ MarkSucceeded(j)
  /\ PersistCampaignExecution(j)
  /\ Records(w, {j})
  /\ Leaves(w, "idle")
  /\ UNCHANGED <<created, jobHome, jobCampaign, cancelRequested, leaseLapsed,
                 rowLock, reqVars>>

FailCommit(w) ==
  LET j == workerJob[w]
      c == jobCampaign[j]
  IN
  /\ workerPc[w] = "failSeq"
  /\ w \notin stale
  /\ MarkFailed(j)
  /\ campaignStatus' = IF c = None THEN campaignStatus
                       ELSE [campaignStatus EXCEPT ![c] = "failed"]
  /\ Records(w, {j})
  /\ Leaves(w, "idle")
  /\ UNCHANGED <<created, jobHome, jobCampaign, cancelRequested, leaseLapsed,
                 lastJob, rowLock, reqVars>>

SucceedConflict(w) == Conflicts(w, "succeedSeq", "handler")
FailConflict(w)    == Conflicts(w, "failSeq", "handler")

\* worker_loop's except clause: load the job, and fail it unless it has ended.
HandlerLoads(w) ==
  /\ Moves(w, "handler", "handlerLoaded")
  /\ status[workerJob[w]] \notin Terminal

HandlerFindsEnded(w) ==
  /\ workerPc[w] = "handler"
  /\ status[workerJob[w]] \in Terminal
  /\ Leaves(w, "idle")
  /\ UNCHANGED <<dbVars, campaignVars, rowLock, stale, reqVars>>

HandlerReadsSeq(w) == Moves(w, "handlerLoaded", "handlerSeq")

HandlerCommit(w) ==
  /\ workerPc[w] = "handlerSeq"
  /\ w \notin stale
  /\ MarkFailed(workerJob[w])
  /\ Records(w, {workerJob[w]})
  /\ Leaves(w, "idle")
  /\ UNCHANGED <<created, jobHome, jobCampaign, cancelRequested, leaseLapsed,
                 campaignVars, rowLock, reqVars>>

\* The handler's own transaction fails: nothing catches it, the process ends.
HandlerConflict(w) ==
  /\ workerPc[w] = "handlerSeq"
  /\ w \in stale
  /\ Abandons(w)
  /\ Leaves(w, "down")
  /\ UNCHANGED <<dbVars, campaignVars, rowLock, reqVars>>

\* The renewal task runs while the worker awaits the driver.  Its ticks keep
\* the lease in the future; it ends when the job has ended, or for good when a
\* tick raises, which nobody sees before the job is over.
RenewerStops(w) ==
  /\ renewer[w] = "on"
  /\ workerPc[w] \in {"driver", "browse", "progressSeq"}
  /\ RenewalMayFail \/ status[workerJob[w]] \in Terminal
  /\ renewer' = [renewer EXCEPT ![w] = "dead"]
  /\ UNCHANGED <<dbVars, campaignVars, rowLock, stale, reqVars, workerPc, workerJob>>

\* Deliberate error: the lease is renewed only until the job starts.
UnrenewedOnceStarted(j) ==
  \A w \in Workers : Holds(w, j) => workerPc[w] \notin {"start", "startSeq"}

Unrenewed(j) == \A w \in Workers : Holds(w, j) => renewer[w] # "on"

\* Sixty seconds pass that no renewal task has bridged.
LeaseLapses(j) ==
  /\ status[j] \in {"leased", "running"}
  /\ ~leaseLapsed[j]
  /\ Unrenewed(j)
  /\ leaseLapsed' = [leaseLapsed EXCEPT ![j] = TRUE]
  /\ UNCHANGED <<created, status, jobHome, jobCampaign, cancelRequested,
                 campaignVars, rowLock, stale, reqVars, workerVars>>

\* The process is killed at any point; its open transaction is rolled back.
Crash(w) ==
  /\ workerPc[w] # "down"
  /\ Abandons(w)
  /\ Leaves(w, "down")
  /\ UNCHANGED <<dbVars, campaignVars, rowLock, reqVars>>

Restart(w) == Moves(w, "down", "idle")

-----------------------------------------------------------------------------
RequestStep(r) ==
  \/ \E ws \in Workspaces, c \in Campaigns \cup {None} : SubmitBegin(r, ws, c)
  \/ SubmitRejected(r) \/ SubmitInsert(r) \/ SubmitCommit(r)
  \/ \E j \in Jobs : CancelBegin(r, j)
  \/ CancelReadsSeq(r) \/ CancelCommit(r) \/ CancelConflict(r)
  \/ RequestAborts(r)

WorkerStep(w) ==
  \/ \E skipped \in SUBSET Lockable : Poll(w, skipped)
  \/ StartReadsSeq(w) \/ StartCommit(w) \/ StartConflict(w) \/ StartHasNoContacts(w)
  \/ DriverReady(w) \/ DriverFails(w)
  \/ ProgressReadsSeq(w) \/ ProgressCommit(w) \/ ProgressConflict(w)
  \/ BrowseSucceeds(w) \/ BrowseFails(w)
  \/ SucceedCommit(w) \/ SucceedConflict(w) \/ FailCommit(w) \/ FailConflict(w)
  \/ HandlerLoads(w) \/ HandlerFindsEnded(w) \/ HandlerReadsSeq(w)
  \/ HandlerCommit(w) \/ HandlerConflict(w)
  \/ RenewerStops(w) \/ Crash(w) \/ Restart(w)

Next ==
  \/ \E r \in Requests : RequestStep(r)
  \/ \E w \in Workers : WorkerStep(w)
  \/ \E j \in Jobs : LeaseLapses(j)

Spec == Init /\ [][Next]_vars

-----------------------------------------------------------------------------
(***************************************************************************)
(* Fairness.  Supervisors restart a dead worker, time passes, and a worker *)
(* that is up executes its next statement.  Only what may be interrupted   *)
(* again and again needs strong fairness: a poll that meets no locked row  *)
(* (row locks last milliseconds, polls are seconds apart, and each run of  *)
(* the process begins with one), and the return of a driver operation,     *)
(* which reports progress a finite number of times.                        *)
(***************************************************************************)
WorkerFairness(w) ==
  /\ SF_vars(Poll(w, {}))
  /\ WF_vars(StartReadsSeq(w)) /\ WF_vars(StartCommit(w) \/ StartConflict(w))
  /\ WF_vars(DriverReady(w) \/ DriverFails(w))
  /\ SF_vars(BrowseSucceeds(w) \/ BrowseFails(w))
  /\ WF_vars(ProgressCommit(w) \/ ProgressConflict(w))
  /\ WF_vars(SucceedCommit(w) \/ SucceedConflict(w))
  /\ WF_vars(FailCommit(w) \/ FailConflict(w))
  /\ WF_vars(HandlerLoads(w) \/ HandlerFindsEnded(w))
  /\ WF_vars(HandlerReadsSeq(w)) /\ WF_vars(HandlerCommit(w) \/ HandlerConflict(w))
  /\ WF_vars(Restart(w))

FairSpec ==
  /\ Spec
  /\ \A w \in Workers : WorkerFairness(w)
  /\ \A j \in Jobs : WF_vars(LeaseLapses(j))

-----------------------------------------------------------------------------
(***************************************************************************)
(* Properties                                                              *)
(***************************************************************************)

\* At any time at most one job of a workspace is queued, leased or running,
\* however submissions, claims, sweeps, crashes and late results interleave
\* (create_job's row lock, and every later transition of a job).
OneActiveJobPerWorkspace ==
  \A i, j \in Jobs :
    /\ status[i] \in Active
    /\ status[j] \in Active
    /\ jobHome[i] = jobHome[j]
    => i = j

\* No two workers ever execute the same job (claim_next_job's row lock, and
\* no path that queues a job again).
ClaimsAreExclusive ==
  \A v, w \in Workers :
    /\ workerPc[v] \in Working
    /\ workerPc[w] \in Working
    /\ workerJob[v] = workerJob[w]
    => v = w

\* The state in which the queue may be trusted: one worker process, or lease
\* renewals that never fail.
Fenced == ~RenewalMayFail \/ \A v, w \in Workers : v = w

\* A job the database reports as ended has no worker still executing it: what
\* the sweep says of an expired job, "The worker stopped before this browser
\* job completed. Retry the operation.", is true of its worker.
EndedJobsHaveStopped ==
  \A w \in Workers :
    workerPc[w] \in Working => status[workerJob[w]] \in {"leased", "running"}

\* Two workers never drive the browser for the same workspace at once.
OneBrowserJobPerWorkspace ==
  \A v, w \in Workers :
    /\ workerPc[v] \in {"driver", "browse", "progressSeq"}
    /\ workerPc[w] \in {"driver", "browse", "progressSeq"}
    /\ jobHome[workerJob[v]] = jobHome[workerJob[w]]
    => v = w

\* A running campaign job is the last job of its campaign, which then counts
\* as queued; and when the last job has succeeded the campaign is completed
\* (execute_campaign, prepare_campaign_job and persist_campaign_execution
\* write the two rows, the sweep finds the campaign through last_job_id).
CampaignFollowsItsJob ==
  \A j \in Jobs :
    LET c == jobCampaign[j]
    IN  c # None =>
          /\ status[j] = "running" => lastJob[c] = j /\ campaignStatus[c] = "queued"
          /\ status[j] = "succeeded" /\ lastJob[c] = j => campaignStatus[c] = "completed"

\* An ended job keeps its outcome: a success is never turned into a failure
\* or a failure into a success by a sweep or a late worker.
OutcomeIsFinal ==
  [][\A j \in Jobs : status[j] \in Terminal => status'[j] = status[j]]_vars

\* A cancellation recorded before the claim takes effect: such a job is never
\* leased, it is cancelled by the worker that would have run it.
CancelledBeforeClaimNeverRuns ==
  [][\A j \in Jobs : status[j] = "queued" /\ cancelRequested[j]
                        => status'[j] \in {"queued", "cancelled"}]_vars

\* Every submitted job ends, although workers crash, renewals fail and event
\* numbers collide: its workspace can submit again.
SubmittedJobsEnd ==
  \A j \in Jobs : status[j] \in Active ~> status[j] \in Terminal

\* The queue implements the slot of each workspace.
Phase(j) ==
  IF status[j] = None THEN "none"
  ELSE IF status[j] \in Active THEN "open" ELSE "closed"

Slots == INSTANCE WorkspaceSlots
           WITH phase <- [j \in Jobs |-> Phase(j)], home <- jobHome

SlotsSpec == Slots!SlotSpec

\* Failures return structured errors: a cancellation is never lost to another
\* event of the same job (that ends in an IntegrityError and a bare 500).
CancellationsAreRecorded ==
  \A r \in Requests : reqPc[r] = "cancelSeq" => r \notin stale

=============================================================================
