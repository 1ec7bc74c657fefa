--------------------------- MODULE JobQueueProofs ---------------------------
(***************************************************************************)
(* Proofs about JobQueue, for every number of workspaces, workers,         *)
(* requests, campaigns and jobs.                                           *)
(***************************************************************************)
EXTENDS JobQueue, TLAPS

\* A worker that is executing a job knows which one.
HoldersHaveJobs ==
  \A w \in Workers : workerPc[w] \in Working => workerJob[w] \in Jobs

TypeInv == TypeOK /\ HoldersHaveJobs

\* Types: what each action assigns to each variable stays in its type, because
\* a working worker's job is a row (last_job_id is only ever set to a row).
LEMMA TypeInvInit == Init => TypeInv
<1> SUFFICES ASSUME Init PROVE TypeInv
  OBVIOUS
<1>1. TypeOK
  BY MaxJobsAssumption DEF Init, TypeOK, CampaignStatus, ReqPcs, WorkerPcs
<1>2. HoldersHaveJobs
  BY DEF Init, HoldersHaveJobs, Working, SeqPcs
<1> QED BY <1>1, <1>2 DEF TypeInv

LEMMA TypeInvRequest ==
  ASSUME TypeInv, NEW r \in Requests, RequestStep(r)
  PROVE  TypeInv'
<1> USE MaxJobsAssumption DEF TypeInv, TypeOK, HoldersHaveJobs, dbVars,
        campaignVars, reqVars, workerVars, ReqPcs
<1>1. ASSUME NEW ws \in Workspaces, NEW c \in Campaigns \cup {None},
             SubmitBegin(r, ws, c)
      PROVE  TypeInv'
  BY <1>1 DEF SubmitBegin
<1>2. CASE SubmitRejected(r)
  BY <1>2 DEF SubmitRejected, ResetRequest
<1>3. CASE SubmitInsert(r)
  BY <1>3 DEF SubmitInsert
<1>4. CASE SubmitCommit(r)
  <2>1. created + 1 \in Jobs /\ created + 1 \in 0 .. MaxJobs
    BY <1>4 DEF SubmitCommit, Jobs
  <2>2. /\ created' \in 0 .. MaxJobs
        /\ status' \in [Jobs -> JobStatus \cup {None}]
        /\ jobHome' \in [Jobs -> Workspaces \cup {None}]
        /\ jobCampaign' \in [Jobs -> Campaigns \cup {None}]
    BY <1>4, <2>1 DEF SubmitCommit, JobStatus
  <2>3. /\ campaignStatus' \in [Campaigns -> CampaignStatus]
        /\ lastJob' \in [Campaigns -> Jobs \cup {None}]
    BY <1>4, <2>1 DEF SubmitCommit, CampaignStatus
  <2>4. /\ rowLock' \in [Workspaces -> Requests \cup {None}]
        /\ stale' \subseteq Requests \cup Workers
    BY <1>4 DEF SubmitCommit
  <2> QED BY <1>4, <2>2, <2>3, <2>4 DEF SubmitCommit, ResetRequest
<1>5. ASSUME NEW j \in Jobs, CancelBegin(r, j)
      PROVE  TypeInv'
  BY <1>5 DEF CancelBegin
<1>6. CASE CancelReadsSeq(r)
  BY <1>6 DEF CancelReadsSeq
<1>7. CASE CancelCommit(r)
  BY <1>7 DEF CancelCommit, ResetRequest, Records, Readers
<1>8. CASE CancelConflict(r)
  BY <1>8 DEF CancelConflict, ResetRequest, Abandons
<1>9. CASE RequestAborts(r)
  BY <1>9 DEF RequestAborts, ResetRequest, Abandons
<1> QED
  BY <1>1, <1>2, <1>3, <1>4, <1>5, <1>6, <1>7, <1>8, <1>9 DEF RequestStep

\* What a committed event does to the stale transactions keeps its type.
LEMMA StaleType ==
  ASSUME TypeOK, NEW me, NEW js, Records(me, js) \/ Abandons(me)
  PROVE  stale' \subseteq Requests \cup Workers
BY DEF TypeOK, Records, Abandons, Readers

LEMMA TypeInvPoll ==
  ASSUME TypeInv, NEW w \in Workers, NEW skipped, Poll(w, skipped)
  PROVE  TypeInv'
<1> DEFINE expired == Expired(skipped)
           claimed == NextQueued(skipped)
<1>1. stale' \subseteq Requests \cup Workers
  BY StaleType DEF TypeInv, Poll
<1>2. claimed \subseteq Jobs /\ RunsOf(claimed) \subseteq Jobs
  BY DEF NextQueued, RunsOf
<1>3. status' \in [Jobs -> JobStatus \cup {None}]
  BY DEF Poll, SweepAndClaim, JobStatus, TypeInv, TypeOK
<1>4. campaignStatus' \in [Campaigns -> CampaignStatus]
  BY DEF Poll, CampaignStatus, TypeInv, TypeOK
<1>5. /\ workerPc' \in [Workers -> WorkerPcs]
      /\ workerJob' \in [Workers -> Jobs \cup {None}]
      /\ renewer' \in [Workers -> {"off", "on", "dead"}]
      /\ HoldersHaveJobs'
  BY <1>2 DEF Poll, TypeInv, TypeOK, workerVars, WorkerPcs, Working, HoldersHaveJobs
<1> QED BY <1>1, <1>3, <1>4, <1>5 DEF Poll, TypeInv, TypeOK, reqVars

LEMMA TypeInvWorker ==
  ASSUME TypeInv, NEW w \in Workers, WorkerStep(w)
  PROVE  TypeInv'
<1> USE DEF TypeInv, TypeOK, HoldersHaveJobs, dbVars, campaignVars, reqVars,
        workerVars, WorkerPcs, Working, SeqPcs
<1>1. ASSUME NEW skipped, Poll(w, skipped) PROVE TypeInv'
  BY <1>1, TypeInvPoll
<1>2. CASE StartReadsSeq(w)
  BY <1>2 DEF StartReadsSeq, Moves
<1>3. CASE StartCommit(w)
  BY <1>3, StaleType DEF StartCommit, PrepareCampaign, JobStatus, CampaignStatus,
          MarkRunning
<1>4. CASE StartConflict(w)
  BY <1>4, StaleType DEF StartConflict, Conflicts
<1>5. CASE StartHasNoContacts(w)
  BY <1>5 DEF StartHasNoContacts
<1>6. CASE DriverReady(w) \/ DriverFails(w)
  BY <1>6 DEF DriverReady, DriverFails, Moves
<1>7. CASE ProgressReadsSeq(w)
  BY <1>7 DEF ProgressReadsSeq, Moves
<1>8. CASE ProgressCommit(w)
  <2>1. stale' \subseteq Requests \cup Workers
    BY <1>8, StaleType DEF ProgressCommit
  <2>2. leaseLapsed' \in [Jobs -> BOOLEAN]
    BY <1>8 DEF ProgressCommit
  <2>3. workerPc' = [workerPc EXCEPT ![w] = "browse"]
    BY <1>8 DEF ProgressCommit
  <2> QED BY <1>8, <2>1, <2>2, <2>3 DEF ProgressCommit
<1>9. CASE ProgressConflict(w)
  BY <1>9, StaleType DEF ProgressConflict, Conflicts
<1>10. CASE BrowseSucceeds(w) \/ BrowseFails(w)
  BY <1>10 DEF BrowseSucceeds, BrowseFails, Moves
<1>11. CASE SucceedCommit(w)
  <2>1. stale' \subseteq Requests \cup Workers
    BY <1>11, StaleType DEF SucceedCommit, MarkSucceeded, PersistCampaignExecution
  <2>2. /\ campaignStatus' \in [Campaigns -> CampaignStatus]
        /\ lastJob' \in [Campaigns -> Jobs \cup {None}]
    BY <1>11 DEF SucceedCommit, CampaignStatus, MarkSucceeded, PersistCampaignExecution
  <2> QED BY <1>11, <2>1, <2>2 DEF SucceedCommit, Leaves, JobStatus,
          MarkSucceeded, PersistCampaignExecution
<1>12. CASE SucceedConflict(w) \/ FailConflict(w)
  BY <1>12, StaleType DEF SucceedConflict, FailConflict, Conflicts
<1>13. CASE FailCommit(w)
  <2>1. stale' \subseteq Requests \cup Workers
    BY <1>13, StaleType DEF FailCommit, MarkFailed
  <2>2. campaignStatus' \in [Campaigns -> CampaignStatus]
    BY <1>13 DEF FailCommit, CampaignStatus, MarkFailed
  <2> QED BY <1>13, <2>1, <2>2 DEF FailCommit, Leaves, JobStatus, MarkFailed
<1>14. CASE HandlerLoads(w) \/ HandlerReadsSeq(w)
  BY <1>14 DEF HandlerLoads, HandlerReadsSeq, Moves
<1>15. CASE HandlerFindsEnded(w)
  BY <1>15 DEF HandlerFindsEnded, Leaves
<1>16. CASE HandlerCommit(w)
  BY <1>16, StaleType DEF HandlerCommit, Leaves, JobStatus, MarkFailed
<1>17. CASE HandlerConflict(w) \/ Crash(w)
  <2>1. CASE HandlerConflict(w)
    BY <2>1, StaleType DEF HandlerConflict, Leaves
  <2>2. CASE Crash(w)
    BY <2>2, StaleType DEF Crash, Leaves
  <2> QED
    BY <1>17, <2>1, <2>2
<1>18. CASE RenewerStops(w)
  BY <1>18 DEF RenewerStops
<1>19. CASE Restart(w)
  BY <1>19 DEF Restart, Moves
<1> QED
  BY <1>1, <1>2, <1>3, <1>4, <1>5, <1>6, <1>7, <1>8, <1>9, <1>10, <1>11, <1>12,
     <1>13, <1>14, <1>15, <1>16, <1>17, <1>18, <1>19 DEF WorkerStep

LEMMA TypeInvNext == TypeInv /\ [Next]_vars => TypeInv'
<1> SUFFICES ASSUME TypeInv, [Next]_vars PROVE TypeInv'
  OBVIOUS
<1>1. ASSUME NEW r \in Requests, RequestStep(r) PROVE TypeInv'
  BY <1>1, TypeInvRequest
<1>2. ASSUME NEW w \in Workers, WorkerStep(w) PROVE TypeInv'
  BY <1>2, TypeInvWorker
<1>3. ASSUME NEW j \in Jobs, LeaseLapses(j) PROVE TypeInv'
  BY <1>3 DEF LeaseLapses, TypeInv, TypeOK, HoldersHaveJobs, campaignVars,
          reqVars, workerVars
<1>4. CASE UNCHANGED vars
  BY <1>4 DEF vars, TypeInv, TypeOK, HoldersHaveJobs, dbVars, campaignVars,
          reqVars, workerVars
<1> QED BY <1>1, <1>2, <1>3, <1>4 DEF Next

\* Every reachable state is well typed: in particular a row that a worker or a
\* campaign points at exists, whatever was rolled back in between.
THEOREM TypeCorrect == Spec => []TypeOK
<1>1. TypeInv => TypeOK
  BY DEF TypeInv
<1> QED BY <1>1, TypeInvInit, TypeInvNext, PTL DEF Spec

-----------------------------------------------------------------------------
(***************************************************************************)
(* The inductive invariant behind OneActiveJobPerWorkspace.  A workspace   *)
(* gains an active job only when a submission commits, so it is enough     *)
(* that the workspace has none when that happens: the submission has held  *)
(* the row lock since it looked (SubmissionsHoldTheLock), and no worker    *)
(* has brought an ended job back (StartsAreFresh: mark_job_running, which  *)
(* checks nothing, only ever meets a leased job).  The other parts say     *)
(* that a job is in the hands of one worker from its claim on.             *)
(***************************************************************************)
Started == {"start", "startSeq"}

RowsAreNumbered == \A j \in Jobs : j > created => status[j] = None

SubmissionsHaveHomes ==
  \A r \in Requests :
    reqPc[r] \in {"submitting", "inserted"} => reqHome[r] \in Workspaces

SubmissionsHoldTheLock ==
  \A r \in Requests :
    reqPc[r] = "inserted" =>
      /\ rowLock[reqHome[r]] = r
      /\ \A j \in Jobs : status[j] \in Active => jobHome[j] # reqHome[r]

HeldJobsAreClaimed ==
  \A w \in Workers :
    workerPc[w] \in Working => status[workerJob[w]] \notin {None, "queued"}

WaitingJobsHaveNoLease ==
  \A j \in Jobs : status[j] \in {None, "queued"} => ~leaseLapsed[j]

StartsAreFresh ==
  \A w \in Workers :
    workerPc[w] \in Started =>
      /\ status[workerJob[w]] = "leased"
      /\ ~leaseLapsed[workerJob[w]]
      /\ renewer[w] = "on"

WorkerInv ==
  /\ HeldJobsAreClaimed
  /\ ClaimsAreExclusive
  /\ WaitingJobsHaveNoLease
  /\ StartsAreFresh

RowInv ==
  /\ RowsAreNumbered
  /\ SubmissionsHaveHomes
  /\ SubmissionsHoldTheLock
  /\ OneActiveJobPerWorkspace

QueueInv == TypeInv /\ WorkerInv /\ RowInv

\* What every step of a worker but its poll amounts to: it touches only the job
\* it holds, never picks up another, and leaves the started stage for good.
LocalStep(w) ==
  /\ \A v \in Workers \ {w} : /\ workerPc'[v] = workerPc[v]
                              /\ workerJob'[v] = workerJob[v]
                              /\ renewer'[v] = renewer[v]
  /\ \A j \in Jobs : ~Holds(w, j) => /\ status'[j] = status[j]
                                     /\ leaseLapsed'[j] = leaseLapsed[j]
  /\ \A j \in Jobs : Holds(w, j) =>
       status'[j] \in {status[j], "succeeded", "failed"}
         \/ (status[j] \in Active /\ status'[j] = "running")
  /\ workerPc'[w] \in Working => /\ workerPc[w] \in Working
                                /\ workerJob'[w] = workerJob[w]
  /\ workerPc'[w] \in Started => /\ workerPc[w] \in Started
                                /\ status' = status
                                /\ leaseLapsed' = leaseLapsed
                                /\ renewer'[w] = renewer[w]
  /\ UNCHANGED <<created, jobHome, rowLock, reqVars>>

LEMMA WorkerStepsAreLocal ==
  ASSUME TypeInv, WorkerInv, NEW w \in Workers, WorkerStep(w),
         \A skipped \in SUBSET Lockable : ~Poll(w, skipped)
  PROVE  LocalStep(w)
<1> USE DEF TypeInv, TypeOK, HoldersHaveJobs, dbVars, reqVars, workerVars,
        Working, SeqPcs, LocalStep, Started, Holds
<1>2. CASE StartReadsSeq(w)
  BY <1>2 DEF StartReadsSeq, Moves
<1>3. CASE StartCommit(w)
  <2>1. status[workerJob[w]] \in Active
    BY <1>3 DEF StartCommit, WorkerInv, StartsAreFresh, Active, MarkRunning
  <2> QED BY <1>3, <2>1 DEF StartCommit, MarkRunning
<1>4. CASE StartConflict(w)
  BY <1>4 DEF StartConflict, Conflicts
<1>5. CASE StartHasNoContacts(w)
  BY <1>5 DEF StartHasNoContacts
<1>6. CASE DriverReady(w) \/ DriverFails(w)
  BY <1>6 DEF DriverReady, DriverFails, Moves
<1>7. CASE ProgressReadsSeq(w)
  BY <1>7 DEF ProgressReadsSeq, Moves
<1>8. CASE ProgressCommit(w)
  BY <1>8 DEF ProgressCommit
<1>9. CASE ProgressConflict(w)
  BY <1>9 DEF ProgressConflict, Conflicts
<1>10. CASE BrowseSucceeds(w) \/ BrowseFails(w)
  BY <1>10 DEF BrowseSucceeds, BrowseFails, Moves
<1>11. CASE SucceedCommit(w)
  BY <1>11 DEF SucceedCommit, Leaves, MarkSucceeded, PersistCampaignExecution
<1>12. CASE SucceedConflict(w) \/ FailConflict(w)
  BY <1>12 DEF SucceedConflict, FailConflict, Conflicts
<1>13. CASE FailCommit(w)
  BY <1>13 DEF FailCommit, Leaves, MarkFailed
<1>14. CASE HandlerLoads(w) \/ HandlerReadsSeq(w)
  BY <1>14 DEF HandlerLoads, HandlerReadsSeq, Moves
<1>15. CASE HandlerFindsEnded(w)
  BY <1>15 DEF HandlerFindsEnded, Leaves
<1>16. CASE HandlerCommit(w)
  BY <1>16 DEF HandlerCommit, Leaves, MarkFailed
<1>17. CASE HandlerConflict(w) \/ Crash(w)
  BY <1>17 DEF HandlerConflict, Crash, Leaves
<1>18. CASE RenewerStops(w)
  BY <1>18 DEF RenewerStops
<1>19. CASE Restart(w)
  BY <1>19 DEF Restart, Moves
<1> QED
  BY <1>2, <1>3, <1>4, <1>5, <1>6, <1>7, <1>8, <1>9, <1>10, <1>11, <1>12,
     <1>13, <1>14, <1>15, <1>16, <1>17, <1>18, <1>19 DEF WorkerStep

LEMMA WorkerInvLocal ==
  ASSUME TypeInv, WorkerInv, NEW w \in Workers, LocalStep(w)
  PROVE  WorkerInv'
<1> USE NoneAssumption DEF TypeInv, TypeOK, HoldersHaveJobs, WorkerInv, Holds, JobStatus
<1>1. \A v \in Workers : workerPc'[v] \in Working =>
        /\ workerPc[v] \in Working
        /\ workerJob'[v] = workerJob[v]
        /\ workerJob[v] \in Jobs
  BY DEF LocalStep
<1>2. ClaimsAreExclusive'
  BY <1>1 DEF ClaimsAreExclusive
<1>3. \A j \in Jobs : status[j] \notin {None, "queued"}
                       => status'[j] \notin {None, "queued"}
  BY DEF LocalStep, Active
<1>4. HeldJobsAreClaimed'
  BY <1>1, <1>3 DEF HeldJobsAreClaimed
<1>5. WaitingJobsHaveNoLease'
  BY DEF LocalStep, WaitingJobsHaveNoLease, HeldJobsAreClaimed, Active
<1>6. StartsAreFresh'
  <2> SUFFICES ASSUME NEW v \in Workers, workerPc'[v] \in Started
               PROVE  /\ status'[workerJob'[v]] = "leased"
                      /\ ~leaseLapsed'[workerJob'[v]]
                      /\ renewer'[v] = "on"
    BY DEF StartsAreFresh
  <2>1. workerPc[v] \in Started /\ workerPc'[v] \in Working
    BY DEF LocalStep, Started, Working, SeqPcs
  <2>2. CASE v = w
    BY <2>1, <2>2, <1>1 DEF LocalStep, StartsAreFresh
  <2>3. CASE v # w
    BY <2>1, <2>3, <1>1 DEF LocalStep, StartsAreFresh, ClaimsAreExclusive
  <2> QED BY <2>2, <2>3
<1> QED BY <1>2, <1>4, <1>5, <1>6

\* A claim takes a queued job, which no worker holds, and whose lease is new.
LEMMA WorkerInvPoll ==
  ASSUME TypeInv, WorkerInv, NEW w \in Workers, NEW skipped, Poll(w, skipped)
  PROVE  WorkerInv'
<1> DEFINE expired == Expired(skipped)
           claimed == NextQueued(skipped)
<1> USE NoneAssumption DEF TypeInv, TypeOK, HoldersHaveJobs, WorkerInv, JobStatus
<1>1. \A j \in claimed : j \in Jobs /\ status[j] = "queued"
  BY DEF NextQueued
<1>2. \A j \in expired : status[j] \in {"leased", "running"} /\ leaseLapsed[j]
  BY DEF Expired
<1>3. \A j \in Jobs :
        /\ status'[j] \in {None, "queued"} => status'[j] = status[j]
        /\ status[j] \notin {None, "queued"} => status'[j] \notin {None, "queued"}
        /\ status[j] = "leased" /\ ~leaseLapsed[j] => status'[j] = "leased"
  BY <1>1, <1>2 DEF Poll, SweepAndClaim, RunsOf
<1>4. leaseLapsed' = leaseLapsed
  BY DEF Poll
<1>5. WaitingJobsHaveNoLease'
  BY <1>3, <1>4 DEF WaitingJobsHaveNoLease
<1>6. CASE UNCHANGED workerVars
  <2>1. ClaimsAreExclusive' /\ HeldJobsAreClaimed'
    BY <1>3, <1>6 DEF workerVars, ClaimsAreExclusive, HeldJobsAreClaimed
  <2>2. StartsAreFresh'
    BY <1>3, <1>4, <1>6 DEF workerVars, StartsAreFresh, Started, Working, SeqPcs
  <2> QED BY <1>5, <2>1, <2>2
<1>7. ASSUME NEW j \in RunsOf(claimed),
             workerPc' = [workerPc EXCEPT ![w] = "start"],
             workerJob' = [workerJob EXCEPT ![w] = j],
             renewer' = [renewer EXCEPT ![w] = "on"]
      PROVE  WorkerInv'
  <2>1. j \in Jobs /\ status[j] = "queued" /\ ~leaseLapsed[j]
    BY <1>1 DEF RunsOf, WaitingJobsHaveNoLease
  <2>2. status'[j] = "leased"
    BY <1>7, <2>1 DEF Poll, SweepAndClaim
  <2>3. ClaimsAreExclusive'
    BY <1>7, <2>1 DEF ClaimsAreExclusive, HeldJobsAreClaimed
  <2>4. HeldJobsAreClaimed'
    BY <1>3, <1>7, <2>2 DEF HeldJobsAreClaimed
  <2>5. StartsAreFresh'
    BY <1>3, <1>4, <1>7, <2>1, <2>2 DEF StartsAreFresh, Started, Working, SeqPcs
  <2> QED BY <1>5, <2>3, <2>4, <2>5
<1> QED BY <1>6, <1>7 DEF Poll

\* Neither kind of worker step makes a job active that was not, and neither
\* touches a submission: what the submissions know stays true.
ActiveShrinks ==
  /\ UNCHANGED <<created, jobHome, rowLock, reqPc, reqHome>>
  /\ \A j \in Jobs : status'[j] \in Active => status[j] \in Active
  /\ \A j \in Jobs : status[j] = None <=> status'[j] = None

LEMMA LocalShrinks ==
  ASSUME TypeInv, WorkerInv, NEW w \in Workers, LocalStep(w)
  PROVE  ActiveShrinks
<1>1. \A j \in Jobs : Holds(w, j) => status[j] # None
  BY DEF WorkerInv, HeldJobsAreClaimed, Holds
<1> QED
  BY <1>1, NoneAssumption DEF LocalStep, ActiveShrinks, Active, reqVars, JobStatus

LEMMA PollShrinks ==
  ASSUME TypeInv, NEW w \in Workers, NEW skipped, Poll(w, skipped)
  PROVE  ActiveShrinks
<1> DEFINE expired == Expired(skipped)
           claimed == NextQueued(skipped)
<1>1. \A j \in claimed : status[j] = "queued"
  BY DEF NextQueued
<1>2. \A j \in expired : status[j] \in {"leased", "running"}
  BY DEF Expired
<1> QED
  BY <1>1, <1>2, NoneAssumption
  DEF Poll, SweepAndClaim, RunsOf, ActiveShrinks, Active, reqVars, JobStatus,
      TypeInv, TypeOK

LEMMA RowInvShrinks ==
  ASSUME TypeInv, RowInv, ActiveShrinks
  PROVE  RowInv'
BY DEF TypeInv, TypeOK, RowInv, ActiveShrinks, RowsAreNumbered,
       SubmissionsHaveHomes, SubmissionsHoldTheLock, OneActiveJobPerWorkspace

\* Requests do not touch workers, and give a row only to a number not in use.
LEMMA WorkerInvRequest ==
  ASSUME TypeInv, WorkerInv, RowInv, NEW r \in Requests, RequestStep(r)
  PROVE  WorkerInv'
<1>1. CASE SubmitCommit(r)
  <2> DEFINE n == created + 1
  <2>1. /\ n \in Jobs
        /\ status[n] = None
        /\ status' = [status EXCEPT ![n] = "queued"]
        /\ UNCHANGED <<leaseLapsed, workerVars>>
    BY <1>1, MaxJobsAssumption
    DEF SubmitCommit, RowInv, RowsAreNumbered, Jobs, TypeInv, TypeOK
  <2> HIDE DEF n
  <2> QED
    BY <2>1, NoneAssumption
    DEF WorkerInv, HeldJobsAreClaimed, ClaimsAreExclusive, WaitingJobsHaveNoLease,
        StartsAreFresh, Started, Working, SeqPcs, workerVars, TypeInv, TypeOK,
        HoldersHaveJobs, JobStatus
<1>2. CASE ~SubmitCommit(r)
  <2>1. UNCHANGED <<status, leaseLapsed, workerVars>>
    BY <1>2 DEF RequestStep, SubmitBegin, SubmitRejected, SubmitInsert, CancelBegin,
                CancelReadsSeq, CancelCommit, CancelConflict, RequestAborts, dbVars
  <2> QED
    BY <2>1 DEF WorkerInv, HeldJobsAreClaimed, ClaimsAreExclusive,
                WaitingJobsHaveNoLease, StartsAreFresh, workerVars
<1> QED BY <1>1, <1>2

\* The commit of a submission: its workspace has had no active job since the
\* check, because the row lock is its own.
LEMMA RowInvCommit ==
  ASSUME TypeInv, RowInv, NEW r \in Requests, SubmitCommit(r)
  PROVE  RowInv'
<1> DEFINE n == created + 1
<1>1. n \in Jobs /\ status[n] = None /\ reqPc[r] = "inserted"
  BY MaxJobsAssumption DEF SubmitCommit, RowInv, RowsAreNumbered, Jobs, TypeInv, TypeOK
<1>2. /\ created' = n
      /\ status' = [status EXCEPT ![n] = "queued"]
      /\ jobHome' = [jobHome EXCEPT ![n] = reqHome[r]]
      /\ rowLock' = [rowLock EXCEPT ![reqHome[r]] = None]
      /\ reqPc' = [reqPc EXCEPT ![r] = "idle"]
      /\ reqHome' = [reqHome EXCEPT ![r] = None]
  BY DEF SubmitCommit, ResetRequest
<1>3. /\ reqHome[r] \in Workspaces
      /\ rowLock[reqHome[r]] = r
      /\ \A j \in Jobs : status[j] \in Active => jobHome[j] # reqHome[r]
  BY <1>1 DEF RowInv, SubmissionsHoldTheLock, SubmissionsHaveHomes
<1>4. RowsAreNumbered'
  BY <1>1, <1>2 DEF RowInv, RowsAreNumbered, TypeInv, TypeOK, Jobs
<1>5. SubmissionsHaveHomes'
  BY <1>2 DEF RowInv, SubmissionsHaveHomes, TypeInv, TypeOK
<1> HIDE DEF n
<1>6. OneActiveJobPerWorkspace'
  BY <1>1, <1>2, <1>3, NoneAssumption
  DEF RowInv, OneActiveJobPerWorkspace, TypeInv, TypeOK, Active, JobStatus
<1>7. SubmissionsHoldTheLock'
  <2> SUFFICES ASSUME NEW q \in Requests, reqPc'[q] = "inserted"
               PROVE  /\ rowLock'[reqHome'[q]] = q
                      /\ \A j \in Jobs : status'[j] \in Active => jobHome'[j] # reqHome'[q]
    BY DEF SubmissionsHoldTheLock
  <2>1. q # r /\ reqPc[q] = "inserted" /\ reqHome'[q] = reqHome[q]
    BY <1>2 DEF TypeInv, TypeOK
  <2>2. /\ rowLock[reqHome[q]] = q
        /\ reqHome[q] \in Workspaces
        /\ \A j \in Jobs : status[j] \in Active => jobHome[j] # reqHome[q]
    BY <2>1 DEF RowInv, SubmissionsHoldTheLock, SubmissionsHaveHomes
  <2>3. reqHome[q] # reqHome[r]
    BY <1>3, <2>1, <2>2
  <2> QED BY <1>1, <1>2, <1>3, <2>1, <2>2, <2>3 DEF TypeInv, TypeOK
<1> QED BY <1>4, <1>5, <1>6, <1>7 DEF RowInv

LEMMA RowInvRequest ==
  ASSUME TypeInv, RowInv, NEW r \in Requests, RequestStep(r)
  PROVE  RowInv'
<1> USE DEF TypeInv, TypeOK, RowInv, RowsAreNumbered, SubmissionsHaveHomes,
        SubmissionsHoldTheLock, OneActiveJobPerWorkspace, dbVars
<1>1. ASSUME NEW ws \in Workspaces, NEW c \in Campaigns \cup {None},
             SubmitBegin(r, ws, c)
      PROVE  RowInv'
  BY <1>1 DEF SubmitBegin
<1>2. CASE SubmitRejected(r)
  BY <1>2 DEF SubmitRejected, ResetRequest
<1>3. CASE SubmitInsert(r)
  <2>1. /\ reqHome[r] \in Workspaces
        /\ rowLock[reqHome[r]] = None
        /\ \A j \in Jobs : status[j] \in Active => jobHome[j] # reqHome[r]
    BY <1>3 DEF SubmitInsert, ActiveIn
  <2> QED BY <1>3, <2>1, NoneAssumption DEF SubmitInsert
<1>4. CASE SubmitCommit(r)
  BY <1>4, RowInvCommit
<1>5. ASSUME NEW j \in Jobs, CancelBegin(r, j)
      PROVE  RowInv'
  BY <1>5 DEF CancelBegin
<1>6. CASE CancelReadsSeq(r)
  BY <1>6 DEF CancelReadsSeq
<1>7. CASE CancelCommit(r)
  BY <1>7 DEF CancelCommit, ResetRequest
<1>8. CASE CancelConflict(r)
  BY <1>8 DEF CancelConflict, ResetRequest
<1>9. CASE RequestAborts(r)
  BY <1>9 DEF RequestAborts, ResetRequest
<1> QED
  BY <1>1, <1>2, <1>3, <1>4, <1>5, <1>6, <1>7, <1>8, <1>9 DEF RequestStep

LEMMA QueueInvInit == Init => QueueInv
<1> SUFFICES ASSUME Init PROVE QueueInv
  OBVIOUS
<1>1. TypeInv
  BY TypeInvInit
<1>2. WorkerInv
  BY DEF Init, WorkerInv, HeldJobsAreClaimed, ClaimsAreExclusive,
         WaitingJobsHaveNoLease, StartsAreFresh, Started, Working, SeqPcs
<1>3. RowInv
  BY NoneAssumption
  DEF Init, RowInv, RowsAreNumbered, SubmissionsHaveHomes, SubmissionsHoldTheLock,
      OneActiveJobPerWorkspace, Active, JobStatus
<1> QED BY <1>1, <1>2, <1>3 DEF QueueInv

LEMMA QueueInvNext == QueueInv /\ [Next]_vars => QueueInv'
<1> SUFFICES ASSUME QueueInv, [Next]_vars PROVE QueueInv'
  OBVIOUS
<1> USE DEF QueueInv
<1>0. TypeInv'
  BY TypeInvNext
<1>1. ASSUME NEW r \in Requests, RequestStep(r) PROVE QueueInv'
  BY <1>0, <1>1, WorkerInvRequest, RowInvRequest
<1>2. ASSUME NEW w \in Workers, NEW skipped, Poll(w, skipped) PROVE QueueInv'
  BY <1>0, <1>2, WorkerInvPoll, PollShrinks, RowInvShrinks
<1>3. ASSUME NEW w \in Workers, LocalStep(w) PROVE QueueInv'
  BY <1>0, <1>3, WorkerInvLocal, LocalShrinks, RowInvShrinks
<1>4. ASSUME NEW j \in Jobs, LeaseLapses(j) PROVE QueueInv'
  <2>1. ActiveShrinks
    BY <1>4 DEF LeaseLapses, ActiveShrinks, reqVars
  <2>2. WorkerInv'
    BY <1>4, NoneAssumption
    DEF LeaseLapses, Unrenewed, Holds, WorkerInv, HeldJobsAreClaimed,
        ClaimsAreExclusive, WaitingJobsHaveNoLease, StartsAreFresh, Started,
        Working, SeqPcs, workerVars, TypeInv, TypeOK, JobStatus
  <2> QED BY <1>0, <2>1, <2>2, RowInvShrinks
<1>5. CASE UNCHANGED vars
  <2>1. ActiveShrinks
    BY <1>5 DEF vars, dbVars, reqVars, ActiveShrinks
  <2>2. WorkerInv'
    BY <1>5 DEF vars, dbVars, workerVars, WorkerInv, HeldJobsAreClaimed,
                ClaimsAreExclusive, WaitingJobsHaveNoLease, StartsAreFresh
  <2> QED BY <1>0, <2>1, <2>2, RowInvShrinks
<1> QED BY <1>1, <1>2, <1>3, <1>4, <1>5, WorkerStepsAreLocal DEF Next

LEMMA QueueInvariant == Spec => []QueueInv
BY QueueInvInit, QueueInvNext, PTL DEF Spec

\* A workspace never has two active jobs, with any number of workers, renewals
\* that fail, crashes and submissions in any order.
THEOREM OneActiveJob == Spec => []OneActiveJobPerWorkspace
<1>1. QueueInv => OneActiveJobPerWorkspace
  BY DEF QueueInv, RowInv
<1> QED BY <1>1, QueueInvariant, PTL

\* No job is ever executed by two workers, not even after its lease expired.
THEOREM ExclusiveClaims == Spec => []ClaimsAreExclusive
<1>1. QueueInv => ClaimsAreExclusive
  BY DEF QueueInv, WorkerInv
<1> QED BY <1>1, QueueInvariant, PTL

\* A job that was cancelled while it waited is never leased: no step but a poll
\* touches a queued job, and a poll that claims it cancels it.
THEOREM CancelsTakeEffect == Spec => CancelledBeforeClaimNeverRuns
<1> DEFINE Obeys == \A j \in Jobs : status[j] = "queued" /\ cancelRequested[j]
                                   => status'[j] \in {"queued", "cancelled"}
<1>1. QueueInv /\ [Next]_vars => [Obeys]_vars
  <2> SUFFICES ASSUME QueueInv, Next PROVE Obeys
    OBVIOUS
  <2> USE DEF QueueInv, TypeInv, TypeOK
  <2>1. ASSUME NEW r \in Requests, RequestStep(r) PROVE Obeys
    <3>1. CASE SubmitCommit(r)
      BY <3>1 DEF SubmitCommit
    <3>2. CASE ~SubmitCommit(r)
      BY <2>1, <3>2
      DEF RequestStep, SubmitBegin, SubmitRejected, SubmitInsert, CancelBegin,
          CancelReadsSeq, CancelCommit, CancelConflict, RequestAborts, dbVars
    <3> QED BY <3>1, <3>2
  <2>2. ASSUME NEW w \in Workers, NEW skipped, Poll(w, skipped) PROVE Obeys
    BY <2>2 DEF Poll, SweepAndClaim, RunsOf, Expired
  <2>3. ASSUME NEW w \in Workers, LocalStep(w) PROVE Obeys
    BY <2>3 DEF LocalStep, Holds, WorkerInv, HeldJobsAreClaimed
  <2>4. ASSUME NEW j \in Jobs, LeaseLapses(j) PROVE Obeys
    BY <2>4 DEF LeaseLapses
  <2> QED BY <2>1, <2>2, <2>3, <2>4, WorkerStepsAreLocal DEF Next
<1> QED BY <1>1, QueueInvariant, PTL DEF Spec, CancelledBeforeClaimNeverRuns

-----------------------------------------------------------------------------
(***************************************************************************)
(* Refinement: what a workspace sees of the queue is its slot.             *)
(***************************************************************************)
LEMMA SlotsInit == Init => Slots!SlotInit
BY NoneAssumption DEF Init, Slots!SlotInit, Phase

LEMMA SubmitCommitOpens ==
  ASSUME QueueInv, NEW r \in Requests, SubmitCommit(r)
  PROVE  Slots!SlotNext
<1> DEFINE n == created + 1
<1>1. n \in Jobs /\ status[n] = None /\ reqPc[r] = "inserted"
  BY MaxJobsAssumption
  DEF SubmitCommit, QueueInv, RowInv, RowsAreNumbered, Jobs, TypeInv, TypeOK
<1>2. /\ status' = [status EXCEPT ![n] = "queued"]
      /\ jobHome' = [jobHome EXCEPT ![n] = reqHome[r]]
  BY DEF SubmitCommit
<1>3. /\ reqHome[r] \in Workspaces
      /\ \A j \in Jobs : status[j] \in Active => jobHome[j] # reqHome[r]
  BY <1>1 DEF QueueInv, RowInv, SubmissionsHoldTheLock, SubmissionsHaveHomes
<1> HIDE DEF n
<1>4. Slots!Open(n, reqHome[r])
  BY <1>1, <1>2, <1>3, NoneAssumption
  DEF Slots!Open, Phase, QueueInv, TypeInv, TypeOK, JobStatus, Active
<1> QED BY <1>1, <1>3, <1>4 DEF Slots!SlotNext

LEMMA ShrinkingCloses ==
  ASSUME TypeInv, ActiveShrinks
  PROVE  Slots!SlotNext
<1> DEFINE ended == {j \in Jobs : status[j] \in Active /\ status'[j] \notin Active}
<1>1. Slots!Close(ended)
  BY NoneAssumption
  DEF Slots!Close, Phase, ActiveShrinks, Active, JobStatus, TypeInv, TypeOK
<1>2. ended \in SUBSET Jobs
  OBVIOUS
<1> QED BY <1>1, <1>2 DEF Slots!SlotNext

\* The queue implements WorkspaceSlots: a submission that commits opens the free
\* slot of its workspace, any other step closes jobs or changes nothing.
THEOREM ImplementsSlots == Spec => SlotsSpec
<1>1. QueueInv /\ [Next]_vars => [Slots!SlotNext]_(Slots!slotVars)
  <2> SUFFICES ASSUME QueueInv, [Next]_vars
               PROVE  Slots!SlotNext \/ UNCHANGED Slots!slotVars
    OBVIOUS
  <2> USE DEF QueueInv
  <2>1. ASSUME NEW r \in Requests, RequestStep(r), ~SubmitCommit(r)
        PROVE  UNCHANGED Slots!slotVars
    <3>1. UNCHANGED <<status, jobHome>>
      BY <2>1 DEF RequestStep, SubmitBegin, SubmitRejected, SubmitInsert, CancelBegin,
                  CancelReadsSeq, CancelCommit, CancelConflict, RequestAborts, dbVars
    <3> QED BY <3>1 DEF Slots!slotVars, Phase
  <2>2. ASSUME NEW r \in Requests, SubmitCommit(r) PROVE Slots!SlotNext
    BY <2>2, SubmitCommitOpens
  <2>3. ASSUME NEW w \in Workers, NEW skipped, Poll(w, skipped) PROVE Slots!SlotNext
    BY <2>3, PollShrinks, ShrinkingCloses
  <2>4. ASSUME NEW w \in Workers, LocalStep(w) PROVE Slots!SlotNext
    BY <2>4, LocalShrinks, ShrinkingCloses
  <2>5. ASSUME NEW j \in Jobs, LeaseLapses(j) PROVE UNCHANGED Slots!slotVars
    BY <2>5 DEF LeaseLapses, Slots!slotVars, Phase
  <2>6. CASE UNCHANGED vars
    BY <2>6 DEF vars, dbVars, Slots!slotVars, Phase
  <2> QED BY <2>1, <2>2, <2>3, <2>4, <2>5, <2>6, WorkerStepsAreLocal DEF Next
<1> QED
  BY <1>1, SlotsInit, QueueInvariant, PTL DEF Spec, SlotsSpec, Slots!SlotSpec

-----------------------------------------------------------------------------
(***************************************************************************)
(* What holds only when the queue is fenced.  A worker that still executes *)
(* a job whose lease has lapsed has a dead renewal task, so renewals may   *)
(* fail, so it is the only worker: nobody else sweeps its job.             *)
(***************************************************************************)
FenceInv ==
  \A w \in Workers :
    workerPc[w] \in Working =>
      /\ status[workerJob[w]] \in {"leased", "running"}
      /\ renewer[w] # "off"
      /\ renewer[w] = "dead" => RenewalMayFail
      /\ leaseLapsed[workerJob[w]] => renewer[w] = "dead"

\* A local step leaves the job running in the worker's hands, or lets go of it.
FenceStep(w) ==
  workerPc'[w] \in Working =>
    /\ status'[workerJob[w]] \in {status[workerJob[w]], "running"}
    /\ leaseLapsed'[workerJob[w]] => leaseLapsed[workerJob[w]]
    /\ \/ renewer'[w] = renewer[w]
       \/ /\ renewer'[w] = "dead"
          /\ RenewalMayFail \/ status[workerJob[w]] \in Terminal

LEMMA LocalStepsKeepTheFence ==
  ASSUME TypeInv, NEW w \in Workers, WorkerStep(w),
         \A skipped \in SUBSET Lockable : ~Poll(w, skipped)
  PROVE  FenceStep(w)
<1> USE DEF TypeInv, TypeOK, HoldersHaveJobs, dbVars, Working, SeqPcs, FenceStep
<1>1. CASE StartReadsSeq(w) \/ DriverReady(w) \/ DriverFails(w) \/ ProgressReadsSeq(w)
  BY <1>1 DEF StartReadsSeq, DriverReady, DriverFails, ProgressReadsSeq, Moves
<1>2. CASE BrowseSucceeds(w) \/ BrowseFails(w) \/ HandlerLoads(w) \/ HandlerReadsSeq(w)
  BY <1>2 DEF BrowseSucceeds, BrowseFails, HandlerLoads, HandlerReadsSeq, Moves
<1>3. CASE StartConflict(w) \/ ProgressConflict(w) \/ SucceedConflict(w) \/ FailConflict(w)
  BY <1>3 DEF StartConflict, ProgressConflict, SucceedConflict, FailConflict, Conflicts
<1>4. CASE StartCommit(w)
  BY <1>4 DEF StartCommit, MarkRunning
<1>5. CASE StartHasNoContacts(w)
  BY <1>5 DEF StartHasNoContacts
<1>6. CASE ProgressCommit(w)
  BY <1>6 DEF ProgressCommit
<1>7. CASE SucceedCommit(w) \/ FailCommit(w) \/ HandlerCommit(w)
  BY <1>7 DEF SucceedCommit, FailCommit, HandlerCommit, Leaves,
          MarkSucceeded, PersistCampaignExecution, MarkFailed
<1>8. CASE HandlerFindsEnded(w) \/ HandlerConflict(w) \/ Crash(w)
  BY <1>8 DEF HandlerFindsEnded, HandlerConflict, Crash, Leaves
<1>9. CASE RenewerStops(w)
  BY <1>9 DEF RenewerStops
<1>10. CASE Restart(w)
  BY <1>10 DEF Restart, Moves
<1> QED
  BY <1>1, <1>2, <1>3, <1>4, <1>5, <1>6, <1>7, <1>8, <1>9, <1>10 DEF WorkerStep

LEMMA FenceInvLocal ==
  ASSUME QueueInv, FenceInv, NEW w \in Workers, LocalStep(w), FenceStep(w)
  PROVE  FenceInv'
<1> SUFFICES ASSUME NEW v \in Workers, workerPc'[v] \in Working
             PROVE  /\ status'[workerJob'[v]] \in {"leased", "running"}
                    /\ renewer'[v] # "off"
                    /\ renewer'[v] = "dead" => RenewalMayFail
                    /\ leaseLapsed'[workerJob'[v]] => renewer'[v] = "dead"
  BY DEF FenceInv
<1>1. /\ workerPc[v] \in Working
      /\ workerJob'[v] = workerJob[v]
      /\ workerJob[v] \in Jobs
  BY DEF LocalStep, QueueInv, TypeInv, HoldersHaveJobs
<1>2. CASE v = w
  BY <1>1, <1>2 DEF FenceStep, FenceInv, Terminal
<1>3. CASE v # w
  <2>1. ~Holds(w, workerJob[v])
    BY <1>1, <1>3 DEF Holds, QueueInv, WorkerInv, ClaimsAreExclusive
  <2> QED BY <1>1, <1>3, <2>1 DEF LocalStep, FenceInv
<1> QED BY <1>2, <1>3

\* The only use of Fenced: the sweep ends no job that a worker holds.
LEMMA SweepSparesHeldJobs ==
  ASSUME Fenced, QueueInv, FenceInv, NEW w \in Workers, NEW skipped, Poll(w, skipped),
         NEW v \in Workers, workerPc[v] \in Working
  PROVE  /\ v # w
         /\ status'[workerJob[v]] = status[workerJob[v]]
<1>1. v # w
  BY DEF Poll, Working, SeqPcs
<1>2. workerJob[v] \notin Expired(skipped)
  BY <1>1 DEF Expired, FenceInv, Fenced
<1>3. workerJob[v] \notin NextQueued(skipped)
  BY DEF NextQueued, FenceInv
<1>4. workerJob[v] \in Jobs
  BY DEF QueueInv, TypeInv, HoldersHaveJobs
<1> QED BY <1>1, <1>2, <1>3, <1>4 DEF Poll, SweepAndClaim, RunsOf

LEMMA FenceInvPoll ==
  ASSUME Fenced, QueueInv, FenceInv, NEW w \in Workers, NEW skipped, Poll(w, skipped)
  PROVE  FenceInv'
<1> USE DEF QueueInv, TypeInv, TypeOK, WorkerInv, WaitingJobsHaveNoLease
<1>1. leaseLapsed' = leaseLapsed
  BY DEF Poll
<1>2. CASE UNCHANGED workerVars
  BY <1>1, <1>2, SweepSparesHeldJobs DEF FenceInv, workerVars
<1>3. ASSUME NEW j \in RunsOf(NextQueued(skipped)),
             workerPc' = [workerPc EXCEPT ![w] = "start"],
             workerJob' = [workerJob EXCEPT ![w] = j],
             renewer' = [renewer EXCEPT ![w] = "on"]
      PROVE  FenceInv'
  <2>1. j \in Jobs /\ status[j] = "queued" /\ ~leaseLapsed[j]
    BY DEF RunsOf, NextQueued
  <2>2. status'[j] = "leased"
    BY <2>1 DEF Poll, SweepAndClaim
  <2> QED BY <1>1, <1>3, <2>1, <2>2, SweepSparesHeldJobs DEF FenceInv
<1> QED BY <1>2, <1>3 DEF Poll

LEMMA FenceInvRequest ==
  ASSUME QueueInv, FenceInv, NEW r \in Requests, RequestStep(r)
  PROVE  FenceInv'
<1>1. CASE SubmitCommit(r)
  <2> DEFINE n == created + 1
  <2>1. /\ n \in Jobs
        /\ status[n] = None
        /\ status' = [status EXCEPT ![n] = "queued"]
        /\ UNCHANGED <<leaseLapsed, workerVars>>
    BY <1>1, MaxJobsAssumption
    DEF SubmitCommit, QueueInv, RowInv, RowsAreNumbered, Jobs, TypeInv, TypeOK
  <2> HIDE DEF n
  <2> QED
    BY <2>1, NoneAssumption
    DEF FenceInv, workerVars, QueueInv, TypeInv, TypeOK, HoldersHaveJobs, JobStatus
<1>2. CASE ~SubmitCommit(r)
  <2>1. UNCHANGED <<status, leaseLapsed, workerVars>>
    BY <1>2 DEF RequestStep, SubmitBegin, SubmitRejected, SubmitInsert, CancelBegin,
                CancelReadsSeq, CancelCommit, CancelConflict, RequestAborts, dbVars
  <2> QED BY <2>1 DEF FenceInv, workerVars
<1> QED BY <1>1, <1>2

LEMMA FenceInvNext == Fenced /\ QueueInv /\ FenceInv /\ [Next]_vars => FenceInv'
<1> SUFFICES ASSUME Fenced, QueueInv, FenceInv, [Next]_vars PROVE FenceInv'
  OBVIOUS
<1>1. ASSUME NEW r \in Requests, RequestStep(r) PROVE FenceInv'
  BY <1>1, FenceInvRequest
<1>2. ASSUME NEW w \in Workers, NEW skipped, Poll(w, skipped) PROVE FenceInv'
  BY <1>2, FenceInvPoll
<1>3. ASSUME NEW w \in Workers, WorkerStep(w),
             \A skipped \in SUBSET Lockable : ~Poll(w, skipped)
      PROVE  FenceInv'
  BY <1>3, WorkerStepsAreLocal, LocalStepsKeepTheFence, FenceInvLocal DEF QueueInv
<1>4. ASSUME NEW j \in Jobs, LeaseLapses(j) PROVE FenceInv'
  BY <1>4 DEF LeaseLapses, Unrenewed, Holds, FenceInv, workerVars, QueueInv, TypeInv,
              TypeOK, HoldersHaveJobs
<1>5. CASE UNCHANGED vars
  BY <1>5 DEF vars, dbVars, workerVars, FenceInv
<1> QED BY <1>1, <1>2, <1>3, <1>4, <1>5 DEF Next, WorkerStep

LEMMA FenceInvariant == ASSUME Fenced PROVE Spec => []FenceInv
<1>1. Init => FenceInv
  BY DEF Init, FenceInv, Working, SeqPcs
<1>2. QueueInv /\ FenceInv /\ [Next]_vars => FenceInv'
  BY FenceInvNext
<1> QED BY <1>1, <1>2, QueueInvariant, PTL DEF Spec

\* When the queue is fenced, "The worker stopped before this browser job
\* completed" is true whenever it is written: ended jobs have no worker.
THEOREM FencedJobsHaveStopped == ASSUME Fenced PROVE Spec => []EndedJobsHaveStopped
<1>1. FenceInv => EndedJobsHaveStopped
  BY DEF FenceInv, EndedJobsHaveStopped
<1> QED BY <1>1, FenceInvariant, PTL

\* When the queue is fenced, two workers never drive one workspace's browser:
\* both jobs would be active, hence the same job, hence the same worker.
THEOREM FencedBrowsers == ASSUME Fenced PROVE Spec => []OneBrowserJobPerWorkspace
<1>1. QueueInv /\ FenceInv => OneBrowserJobPerWorkspace
  <2> SUFFICES ASSUME QueueInv, FenceInv, NEW v \in Workers, NEW w \in Workers,
                      workerPc[v] \in {"driver", "browse", "progressSeq"},
                      workerPc[w] \in {"driver", "browse", "progressSeq"},
                      jobHome[workerJob[v]] = jobHome[workerJob[w]]
               PROVE  v = w
    BY DEF OneBrowserJobPerWorkspace
  <2>1. workerPc[v] \in Working /\ workerPc[w] \in Working
    BY DEF Working, SeqPcs
  <2>2. /\ workerJob[v] \in Jobs /\ status[workerJob[v]] \in Active
        /\ workerJob[w] \in Jobs /\ status[workerJob[w]] \in Active
    BY <2>1 DEF QueueInv, TypeInv, HoldersHaveJobs, FenceInv, Active
  <2>3. workerJob[v] = workerJob[w]
    BY <2>2 DEF QueueInv, RowInv, OneActiveJobPerWorkspace
  <2> QED BY <2>1, <2>3 DEF QueueInv, WorkerInv, ClaimsAreExclusive
<1> QED BY <1>1, QueueInvariant, FenceInvariant, PTL

\* When the queue is fenced, the outcome of a job is written once.
THEOREM FencedOutcomesAreFinal == ASSUME Fenced PROVE Spec => OutcomeIsFinal
<1> DEFINE Keeps == \A j \in Jobs : status[j] \in Terminal => status'[j] = status[j]
<1>1. QueueInv /\ FenceInv /\ [Next]_vars => [Keeps]_vars
  <2> SUFFICES ASSUME QueueInv, FenceInv, Next PROVE Keeps
    OBVIOUS
  <2> USE DEF QueueInv
  <2>1. ASSUME NEW r \in Requests, RequestStep(r) PROVE Keeps
    <3>1. CASE SubmitCommit(r)
      BY <3>1, NoneAssumption, MaxJobsAssumption
      DEF SubmitCommit, RowInv, RowsAreNumbered, Terminal, Jobs, TypeInv, TypeOK, JobStatus
    <3>2. CASE ~SubmitCommit(r)
      BY <2>1, <3>2
      DEF RequestStep, SubmitBegin, SubmitRejected, SubmitInsert, CancelBegin,
          CancelReadsSeq, CancelCommit, CancelConflict, RequestAborts, dbVars
    <3> QED BY <3>1, <3>2
  <2>2. ASSUME NEW w \in Workers, NEW skipped, Poll(w, skipped) PROVE Keeps
    BY <2>2 DEF Poll, SweepAndClaim, RunsOf, Expired, NextQueued, Terminal
  <2>3. ASSUME NEW w \in Workers, LocalStep(w) PROVE Keeps
    BY <2>3 DEF LocalStep, Holds, FenceInv, Terminal
  <2>4. ASSUME NEW j \in Jobs, LeaseLapses(j) PROVE Keeps
    BY <2>4 DEF LeaseLapses
  <2> QED BY <2>1, <2>2, <2>3, <2>4, WorkerStepsAreLocal DEF Next
<1> QED BY <1>1, QueueInvariant, FenceInvariant, PTL DEF Spec, OutcomeIsFinal

-----------------------------------------------------------------------------
(***************************************************************************)
(* Jobs and their campaigns.  Each side is written by steps that look at   *)
(* the other one only through lastJob or the job in hand; they agree       *)
(* because a campaign never has two active jobs (it has one home), and the *)
(* active one is its last (LastJobs).                                      *)
(***************************************************************************)
CampaignsAreAtHome ==
  /\ \A j \in Jobs : status[j] # None /\ jobCampaign[j] # None =>
       jobHome[j] = CampaignHome[jobCampaign[j]]
  /\ \A r \in Requests : reqPc[r] \in {"submitting", "inserted"} /\ reqCampaign[r] # None =>
       reqHome[r] = CampaignHome[reqCampaign[r]]

LastJobs ==
  \A j \in Jobs : status[j] \in Active /\ jobCampaign[j] # None => lastJob[jobCampaign[j]] = j

CampaignInv == CampaignsAreAtHome /\ LastJobs /\ CampaignFollowsItsJob

\* A campaign has one active job at most.
LEMMA OneActiveJobOfCampaign ==
  ASSUME QueueInv, CampaignInv, NEW i \in Jobs, NEW j \in Jobs,
         status[i] \in Active, status[j] \in Active,
         jobCampaign[i] # None, jobCampaign[i] = jobCampaign[j]
  PROVE  i = j
BY DEF CampaignInv, LastJobs

\* A submission takes the campaign over from its last job, which has ended.
LEMMA CampaignInvCommit ==
  ASSUME QueueInv, CampaignInv, NEW r \in Requests, SubmitCommit(r)
  PROVE  CampaignInv'
<1> DEFINE n == created + 1
           c == reqCampaign[r]
<1>1. n \in Jobs /\ status[n] = None /\ reqPc[r] = "inserted"
  BY MaxJobsAssumption
  DEF SubmitCommit, QueueInv, RowInv, RowsAreNumbered, Jobs, TypeInv, TypeOK
<1>2. /\ status' = [status EXCEPT ![n] = "queued"]
      /\ jobHome' = [jobHome EXCEPT ![n] = reqHome[r]]
      /\ jobCampaign' = [jobCampaign EXCEPT ![n] = c]
      /\ c = None => UNCHANGED campaignVars
      /\ c # None => lastJob' = [lastJob EXCEPT ![c] = n]
      /\ \A d \in Campaigns : d # c => campaignStatus'[d] = campaignStatus[d]
      /\ ResetRequest(r)
  BY DEF SubmitCommit, QueueInv, TypeInv, TypeOK, campaignVars
<1>3. /\ c # None => reqHome[r] = CampaignHome[c]
      /\ \A j \in Jobs : status[j] \in Active => jobHome[j] # reqHome[r]
  BY <1>1 DEF QueueInv, RowInv, SubmissionsHoldTheLock, CampaignInv, CampaignsAreAtHome
<1>4. ASSUME NEW j \in Jobs, status[j] \in Active, jobCampaign[j] # None
      PROVE  jobCampaign[j] # c
  BY <1>3, <1>4, NoneAssumption DEF CampaignInv, CampaignsAreAtHome, Active, JobStatus
<1>5. /\ c \in Campaigns \cup {None}
      /\ \A j \in Jobs : jobCampaign[j] \in Campaigns \cup {None}
      /\ DOMAIN lastJob = Campaigns
      /\ DOMAIN status = Jobs /\ DOMAIN jobHome = Jobs /\ DOMAIN jobCampaign = Jobs
  BY DEF QueueInv, TypeInv, TypeOK
<1> HIDE DEF n, c
<1>6. CampaignsAreAtHome'
  <2>1. \A j \in Jobs : status'[j] # None /\ jobCampaign'[j] # None =>
          jobHome'[j] = CampaignHome[jobCampaign'[j]]
    BY <1>1, <1>2, <1>3, <1>5 DEF CampaignInv, CampaignsAreAtHome
  <2>2. \A q \in Requests : reqPc'[q] \in {"submitting", "inserted"} /\ reqCampaign'[q] # None =>
          reqHome'[q] = CampaignHome[reqCampaign'[q]]
    BY <1>2 DEF CampaignInv, CampaignsAreAtHome, ResetRequest, QueueInv, TypeInv, TypeOK
  <2> QED
    BY <2>1, <2>2 DEF CampaignsAreAtHome
<1>7. LastJobs'
  <2> SUFFICES ASSUME NEW j \in Jobs, status'[j] \in Active, jobCampaign'[j] # None
               PROVE  lastJob'[jobCampaign'[j]] = j
    BY DEF LastJobs
  <2>1. CASE j = n
    BY <1>1, <1>2, <1>5, <2>1
  <2>2. CASE j # n
    <3>1. status[j] \in Active /\ jobCampaign[j] # None /\ jobCampaign'[j] = jobCampaign[j]
      BY <1>2, <1>5, <2>2
    <3>2. lastJob[jobCampaign[j]] = j /\ jobCampaign[j] # c
      BY <1>4, <3>1 DEF CampaignInv, LastJobs
    <3> QED
      BY <1>2, <1>5, <3>1, <3>2 DEF campaignVars
  <2> QED
    BY <2>1, <2>2
<1>8. CampaignFollowsItsJob'
  <2> SUFFICES ASSUME NEW j \in Jobs, jobCampaign'[j] # None
               PROVE  /\ status'[j] = "running" =>
                           /\ lastJob'[jobCampaign'[j]] = j
                           /\ campaignStatus'[jobCampaign'[j]] = "queued"
                      /\ status'[j] = "succeeded" /\ lastJob'[jobCampaign'[j]] = j =>
                           campaignStatus'[jobCampaign'[j]] = "completed"
    BY DEF CampaignFollowsItsJob
  <2>1. CASE j = n
    BY <1>1, <1>2, <1>5, <2>1
  <2>2. CASE j # n
    <3>1. jobCampaign'[j] = jobCampaign[j] /\ status'[j] = status[j]
      BY <1>2, <1>5, <2>2
    <3>2. jobCampaign[j] \in Campaigns
      BY <1>5, <3>1
    <3>3. CASE jobCampaign[j] = c
      <4>1. status[j] # "running"
        BY <1>4, <3>2, <3>3, <1>5, NoneAssumption DEF Active
      <4>2. lastJob'[c] = n
        BY <1>2, <1>5, <3>2, <3>3, NoneAssumption
      <4> QED
        BY <2>2, <3>1, <3>3, <4>1, <4>2
    <3>4. CASE jobCampaign[j] # c
      <4>1. lastJob'[jobCampaign[j]] = lastJob[jobCampaign[j]]
        BY <1>2, <1>5, <3>2, <3>4 DEF campaignVars
      <4> QED
        BY <1>2, <3>1, <3>2, <3>4, <4>1 DEF CampaignInv, CampaignFollowsItsJob
    <3> QED
      BY <3>3, <3>4
  <2> QED
    BY <2>1, <2>2
<1> QED
  BY <1>6, <1>7, <1>8 DEF CampaignInv

LEMMA CampaignInvRequest ==
  ASSUME QueueInv, CampaignInv, NEW r \in Requests, RequestStep(r)
  PROVE  CampaignInv'
<1>1. CASE SubmitCommit(r)
  BY <1>1, CampaignInvCommit
<1>2. CASE ~SubmitCommit(r)
  <2>1. UNCHANGED <<status, jobHome, jobCampaign, campaignVars>>
    BY <1>2 DEF RequestStep, SubmitBegin, SubmitRejected, SubmitInsert, CancelBegin,
                CancelReadsSeq, CancelCommit, CancelConflict, RequestAborts, dbVars
  <2>2. LastJobs' /\ CampaignFollowsItsJob'
    BY <2>1 DEF CampaignInv, LastJobs, CampaignFollowsItsJob, campaignVars
  <2>3. \A q \in Requests : reqPc'[q] \in {"submitting", "inserted"} /\ reqCampaign'[q] # None =>
          reqHome'[q] = CampaignHome[reqCampaign'[q]]
    <3>1. ASSUME NEW ws \in Workspaces, NEW d \in Campaigns \cup {None}, SubmitBegin(r, ws, d)
          PROVE  \A q \in Requests :
                   reqPc'[q] \in {"submitting", "inserted"} /\ reqCampaign'[q] # None =>
                     reqHome'[q] = CampaignHome[reqCampaign'[q]]
      BY <3>1 DEF SubmitBegin, CampaignInv, CampaignsAreAtHome, QueueInv, TypeInv, TypeOK
    <3>2. ASSUME NEW j \in Jobs, CancelBegin(r, j)
          PROVE  \A q \in Requests :
                   reqPc'[q] \in {"submitting", "inserted"} /\ reqCampaign'[q] # None =>
                     reqHome'[q] = CampaignHome[reqCampaign'[q]]
      BY <3>2 DEF CancelBegin, CampaignInv, CampaignsAreAtHome, QueueInv, TypeInv, TypeOK
    <3>3. CASE SubmitInsert(r) \/ CancelReadsSeq(r)
      BY <3>3 DEF SubmitInsert, CancelReadsSeq, CampaignInv, CampaignsAreAtHome,
                  QueueInv, TypeInv, TypeOK
    <3>4. CASE ResetRequest(r)
      BY <3>4 DEF ResetRequest, CampaignInv, CampaignsAreAtHome, QueueInv, TypeInv, TypeOK
    <3> QED
      BY <1>2, <3>1, <3>2, <3>3, <3>4
      DEF RequestStep, SubmitRejected, CancelCommit, CancelConflict, RequestAborts
  <2> QED
    BY <2>1, <2>2, <2>3 DEF CampaignInv, CampaignsAreAtHome
<1> QED
  BY <1>1, <1>2

\* What a step of a worker does to the two rows: they stay as they are, or it
\* starts the job in its hands, or ends it.
CampaignStep(w) ==
  LET j == workerJob[w]
      c == jobCampaign[j]
  IN
  /\ UNCHANGED <<jobCampaign, reqCampaign>>
  /\ \A d \in Campaigns : d # c => campaignStatus'[d] = campaignStatus[d]
                                   /\ lastJob'[d] = lastJob[d]
  /\ workerPc[w] \in Working \/ UNCHANGED <<status, campaignVars>>
  /\ \A i \in Jobs : i # j => status'[i] = status[i]
  /\ \/ UNCHANGED <<status, campaignVars>>
     \/ /\ status'[j] = "running" /\ UNCHANGED lastJob
        /\ c # None => campaignStatus'[c] = "queued"
     \/ /\ status'[j] = "succeeded"
        /\ c # None => lastJob'[c] = j /\ campaignStatus'[c] = "completed"
     \/ status'[j] = "failed" /\ UNCHANGED lastJob

LEMMA WorkerStepsAreOfTheCampaign ==
  ASSUME TypeInv, NEW w \in Workers, WorkerStep(w),
         \A skipped \in SUBSET Lockable : ~Poll(w, skipped)
  PROVE  CampaignStep(w)
<1> USE DEF TypeInv, TypeOK, HoldersHaveJobs, dbVars, campaignVars, reqVars, Working, SeqPcs,
            CampaignStep
<1>1. CASE StartReadsSeq(w) \/ DriverReady(w) \/ DriverFails(w) \/ ProgressReadsSeq(w)
  BY <1>1 DEF StartReadsSeq, DriverReady, DriverFails, ProgressReadsSeq, Moves
<1>2. CASE BrowseSucceeds(w) \/ BrowseFails(w) \/ HandlerLoads(w) \/ HandlerReadsSeq(w)
  BY <1>2 DEF BrowseSucceeds, BrowseFails, HandlerLoads, HandlerReadsSeq, Moves
<1>3. CASE StartConflict(w) \/ ProgressConflict(w) \/ SucceedConflict(w) \/ FailConflict(w)
  BY <1>3 DEF StartConflict, ProgressConflict, SucceedConflict, FailConflict, Conflicts
<1>4. CASE StartCommit(w)
  BY <1>4 DEF StartCommit, MarkRunning, PrepareCampaign
<1>5. CASE StartHasNoContacts(w)
  BY <1>5 DEF StartHasNoContacts
<1>6. CASE ProgressCommit(w)
  BY <1>6 DEF ProgressCommit
<1>7. CASE SucceedCommit(w)
  BY <1>7 DEF SucceedCommit, MarkSucceeded, PersistCampaignExecution
<1>8. CASE FailCommit(w)
  BY <1>8 DEF FailCommit, MarkFailed
<1>9. CASE HandlerCommit(w)
  BY <1>9 DEF HandlerCommit, MarkFailed
<1>10. CASE HandlerFindsEnded(w) \/ HandlerConflict(w) \/ Crash(w)
  BY <1>10 DEF HandlerFindsEnded, HandlerConflict, Crash
<1>11. CASE RenewerStops(w) \/ Restart(w)
  BY <1>11 DEF RenewerStops, Restart, Moves
<1> QED
  BY <1>1, <1>2, <1>3, <1>4, <1>5, <1>6, <1>7, <1>8, <1>9, <1>10, <1>11 DEF WorkerStep

\* The job in a worker's hands is active, so that it is its campaign's last, and
\* its campaign's only one.
LEMMA CampaignInvWorker ==
  ASSUME QueueInv, FenceInv, CampaignInv, NEW w \in Workers, LocalStep(w), CampaignStep(w)
  PROVE  CampaignInv'
<1> DEFINE j == workerJob[w]
           c == jobCampaign[j]
<1>1. UNCHANGED <<jobHome, jobCampaign, reqPc, reqHome, reqCampaign>>
  BY DEF LocalStep, CampaignStep, reqVars
<1>2. CASE UNCHANGED <<status, campaignVars>>
  BY <1>1, <1>2 DEF CampaignInv, CampaignsAreAtHome, LastJobs, CampaignFollowsItsJob,
     campaignVars
<1>3. CASE ~UNCHANGED <<status, campaignVars>>
  <2>1. workerPc[w] \in Working
    BY <1>3 DEF CampaignStep
  <2>2. j \in Jobs /\ status[j] \in Active
    BY <2>1 DEF QueueInv, TypeInv, HoldersHaveJobs, FenceInv, Active
  <2>3. \A i \in Jobs : jobCampaign[i] \in Campaigns \cup {None}
    BY DEF QueueInv, TypeInv, TypeOK
  <2>4. c # None => lastJob[c] = j
    BY <2>2 DEF CampaignInv, LastJobs
  <2>5. \A i \in Jobs : i # j /\ c # None /\ status[i] \in Active => jobCampaign[i] # c
    BY <2>2, OneActiveJobOfCampaign
  <2>6. /\ \A i \in Jobs : i # j => status'[i] = status[i]
        /\ \A d \in Campaigns : d # c => campaignStatus'[d] = campaignStatus[d]
                                         /\ lastJob'[d] = lastJob[d]
        /\ \/ /\ status'[j] = "running" /\ UNCHANGED lastJob
              /\ c # None => campaignStatus'[c] = "queued"
           \/ /\ status'[j] = "succeeded"
              /\ c # None => lastJob'[c] = j /\ campaignStatus'[c] = "completed"
           \/ status'[j] = "failed" /\ UNCHANGED lastJob
    BY <1>3 DEF CampaignStep
  <2>7. c # None => lastJob'[c] = j
    BY <2>4, <2>6
  <2> HIDE DEF c
  <2>8. CampaignsAreAtHome'
    BY <1>1, <2>2, <2>6, NoneAssumption DEF CampaignInv, CampaignsAreAtHome, Active, JobStatus
  <2>9. LastJobs'
    <3> SUFFICES ASSUME NEW i \in Jobs, status'[i] \in Active, jobCampaign[i] # None
                 PROVE  lastJob'[jobCampaign[i]] = i
      BY <1>1 DEF LastJobs
    <3>1. CASE i = j
      BY <2>7, <3>1 DEF c
    <3>2. CASE i # j
      BY <2>3, <2>5, <2>6, <3>2 DEF CampaignInv, LastJobs
    <3> QED
      BY <3>1, <3>2
  <2>10. CampaignFollowsItsJob'
    <3> SUFFICES ASSUME NEW i \in Jobs, jobCampaign[i] # None
                 PROVE  /\ status'[i] = "running" =>
                             /\ lastJob'[jobCampaign[i]] = i
                             /\ campaignStatus'[jobCampaign[i]] = "queued"
                        /\ status'[i] = "succeeded" /\ lastJob'[jobCampaign[i]] = i =>
                             campaignStatus'[jobCampaign[i]] = "completed"
      BY <1>1 DEF CampaignFollowsItsJob
    <3>1. CASE i = j
      BY <2>6, <2>7, <3>1 DEF c
    <3>2. CASE i # j /\ jobCampaign[i] = c
      BY <2>5, <2>6, <2>7, <3>2 DEF Active
    <3>3. CASE i # j /\ jobCampaign[i] # c
      BY <2>3, <2>6, <3>3 DEF CampaignInv, CampaignFollowsItsJob
    <3> QED
      BY <3>1, <3>2, <3>3
  <2> QED
    BY <2>8, <2>9, <2>10 DEF CampaignInv
<1> QED
  BY <1>2, <1>3

\* The sweep finds a campaign through its last job, which it ends as well.
LEMMA CampaignInvPoll ==
  ASSUME QueueInv, CampaignInv, NEW w \in Workers, NEW skipped, Poll(w, skipped)
  PROVE  CampaignInv'
<1> DEFINE expired == Expired(skipped)
           claimed == NextQueued(skipped)
<1>1. \A j \in claimed : status[j] = "queued"
  BY DEF NextQueued
<1>2. \A j \in expired : status[j] \in {"leased", "running"}
  BY DEF Expired
<1>3. UNCHANGED <<jobHome, jobCampaign, lastJob, reqPc, reqHome, reqCampaign>>
  BY DEF Poll, reqVars
<1>4. /\ status' = SweepAndClaim(expired, claimed)
      /\ campaignStatus' = [c \in Campaigns |->
                              IF lastJob[c] \in expired THEN "failed" ELSE campaignStatus[c]]
  BY DEF Poll
<1>5. \A j \in Jobs :
        /\ status'[j] = None <=> status[j] = None
        /\ status'[j] \in Active => status[j] \in Active
        /\ status'[j] = "running" => status[j] = "running" /\ j \notin expired
        /\ status'[j] = "succeeded" => status[j] = "succeeded"
  BY <1>1, <1>2, <1>4, NoneAssumption DEF SweepAndClaim, RunsOf, Active, JobStatus
<1> HIDE DEF expired, claimed
<1>6. CampaignsAreAtHome' /\ LastJobs'
  BY <1>3, <1>5 DEF CampaignInv, CampaignsAreAtHome, LastJobs
<1>7. CampaignFollowsItsJob'
  BY <1>2, <1>3, <1>4, <1>5 DEF CampaignInv, CampaignFollowsItsJob, QueueInv, TypeInv, TypeOK
<1> QED
  BY <1>6, <1>7 DEF CampaignInv

LEMMA CampaignInvNext == QueueInv /\ FenceInv /\ CampaignInv /\ [Next]_vars => CampaignInv'
<1> SUFFICES ASSUME QueueInv, FenceInv, CampaignInv, [Next]_vars PROVE CampaignInv'
  OBVIOUS
<1>1. ASSUME NEW r \in Requests, RequestStep(r) PROVE CampaignInv'
  BY <1>1, CampaignInvRequest
<1>2. ASSUME NEW w \in Workers, NEW skipped, Poll(w, skipped) PROVE CampaignInv'
  BY <1>2, CampaignInvPoll
<1>3. ASSUME NEW w \in Workers, WorkerStep(w),
             \A skipped \in SUBSET Lockable : ~Poll(w, skipped)
      PROVE  CampaignInv'
  BY <1>3, WorkerStepsAreLocal, WorkerStepsAreOfTheCampaign, CampaignInvWorker DEF QueueInv
<1>4. ASSUME UNCHANGED <<status, jobHome, jobCampaign, campaignVars, reqVars>>
      PROVE  CampaignInv'
  BY <1>4 DEF CampaignInv, CampaignsAreAtHome, LastJobs, CampaignFollowsItsJob,
     campaignVars, reqVars
<1>5. ASSUME NEW j \in Jobs, LeaseLapses(j) PROVE CampaignInv'
  BY <1>4, <1>5 DEF LeaseLapses
<1>6. CASE UNCHANGED vars
  BY <1>4, <1>6 DEF vars, dbVars
<1> QED BY <1>1, <1>2, <1>3, <1>5, <1>6 DEF Next, WorkerStep

\* When the queue is fenced, a campaign is shown as queued while its job runs and
\* as completed when its last job has succeeded, although job and campaign are
\* written by different transactions, and the sweep knows only the last job.
THEOREM FencedCampaigns == ASSUME Fenced PROVE Spec => []CampaignFollowsItsJob
<1>1. Init => CampaignInv
  BY NoneAssumption
  DEF Init, CampaignInv, CampaignsAreAtHome, LastJobs, CampaignFollowsItsJob, Active,
      JobStatus
<1>2. QueueInv /\ FenceInv /\ CampaignInv /\ [Next]_vars => CampaignInv'
  BY CampaignInvNext
<1>3. CampaignInv => CampaignFollowsItsJob
  BY DEF CampaignInv
<1> QED
  BY <1>1, <1>2, <1>3, QueueInvariant, FenceInvariant, PTL DEF Spec

=============================================================================
