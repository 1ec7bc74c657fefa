------------------------------- MODULE SendJobs ------------------------------
(***************************************************************************)
(* The jobs that write to people: campaigns, manual sends, group messages  *)
(* and friend requests (app/zalo_driver.py), run by the worker, which      *)
(* keeps their results (app/worker.py, app/services.py).                   *)
(*                                                                         *)
(* Zalo Web is a page with a search box, a list of threads and one open    *)
(* thread.  The driver knows people by their names alone: it clicks what   *)
(* looks like the name, reads the header of the thread that opens, and     *)
(* types.  A name is a sequence of words; an account is somebody, or a     *)
(* group, that Zalo knows.                                                 *)
(***************************************************************************)
EXTENDS Naturals, Sequences, FiniteSets

CONSTANTS Accounts,
          Name,       \* Name[a]: how Zalo, and the contact row, call a
          Related,    \* Related[a]: whom a search for a's name shows, named otherwise
          Surface,    \* Surface[a]: the score of a's kind of search result
          Recipients, \* the lists of recipients users draw up
          Executions, \* how many jobs are run
          Lines,      \* of the message
          PageFaults, \* a page may lag, a modal appear, Playwright fail
          DataFaults, \* a transaction may fail, contacts go
          Crashes     \* the worker may be killed

ASSUME NamesAssumption ==
  /\ IsFiniteSet(Accounts)
  /\ \A a \in Accounts : Name[a] \in Seq(Nat) /\ Name[a] # << >>
  /\ Related \in [Accounts -> SUBSET Accounts]
  /\ Surface \in [Accounts -> {5, 45}]
ASSUME RecipientsAssumption ==
  /\ Recipients \subseteq Seq(Accounts)
  /\ Executions \in Nat /\ Lines \in Nat \ {0}
  /\ {PageFaults, DataFaults, Crashes} \subseteq BOOLEAN

NoOne == "no one"
ASSUME NoOneAssumption == NoOne \notin Accounts

VARIABLES kind,     \* of the job
          list,     \* whom the user has chosen
          active,   \* contacts whose row is active
          pc,       \* where the worker is
          targets,  \* whom the job writes to
          at,       \* the target that is next
          index,    \* accounts of the threads that the campaign has indexed
          opened,   \* the thread that is open
          results,  \* results of the targets so far
          outcome,  \* status of the job
          campaign, \* the row of campaigns
          rows,     \* rows[a]: success of a's row of campaign_results
          progress, \* what the target_done events count
          mail,     \* mail[n][a]: messages a got from the n-th job
          jobs      \* how many jobs have run

store == <<campaign, rows>>
vars == <<kind, list, active, pc, targets, at, index, opened, results, outcome,
          campaign, rows, progress, mail, jobs>>

Kinds == {"campaign", "manual", "group", "friend"}

TypeOK ==
  /\ kind \in Kinds
  /\ list \in Recipients
  /\ active \subseteq Accounts
  /\ pc \in {"idle", "queued", "starting", "indexing", "next", "direct", "search",
             "compose", "closing", "storing", "handling"}
  /\ targets \in Seq(Accounts)
  /\ at \in 1..(Len(targets) + 1)
  /\ index \subseteq Accounts
  /\ opened \in Accounts \cup {NoOne}
  /\ results \in Seq(BOOLEAN)
  /\ outcome \in {"none", "succeeded", "failed", "cancelled"}
  /\ campaign \in [status : {"draft", "queued", "completed", "completed_with_failures", "failed"},
                   matched : Nat, sent : Nat, failed : Nat]
  /\ rows \in [Accounts -> {"none", "sent", "failed"}]
  /\ progress \in [sent : Nat, failed : Nat]
  /\ mail \in [1..Executions -> [Accounts -> Nat]]
  /\ jobs \in 0..Executions

Init ==
  /\ kind \in Kinds
  /\ list \in Recipients
  /\ kind = "group" => Len(list) = 1
  /\ active = Accounts
  /\ pc = "idle"
  /\ targets = << >> /\ at = 1
  /\ index = {} /\ opened = NoOne /\ results = << >>
  /\ outcome = "none"
  /\ campaign = [status |-> "draft", matched |-> Len(list), sent |-> 0, failed |-> 0]
  /\ rows = [a \in Accounts |-> "none"]
  /\ progress = [sent |-> 0, failed |-> 0]
  /\ mail = [n \in 1..Executions |-> [a \in Accounts |-> 0]]
  /\ jobs = 0

-----------------------------------------------------------------------------
(***************************************************************************)
(* Names.                                                                  *)
(***************************************************************************)

StartsWith(s, t) == Len(t) <= Len(s) /\ SubSeq(s, 1, Len(t)) = t
Includes(s, t) == \E i \in 1..Len(s) : StartsWith(SubSeq(s, i, Len(s)), t)

\* The score that _select_search_result gives to a's item when it looks for t.
Score(a, t) ==
  Surface[a] + (IF Name[a] = t THEN 100
                ELSE IF StartsWith(Name[a], t) THEN 50
                ELSE IF Includes(Name[a], t) THEN 20 ELSE 0)

\* What Zalo shows for the search term t: some of those whose name has it, or
\* whom it finds in another way (letters without their accents, a nickname).
Found(t) == {a \in Accounts : Includes(Name[a], t)
                             \/ \E b \in Accounts : Name[b] = t /\ a \in Related[b]}
Shown(t) == SUBSET Found(t)

\* Deliberate error: the best one is clicked, whatever its score.
SelectedBest(shown, t) == {a \in shown : \A b \in shown : Score(b, t) <= Score(a, t)}

\* The item that is clicked: one with the best score, if it is good enough.
Selected(shown, t) ==
  {a \in shown : Score(a, t) >= 20 /\ \A b \in shown : Score(b, t) <= Score(a, t)}

\* Without an expected text, one of the kind that scores best.
SelectedAny(shown) == {a \in shown : \A b \in shown : Surface[b] <= Surface[a]}

-----------------------------------------------------------------------------
(***************************************************************************)
(* The user, and the worker's way to the first target.                     *)
(***************************************************************************)

Chosen == {list[i] : i \in DOMAIN list}
Ended(status) == outcome' = status /\ pc' = "idle"
Now == UNCHANGED <<kind, list, active, mail, jobs>>

\* execute_campaign, send_messages, group_message, add_friends: a job is queued.
\* The user runs it again only if it has failed.
Submit ==
  /\ pc = "idle"
  /\ jobs < Executions
  /\ outcome \notin {"succeeded", "cancelled"}
  /\ jobs' = jobs + 1
  /\ pc' = "queued"
  /\ outcome' = "none"
  /\ campaign' = IF kind = "campaign" THEN [campaign EXCEPT !.status = "queued"] ELSE campaign
  /\ progress' = [sent |-> 0, failed |-> 0]
  /\ UNCHANGED <<kind, list, active, targets, at, index, opened, results, rows, mail>>

\* A sync in between finds that a contact is gone.
ContactGoes ==
  /\ DataFaults
  /\ pc = "idle"
  /\ \E a \in active : active' = active \ {a}
  /\ UNCHANGED <<kind, list, pc, targets, at, index, opened, results, outcome,
                 campaign, rows, progress, mail, jobs>>

\* claim_next_job honours a cancellation.
Cancelled ==
  /\ pc = "queued"
  /\ Ended("cancelled")
  /\ UNCHANGED <<targets, at, index, opened, results, store, progress>> /\ Now

\* _resolve_campaign_contacts: the places in the list of those that are active.
\* The other jobs write to all the names in their payload.
Resolved ==
  IF kind = "campaign" THEN {i \in DOMAIN list : list[i] \in active} ELSE DOMAIN list

\* The ways to take places in the order of the list: there is one.
InOrder(places) ==
  {order \in [1..Cardinality(places) -> places] :
     \A i, j \in 1..Cardinality(places) : i < j => order[i] < order[j]}

\* prepare_campaign_job.
Prepare ==
  /\ pc = "queued"
  /\ IF Resolved = {}
     THEN pc' = "handling" /\ UNCHANGED <<targets, campaign>>
     ELSE /\ pc' = "starting"
          /\ \E order \in InOrder(Resolved) : targets' = [i \in DOMAIN order |-> list[order[i]]]
          /\ campaign' = IF kind = "campaign"
                         THEN [campaign EXCEPT !.matched = Cardinality(Resolved),
                                               !.status = "queued"]
                         ELSE campaign
  /\ at' = 1 /\ results' = << >> /\ index' = {} /\ opened' = NoOne
  /\ UNCHANGED <<outcome, rows, progress>> /\ Now

\* The transaction that starts the job and prepares the campaign fails.
PrepareFails ==
  /\ DataFaults
  /\ pc = "queued"
  /\ pc' = "handling"
  /\ UNCHANGED <<targets, at, index, opened, results, outcome, store, progress>> /\ Now

\* process_job has raised: the handler of worker_loop fails the job, and the job
\* only.
HandleException ==
  /\ pc = "handling"
  /\ Ended("failed")
  /\ UNCHANGED <<targets, at, index, opened, results, store, progress>> /\ Now

\* _driver_for_workspace raises outside of the job's own try.
DriverFails ==
  /\ DataFaults
  /\ pc = "starting"
  /\ pc' = "handling"
  /\ UNCHANGED <<targets, at, index, opened, results, outcome, store, progress>> /\ Now

\* _worker_page shows Zalo.
PageOpens ==
  /\ pc = "starting"
  /\ pc' = IF kind = "campaign" THEN "indexing" ELSE "next"
  /\ UNCHANGED <<targets, at, index, opened, results, outcome, store, progress>> /\ Now

\* _collect_visible_conversation_threads: the page shows some of the threads.
VisibleThreads == SUBSET Accounts

\* No view of conversations, or no list in it: the search alone is used.
ThreadListNotFound ==
  /\ pc = "indexing"
  /\ pc' = "next"
  /\ index' = {}
  /\ UNCHANGED <<targets, at, opened, results, outcome, store, progress>> /\ Now

\* _build_conversation_thread_index: at most ten screens of the thread list.
BuildIndex ==
  /\ pc = "indexing"
  /\ pc' = "next"
  /\ index' \in VisibleThreads
  /\ UNCHANGED <<targets, at, opened, results, outcome, store, progress>> /\ Now

-----------------------------------------------------------------------------
(***************************************************************************)
(* A target: its thread is opened ...                                      *)
(***************************************************************************)

Target == targets[at]
Term == Name[Target]
Entries == {a \in index : Name[a] = Term}

NextTarget ==
  /\ pc = "next"
  /\ pc' = IF at > Len(targets) THEN "closing"
           ELSE IF kind = "campaign" /\ Cardinality(Entries) = 1 THEN "direct"
           ELSE "search"
  /\ UNCHANGED <<targets, at, index, opened, results, outcome, store, progress>> /\ Now

\* A click shows the thread of a, unless the page is slower than the driver.
Clicks(a) == opened' = a \/ (PageFaults /\ UNCHANGED opened)

\* _confirm_active_thread: the header of the open thread has one of the texts.
ConfirmActiveThread(texts) ==
  opened' # NoOne /\ \E t \in texts : Includes(Name[opened'], t)

\* The thread list shows some threads again; the indexed one is looked for by
\* its id, or else by its name.
Candidates(visible, e) ==
  IF e \in visible THEN {e} ELSE {a \in visible : Name[a] = Name[e]}

\* _open_indexed_conversation_thread.
DirectOpens ==
  /\ pc = "direct"
  /\ \E e \in Entries, visible \in VisibleThreads :
       /\ Cardinality(Candidates(visible, e)) = 1
       /\ \E a \in Candidates(visible, e) :
            Clicks(a) /\ ConfirmActiveThread({Term, Name[a]})
  /\ pc' = "compose"
  /\ UNCHANGED <<targets, at, index, results, outcome, store, progress>> /\ Now

\* Not found, ambiguous, or not confirmed in time.
DirectFails ==
  /\ pc = "direct"
  /\ opened' \in {a \in Accounts : Name[a] = Term} \cup {opened}
  /\ pc' = "search"
  /\ UNCHANGED <<targets, at, index, results, outcome, store, progress>> /\ Now

\* _open_target_via_search.  The text of the clicked item is the name, or the
\* name and a message, which no header has.
SearchOpens ==
  /\ pc = "search" /\ kind \in {"campaign", "manual"}
  /\ \E shown \in Shown(Term) : \E a \in Selected(shown, Term) :
       /\ Clicks(a)
       /\ ConfirmActiveThread({Term, Name[a]}) \/ ConfirmActiveThread({Term})
  /\ pc' = "compose"
  /\ UNCHANGED <<targets, at, index, results, outcome, store, progress>> /\ Now

\* A group message goes to the thread of the first result, unconfirmed.
GroupOpens ==
  /\ pc = "search" /\ kind = "group"
  /\ \E shown \in Shown(Term) : \E a \in SelectedAny(shown) : Clicks(a)
  /\ pc' = "compose"
  /\ UNCHANGED <<targets, at, index, results, outcome, store, progress>> /\ Now

-----------------------------------------------------------------------------
(***************************************************************************)
(* ... and it is written to.                                               *)
(***************************************************************************)

\* The message is typed key by key: the end of a line is the key that sends.
Delivered(a) == mail' = [mail EXCEPT ![jobs][a] = @ + Lines]

\* Deliberate error: an attempt is counted as a message.
TargetDoneCounting(success) ==
  /\ results' = Append(results, success)
  /\ at' = at + 1
  /\ pc' = "next"
  /\ progress' = [progress EXCEPT !.sent = @ + 1]
  /\ UNCHANGED <<kind, list, active, targets, index, outcome, store, jobs>>

\* The result, and the target_done event of a campaign, which may be lost.
TargetDone(success) ==
  /\ results' = Append(results, success)
  /\ at' = at + 1
  /\ pc' = "next"
  /\ \/ (kind # "campaign" \/ DataFaults) /\ UNCHANGED progress
     \/ /\ kind = "campaign"
        /\ progress' = IF success THEN [progress EXCEPT !.sent = @ + 1]
                       ELSE [progress EXCEPT !.failed = @ + 1]
  /\ UNCHANGED <<kind, list, active, targets, index, outcome, store, jobs>>

\* Deliberate error: a target that was not reached is tried once more from the
\* start of the list.
TargetFailsAgain ==
  /\ pc = "search"
  /\ at' = 1 /\ results' = << >>
  /\ pc' = "next"
  /\ UNCHANGED <<targets, index, opened, outcome, store, progress>> /\ Now

\* No search box, no result, or a thread that did not open.
TargetFails ==
  /\ pc = "search"
  /\ opened' \in Found(Term) \cup {opened}
  /\ TargetDone(FALSE)
  /\ UNCHANGED mail

\* _type_and_send_detailed: Enter sends the message.
TypeAndSend ==
  /\ pc = "compose" /\ opened # NoOne
  /\ Delivered(opened)
  /\ TargetDone(TRUE)
  /\ UNCHANGED opened

\* No composer, or an exception before or after Enter.
SubmitFails ==
  /\ PageFaults
  /\ pc = "compose"
  /\ UNCHANGED mail \/ (opened # NoOne /\ Delivered(opened))
  /\ TargetDone(FALSE)
  /\ UNCHANGED opened

\* _send_friend_requests_sync: the first "Add friend" button among the results,
\* or, after a click on one of them, on the page that opens.
Invite ==
  /\ pc = "search" /\ kind = "friend"
  /\ \E shown \in Shown(Term) : \E a \in shown :
       opened' = a /\ mail' = [mail EXCEPT ![jobs][a] = @ + 1]
  /\ TargetDone(TRUE)

\* The driver is called, inside of the job's own try.
AtDriver == {"starting", "indexing", "next", "direct", "search", "compose", "closing"}

\* Deliberate error: the job fails, its campaign is left.
AbortsAlone ==
  /\ PageFaults
  /\ pc \in AtDriver
  /\ Ended("failed")
  /\ UNCHANGED <<targets, at, index, opened, results, store, progress>> /\ Now

\* A ServiceError, or Playwright's end, ends the job without its results; one
\* transaction fails the campaign and the job.
Aborts ==
  /\ PageFaults
  /\ pc \in AtDriver
  /\ campaign' = IF kind = "campaign" THEN [campaign EXCEPT !.status = "failed"] ELSE campaign
  /\ Ended("failed")
  /\ UNCHANGED <<targets, at, index, opened, results, rows, progress>> /\ Now

\* That transaction fails in its turn.
AbortRollsBack ==
  /\ PageFaults /\ DataFaults
  /\ pc \in AtDriver
  /\ pc' = "handling"
  /\ UNCHANGED <<targets, at, index, opened, results, outcome, store, progress>> /\ Now

-----------------------------------------------------------------------------
(***************************************************************************)
(* The results.                                                            *)
(***************************************************************************)

Close ==
  /\ pc = "closing"
  /\ pc' = "storing"
  /\ UNCHANGED <<targets, at, index, opened, results, outcome, store, progress>> /\ Now

Sent == Cardinality({i \in DOMAIN results : results[i]})
Failed == Len(results) - Sent
ResultOf(a) == \E i \in DOMAIN targets : targets[i] = a /\ results[i]

\* Deliberate error: rows of earlier executions are updated, not removed.
ResultRowsKept ==
  [a \in Accounts |->
     IF \E i \in DOMAIN targets : targets[i] = a
     THEN IF ResultOf(a) THEN "sent" ELSE "failed"
     ELSE IF a \in Chosen THEN "sent" ELSE rows[a]]

\* persist_campaign_execution replaces the rows of the campaign.
ResultRows ==
  [a \in Accounts |->
     IF \E i \in DOMAIN targets : targets[i] = a
     THEN IF ResultOf(a) THEN "sent" ELSE "failed"
     ELSE "none"]

StoreResults ==
  /\ pc = "storing"
  /\ IF kind = "campaign"
     THEN /\ rows' = ResultRows
          /\ campaign' = [campaign EXCEPT
                            !.sent = Sent, !.failed = Failed,
                            !.status = IF Failed = 0 THEN "completed"
                                       ELSE "completed_with_failures"]
     ELSE UNCHANGED store
  /\ Ended("succeeded")
  /\ UNCHANGED <<targets, at, index, opened, results, progress>> /\ Now

StoreFails ==
  /\ DataFaults
  /\ pc = "storing"
  /\ pc' = "handling"
  /\ UNCHANGED <<targets, at, index, opened, results, outcome, store, progress>> /\ Now

\* A worker is killed, or ends because the handler's transaction fails;
\* fail_expired_job_leases fails its job and the campaign.
Crash ==
  /\ Crashes \/ (DataFaults /\ pc = "handling")
  /\ pc \notin {"idle", "queued"}
  /\ campaign' = IF kind = "campaign" THEN [campaign EXCEPT !.status = "failed"] ELSE campaign
  /\ Ended("failed")
  /\ UNCHANGED <<targets, at, index, opened, results, rows, progress>> /\ Now

-----------------------------------------------------------------------------

Driver ==
  \/ PageOpens \/ ThreadListNotFound \/ BuildIndex \/ NextTarget
  \/ DirectOpens \/ DirectFails \/ SearchOpens \/ GroupOpens \/ TargetFails
  \/ TypeAndSend \/ SubmitFails \/ Invite \/ Aborts \/ AbortRollsBack \/ Close

Worker ==
  \/ Cancelled \/ Prepare \/ PrepareFails \/ HandleException \/ DriverFails
  \/ Driver \/ StoreResults \/ StoreFails

Next == Submit \/ ContactGoes \/ Worker \/ Crash

Spec == Init /\ [][Next]_vars

\* The worker goes on with the job it has claimed.
FairSpec == Spec /\ WF_vars(Worker)

-----------------------------------------------------------------------------
(***************************************************************************)
(* Properties.                                                             *)
(***************************************************************************)

\* A campaign or a manual send writes to nobody but the chosen recipients,
\* whatever the page shows, lags or hides.
OnlyRecipientsAreWritten ==
  kind \in {"campaign", "manual"} =>
    \A n \in 1..Executions, a \in Accounts : mail[n][a] > 0 => a \in Chosen

\* A group message reaches the named group and nobody else.
GroupMessageIsForGroup ==
  kind = "group" =>
    \A n \in 1..Executions, a \in Accounts : mail[n][a] > 0 => a \in Chosen

\* A recipient who is stored as sent has got the message of that execution.
SentMeansDelivered ==
  outcome = "succeeded" /\ kind = "campaign" =>
    \A a \in Accounts : rows[a] = "sent" => mail[jobs][a] > 0

\* Nobody gets the message of one execution twice.
OncePerExecution ==
  kind # "friend" => \A n \in 1..Executions, a \in Accounts : mail[n][a] <= 1

\* The stored totals are those of the stored rows, and cover the recipients.
StoredTotalsAddUp ==
  outcome = "succeeded" /\ kind = "campaign" =>
    /\ campaign.sent = Cardinality({a \in Accounts : rows[a] = "sent"})
    /\ campaign.sent + campaign.failed = campaign.matched
    /\ campaign.matched = Cardinality({a \in Accounts : rows[a] # "none"})

\* The progress page never counts more messages than have been delivered.
ProgressIsSound ==
  jobs > 0 => progress.sent <= Cardinality({a \in Accounts : mail[jobs][a] > 0})

\* A retry of a failed job writes to nobody who has got the message already.
NoDuplicateSends ==
  \A a \in Accounts, n, k \in 1..Executions : mail[n][a] > 0 /\ mail[k][a] > 0 => n = k

\* A campaign fails or completes with its job.
CampaignEndsWithJob ==
  kind = "campaign" =>
    /\ outcome = "failed" => campaign.status = "failed"
    /\ outcome = "succeeded" => campaign.status \in {"completed", "completed_with_failures"}

\* It does so at every end of a job, whether the job is done, the page fails or the
\* worker is killed, and again when it is run again, as long as no exception gets to
\* the handler of worker_loop, which leaves the campaign queued.
CampaignsEndWithTheirJobs == [](pc # "handling") => []CampaignEndsWithJob

\* A job that is claimed ends.
JobsEnd == pc = "queued" ~> pc = "idle"

=============================================================================
