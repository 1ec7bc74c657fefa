---------------------------- MODULE SendJobsProofs ---------------------------
(***************************************************************************)
(* Proofs about SendJobs, for all accounts, names, lists of recipients and *)
(* numbers of executions, whatever fails.  What depends on names is proved *)
(* under the conditions named here: SendNested.cfg, SendNamesakes.cfg,     *)
(* SendRelated.cfg and SendLines.cfg show that none of them can go.        *)
(***************************************************************************)
EXTENDS SendJobs, FiniteSetTheorems, SequenceTheorems, TLAPS

\* No name has another account's name in it, and whom a search shows for another
\* reason it shows among strangers: what Zalo shows tells people apart.
TellsApart ==
  /\ \A a, b \in Accounts : Includes(Name[a], Name[b]) => a = b
  /\ \A a \in Accounts : \A b \in Related[a] : b # a => Surface[b] = 5

NoDuplicates(s) == \A i, j \in DOMAIN s : s[i] = s[j] => i = j

\* A list names nobody twice, and a message is sent by its last key alone.
SaidOnce == Lines = 1 /\ \A l \in Recipients : NoDuplicates(l)

-----------------------------------------------------------------------------
(***************************************************************************)
(* The inductive invariants.                                               *)
(***************************************************************************)

\* The worker is between the first and the last statement on the targets.
Driving == {"starting", "indexing", "next", "direct", "search", "compose", "closing", "storing"}
AtTarget == {"direct", "search", "compose"}
ToPeople == {"campaign", "manual"}

\* Where the worker is, and how targets, results and the campaign's row go along.
CourseInv ==
  /\ outcome # "none" => pc = "idle"
  /\ pc # "idle" => jobs > 0
  /\ pc = "direct" => kind = "campaign"
  /\ pc = "compose" => kind # "friend"
  /\ pc \in Driving => Len(results) = at - 1
  /\ pc \in AtTarget => at <= Len(targets)
  /\ pc \in {"closing", "storing"} => at = Len(targets) + 1
  /\ pc \in Driving => \A i \in DOMAIN targets : targets[i] \in Chosen
  /\ pc \in Driving /\ NoDuplicates(list) => NoDuplicates(targets)
  /\ pc \in Driving /\ kind = "campaign" => campaign.matched = Len(targets)
  /\ pc \in Driving /\ kind = "group" => Len(targets) = 1
  /\ kind = "group" => Len(list) = 1

FlowInv == TypeOK /\ CourseInv

\* What has been delivered to whom, when names tell people apart.
MailInv ==
  /\ \A n \in 1..Executions : n > jobs => \A a \in Accounts : mail[n][a] = 0
  /\ pc = "compose" /\ kind \in ToPeople => opened = Target
  /\ kind \in ToPeople => \A n \in 1..Executions, a \in Accounts : mail[n][a] > 0 => a \in Chosen
  /\ pc \in Driving /\ kind \in ToPeople =>
       \A i \in DOMAIN results : results[i] => mail[jobs][targets[i]] > 0
  /\ SentMeansDelivered

\* How often, when moreover a list names nobody twice.
OnceInv ==
  /\ pc = "queued" => \A a \in Accounts : mail[jobs][a] = 0
  /\ pc \in Driving /\ kind \in ToPeople =>
       \A a \in Accounts : mail[jobs][a] > 0 => \E i \in 1..(at - 1) : targets[i] = a
  /\ pc \in Driving /\ kind = "group" /\ at = 1 => \A a \in Accounts : mail[jobs][a] = 0
  /\ OncePerExecution
  /\ kind # "campaign" => progress.sent = 0
  /\ ProgressIsSound

-----------------------------------------------------------------------------
(***************************************************************************)
(* Operators.                                                              *)
(***************************************************************************)

\* An order of places names each at most once.
LEMMA OrderIsInjective ==
  ASSUME NEW places, IsFiniteSet(places), NEW order \in InOrder(places)
  PROVE  /\ Cardinality(places) \in Nat
         /\ DOMAIN order = 1..Cardinality(places)
         /\ \A i \in DOMAIN order : order[i] \in places
         /\ \A i, j \in DOMAIN order : order[i] = order[j] /\ places \subseteq Nat => i = j
<1>1. Cardinality(places) \in Nat
  BY FS_CardinalityType
<1>2. order \in [1..Cardinality(places) -> places]
      /\ \A i, j \in 1..Cardinality(places) : i < j => order[i] < order[j]
  BY DEF InOrder
<1>3. ASSUME NEW i \in 1..Cardinality(places), NEW j \in 1..Cardinality(places),
             order[i] = order[j], places \subseteq Nat
      PROVE  i = j
  <2>1. order[i] \in Nat /\ order[j] \in Nat
    BY <1>2, <1>3
  <2>2. ~(i < j) /\ ~(j < i)
    BY <1>2, <1>3, <2>1
  <2> QED BY <1>1, <2>2
<1>4. DOMAIN order = 1..Cardinality(places)
  BY <1>2
<1> QED BY <1>1, <1>2, <1>3, <1>4

LEMMA FirstPlaces ==
  \A n \in Nat : IsFiniteSet(1..n) /\ Cardinality(1..n) = n
BY FS_Interval

\* Delivery adds to what one account got from one job.
LEMMA MailGrows ==
  ASSUME NEW m \in [1..Executions -> [Accounts -> Nat]], NEW n \in 1..Executions,
         NEW a \in Accounts, NEW more \in Nat, NEW grown,
         grown = [m EXCEPT ![n][a] = @ + more]
  PROVE  /\ grown \in [1..Executions -> [Accounts -> Nat]]
         /\ grown[n][a] = m[n][a] + more
         /\ \A k \in 1..Executions, b \in Accounts :
              k # n \/ b # a => grown[k][b] = m[k][b]
<1>1. m[n] \in [Accounts -> Nat]
  OBVIOUS
<1>2. [m[n] EXCEPT ![a] = m[n][a] + more] \in [Accounts -> Nat]
  BY <1>1
<1>3. grown = [m EXCEPT ![n] = [m[n] EXCEPT ![a] = m[n][a] + more]]
  OBVIOUS
<1> QED BY <1>1, <1>2, <1>3

\* Successes and failures are what there are results of.
LEMMA TotalsAreNumbers ==
  ASSUME results \in Seq(BOOLEAN)
  PROVE  /\ Sent \in Nat /\ Failed \in Nat
         /\ Sent + Failed = Len(results)
<1>1. Len(results) \in Nat /\ DOMAIN results = 1..Len(results)
  OBVIOUS
<1>2. IsFiniteSet(1..Len(results)) /\ Cardinality(1..Len(results)) = Len(results)
  BY <1>1, FirstPlaces
<1>3. {i \in DOMAIN results : results[i]} \subseteq 1..Len(results)
  BY <1>1
<1>4. Sent \in Nat /\ Sent <= Len(results)
  BY <1>1, <1>2, <1>3, FS_Subset, FS_CardinalityType DEF Sent
<1> QED BY <1>1, <1>4 DEF Failed

-----------------------------------------------------------------------------
(***************************************************************************)
(* FlowInv.                                                                *)
(***************************************************************************)

LEMMA FlowInvInit ==
  ASSUME Init
  PROVE  FlowInv
<1>1. TypeOK
  BY RecipientsAssumption DEF Init, TypeOK, Kinds
<1>2. CourseInv
  BY DEF Init, CourseInv, Driving, AtTarget
<1> QED BY <1>1, <1>2 DEF FlowInv

\* A step that leaves the job, its people and its course alone is well typed if what
\* it does to the rest is.
LEMMA Types ==
  ASSUME TypeOK, UNCHANGED <<kind, list>>,
         active' \subseteq Accounts,
         pc' \in Driving \cup {"idle", "queued", "handling"},
         targets' \in Seq(Accounts), at' \in 1..(Len(targets') + 1),
         index' \subseteq Accounts, opened' \in Accounts \cup {NoOne},
         results' \in Seq(BOOLEAN),
         outcome' \in {"none", "succeeded", "failed", "cancelled"},
         campaign' \in [status : {"draft", "queued", "completed", "completed_with_failures",
                                  "failed"}, matched : Nat, sent : Nat, failed : Nat],
         rows' \in [Accounts -> {"none", "sent", "failed"}],
         progress' \in [sent : Nat, failed : Nat],
         mail' \in [1..Executions -> [Accounts -> Nat]],
         jobs' \in 0..Executions
  PROVE  TypeOK'
BY DEF TypeOK, Driving

LEMMA FlowInvPrepare ==
  ASSUME FlowInv, Prepare
  PROVE  FlowInv'
<1>1. /\ list \in Seq(Accounts) /\ Len(list) \in Nat /\ DOMAIN list = 1..Len(list)
      /\ kind \in Kinds
  BY RecipientsAssumption DEF FlowInv, TypeOK
<1>2. /\ pc = "queued" /\ jobs > 0 /\ outcome' = outcome /\ outcome = "none"
      /\ UNCHANGED <<kind, list, active, mail, jobs, rows, progress>>
      /\ at' = 1 /\ results' = << >> /\ index' = {} /\ opened' = NoOne
      /\ kind = "group" => Len(list) = 1
  BY DEF Prepare, Now, FlowInv, CourseInv
<1>3. CASE Resolved = {}
  <2>1. pc' = "handling" /\ targets' = targets /\ campaign' = campaign
    BY <1>3 DEF Prepare
  <2>2. at' \in 1..(Len(targets) + 1)
    BY <1>2 DEF FlowInv, TypeOK
  <2>3. TypeOK'
    BY <1>2, <2>1, <2>2, Types DEF FlowInv, TypeOK
  <2>4. CourseInv'
    BY <1>2, <2>1 DEF CourseInv, Driving, AtTarget
  <2> QED BY <2>3, <2>4 DEF FlowInv
<1>4. CASE Resolved # {}
  <2>1. Resolved \subseteq DOMAIN list /\ IsFiniteSet(Resolved) /\ Resolved \subseteq Nat
    <3>1. Resolved \subseteq 1..Len(list)
      BY <1>1 DEF Resolved
    <3>2. IsFiniteSet(1..Len(list))
      BY <1>1, FS_Interval
    <3>3. IsFiniteSet(Resolved)
      BY <3>1, <3>2, FS_Subset
    <3> QED BY <1>1, <3>1, <3>3
  <2>2. PICK order \in InOrder(Resolved) : targets' = [i \in DOMAIN order |-> list[order[i]]]
    BY <1>4 DEF Prepare
  <2> DEFINE n == Cardinality(Resolved)
  <2>3. /\ n \in Nat
        /\ DOMAIN order = 1..n
        /\ \A i \in 1..n : order[i] \in DOMAIN list
        /\ \A i, j \in 1..n : order[i] = order[j] => i = j
    BY <2>1, OrderIsInjective
  <2>4. /\ targets' = [i \in 1..n |-> list[order[i]]]
        /\ \A i \in 1..n : list[order[i]] \in Accounts
    BY <1>1, <2>2, <2>3
  <2>5. /\ targets' \in Seq(Accounts) /\ Len(targets') = n /\ DOMAIN targets' = 1..n
        /\ \A i \in 1..n : targets'[i] = list[order[i]]
    <3> HIDE DEF n
    <3> QED BY <2>3, <2>4
  <2>6. \A i \in DOMAIN targets' : targets'[i] \in Chosen
    BY <2>3, <2>5 DEF Chosen
  <2>7. NoDuplicates(list) => NoDuplicates(targets')
    BY <2>3, <2>5 DEF NoDuplicates
  <2>8. kind = "group" => Len(targets') = 1
    <3> HAVE kind = "group"
    <3>1. Resolved = {1}
      <4>1. Len(list) = 1
        BY <1>2
      <4>2. DOMAIN list = {1}
        BY <1>1, <4>1
      <4> QED BY <4>2 DEF Resolved
    <3>2. Cardinality({1}) = 1
      BY FS_Singleton
    <3> QED BY <2>5, <3>1, <3>2
  <2>9. campaign' = IF kind = "campaign" THEN [campaign EXCEPT !.matched = n, !.status = "queued"]
                    ELSE campaign
    BY <1>4 DEF Prepare
  <2>10. pc' = "starting"
    BY <1>4 DEF Prepare
  <2> HIDE DEF n
  <2>11. /\ campaign' \in [status : {"draft", "queued", "completed", "completed_with_failures",
                                     "failed"}, matched : Nat, sent : Nat, failed : Nat]
         /\ kind = "campaign" => campaign'.matched = n
    BY <2>3, <2>9 DEF FlowInv, TypeOK
  <2>12. at' \in 1..(Len(targets') + 1) /\ << >> \in Seq(BOOLEAN)
    BY <1>2, <2>3, <2>5
  <2>13. TypeOK'
    BY <1>2, <2>5, <2>10, <2>11, <2>12, Types DEF FlowInv, TypeOK, Driving
  <2>14. CourseInv'
    BY <1>2, <2>5, <2>6, <2>7, <2>8, <2>10, <2>11 DEF CourseInv, Driving, AtTarget, Chosen
  <2> QED BY <2>13, <2>14 DEF FlowInv
<1> QED BY <1>3, <1>4

\* What a step that only moves on in a job keeps.
LEMMA FlowInvQuiet ==
  ASSUME FlowInv,
         \/ HandleException \/ Cancelled \/ PrepareFails \/ DriverFails \/ AbortRollsBack
         \/ PageOpens \/ ThreadListNotFound \/ BuildIndex \/ NextTarget \/ DirectOpens
         \/ DirectFails \/ SearchOpens \/ GroupOpens \/ Close \/ StoreFails \/ ContactGoes
  PROVE  FlowInv'
<1> USE DEF Now, store, Ended
<1>1. UNCHANGED <<kind, list, mail, jobs, targets, at, results, campaign, rows, progress>>
  BY DEF HandleException, Cancelled, PrepareFails, DriverFails, AbortRollsBack, AtDriver,
     PageOpens, ThreadListNotFound, BuildIndex, NextTarget, DirectOpens, DirectFails,
     SearchOpens, GroupOpens, Close, StoreFails, ContactGoes
<1>2. active' \subseteq Accounts
  BY DEF FlowInv, TypeOK, HandleException, Cancelled, PrepareFails, DriverFails,
     AbortRollsBack, AtDriver, PageOpens, ThreadListNotFound, BuildIndex, NextTarget,
     DirectOpens, DirectFails, SearchOpens, GroupOpens, Close, StoreFails, ContactGoes
<1>3. opened' \in Accounts \cup {NoOne} /\ index' \subseteq Accounts
  <2>0. opened \in Accounts \cup {NoOne} /\ index \subseteq Accounts
    BY DEF FlowInv, TypeOK
  <2>1. CASE DirectOpens
    BY <2>0, <2>1 DEF DirectOpens, Clicks, Candidates, VisibleThreads, Entries
  <2>2. CASE DirectFails
    BY <2>0, <2>2 DEF DirectFails
  <2>3. CASE SearchOpens
    BY <2>0, <2>3 DEF SearchOpens, Clicks, Shown, Found, Selected
  <2>4. CASE GroupOpens
    BY <2>0, <2>4 DEF GroupOpens, Clicks, Shown, Found, SelectedAny
  <2>5. CASE BuildIndex
    BY <2>0, <2>5 DEF BuildIndex, VisibleThreads
  <2> QED BY <2>0, <2>1, <2>2, <2>3, <2>4, <2>5 DEF HandleException, Cancelled, PrepareFails,
          DriverFails, AbortRollsBack, AtDriver, PageOpens, ThreadListNotFound, NextTarget,
          Close, StoreFails, ContactGoes
<1>4. /\ pc' \in Driving \cup {"idle", "queued", "handling"}
      /\ outcome' \in {"none", "succeeded", "failed", "cancelled"}
  BY DEF FlowInv, TypeOK, Driving, HandleException, Cancelled, PrepareFails, DriverFails,
     AbortRollsBack, AtDriver, PageOpens, ThreadListNotFound, BuildIndex, NextTarget,
     DirectOpens, DirectFails, SearchOpens, GroupOpens, Close, StoreFails, ContactGoes
<1>5. TypeOK'
  BY <1>1, <1>2, <1>3, <1>4, Types DEF FlowInv, TypeOK
<1>6. /\ outcome' # "none" => pc' = "idle"
      /\ pc' # "idle" => pc # "idle"
      /\ pc' \in Driving => pc \in Driving
      /\ pc' = "direct" => kind = "campaign"
      /\ pc' = "compose" => kind # "friend"
  BY DEF FlowInv, CourseInv, Driving, HandleException, Cancelled, PrepareFails, DriverFails,
     AbortRollsBack, AtDriver, PageOpens, ThreadListNotFound, BuildIndex, NextTarget,
     DirectOpens, DirectFails, SearchOpens, GroupOpens, Close, StoreFails, ContactGoes
<1>7. /\ pc' \in AtTarget => at <= Len(targets)
      /\ pc' \in {"closing", "storing"} => at = Len(targets) + 1
  <2>1. at \in 1..(Len(targets) + 1) /\ Len(targets) \in Nat
    BY DEF FlowInv, TypeOK
  <2> QED BY <2>1 DEF FlowInv, CourseInv, AtTarget, HandleException, Cancelled, PrepareFails,
          DriverFails, AbortRollsBack, AtDriver, PageOpens, ThreadListNotFound, BuildIndex,
          NextTarget, DirectOpens, DirectFails, SearchOpens, GroupOpens, Close, StoreFails,
          ContactGoes
<1>8. CourseInv'
  BY <1>1, <1>6, <1>7 DEF FlowInv, CourseInv, Chosen, NoDuplicates
<1> QED BY <1>5, <1>8 DEF FlowInv

\* A result is added, and mail may have been.
LEMMA FlowInvResult ==
  ASSUME FlowInv, NEW success \in BOOLEAN, pc \in AtTarget, TargetDone(success),
         opened' \in Accounts \cup {NoOne}, mail' \in [1..Executions -> [Accounts -> Nat]]
  PROVE  FlowInv'
<1>1. /\ UNCHANGED <<kind, list, active, targets, index, outcome, campaign, rows, jobs>>
      /\ results' = Append(results, success) /\ at' = at + 1 /\ pc' = "next"
  BY DEF TargetDone, store
<1>2. /\ at \in Nat /\ Len(targets) \in Nat /\ results \in Seq(BOOLEAN)
      /\ at <= Len(targets) /\ Len(results) = at - 1
      /\ pc \in Driving
  BY DEF FlowInv, TypeOK, CourseInv, Driving, AtTarget
<1>3. /\ at' \in 1..(Len(targets) + 1)
      /\ results' \in Seq(BOOLEAN) /\ Len(results') = at' - 1
  BY <1>1, <1>2
<1>4. progress' \in [sent : Nat, failed : Nat]
  <2>1. progress \in [sent : Nat, failed : Nat]
    BY DEF FlowInv, TypeOK
  <2> QED BY <2>1 DEF TargetDone
<1>5. TypeOK'
  BY <1>1, <1>3, <1>4, Types DEF FlowInv, TypeOK, Driving
<1>6. CourseInv'
  BY <1>1, <1>2, <1>3 DEF FlowInv, CourseInv, Driving, AtTarget, Chosen, NoDuplicates
<1> QED BY <1>5, <1>6 DEF FlowInv

LEMMA FlowInvTargets ==
  ASSUME FlowInv, TargetFails \/ TypeAndSend \/ SubmitFails \/ Invite
  PROVE  FlowInv'
<1>1. pc \in AtTarget
  BY DEF TargetFails, TypeAndSend, SubmitFails, Invite, AtTarget
<1>2. /\ mail \in [1..Executions -> [Accounts -> Nat]]
      /\ opened \in Accounts \cup {NoOne}
      /\ Lines \in Nat
  BY RecipientsAssumption DEF FlowInv, TypeOK
<1>0. jobs \in 1..Executions
  BY <1>1, RecipientsAssumption DEF FlowInv, TypeOK, CourseInv, AtTarget
<1>3. CASE TargetFails
  BY <1>1, <1>2, <1>3, FlowInvResult DEF TargetFails, Found
<1>4. CASE TypeAndSend
  <2>1. mail' \in [1..Executions -> [Accounts -> Nat]]
    BY <1>0, <1>2, <1>4, MailGrows DEF TypeAndSend, Delivered
  <2> QED BY <1>1, <1>2, <1>4, <2>1, FlowInvResult DEF TypeAndSend
<1>5. CASE SubmitFails
  <2>1. mail' \in [1..Executions -> [Accounts -> Nat]]
    BY <1>0, <1>2, <1>5, MailGrows DEF SubmitFails, Delivered
  <2> QED BY <1>1, <1>2, <1>5, <2>1, FlowInvResult DEF SubmitFails
<1>6. CASE Invite
  <2>1. mail' \in [1..Executions -> [Accounts -> Nat]] /\ opened' \in Accounts
    BY <1>0, <1>2, <1>6, MailGrows DEF Invite, Shown, Found
  <2> QED BY <1>1, <1>6, <2>1, FlowInvResult DEF Invite
<1> QED BY <1>3, <1>4, <1>5, <1>6

LEMMA FlowInvEnds ==
  ASSUME FlowInv, Submit \/ Aborts \/ Crash \/ StoreResults
  PROVE  FlowInv'
<1>1. /\ UNCHANGED <<kind, list, active, targets, at, index, opened, results, mail>>
      /\ pc' \in {"idle", "queued"}
      /\ outcome' \in {"none", "succeeded", "failed", "cancelled"}
      /\ outcome' # "none" => pc' = "idle"
  BY DEF Submit, Aborts, Crash, StoreResults, Ended, Now
<1>2. campaign' \in [status : {"draft", "queued", "completed", "completed_with_failures",
                               "failed"}, matched : Nat, sent : Nat, failed : Nat]
  <2>0. campaign \in [status : {"draft", "queued", "completed", "completed_with_failures",
                                "failed"}, matched : Nat, sent : Nat, failed : Nat]
    BY DEF FlowInv, TypeOK
  <2>1. CASE Submit \/ Aborts \/ Crash
    BY <2>0, <2>1 DEF Submit, Aborts, Crash
  <2>2. CASE StoreResults
    <3>1. Sent \in Nat /\ Failed \in Nat
      BY TotalsAreNumbers DEF FlowInv, TypeOK
    <3> QED BY <2>0, <2>2, <3>1 DEF StoreResults, store
  <2> QED BY <2>1, <2>2
<1>3. rows' \in [Accounts -> {"none", "sent", "failed"}]
  BY DEF FlowInv, TypeOK, Submit, Aborts, Crash, StoreResults, ResultRows, store
<1>4. /\ jobs' \in 0..Executions /\ (pc' # "idle" => jobs' > 0)
      /\ progress' \in [sent : Nat, failed : Nat]
  <2>0. /\ jobs \in 0..Executions /\ progress \in [sent : Nat, failed : Nat]
        /\ Executions \in Nat
    BY RecipientsAssumption DEF FlowInv, TypeOK
  <2>1. CASE Submit
    BY <2>0, <2>1 DEF Submit
  <2>2. CASE Aborts \/ Crash \/ StoreResults
    BY <2>0, <2>2 DEF Aborts, Crash, StoreResults, Now, Ended
  <2> QED BY <2>1, <2>2
<1>5. TypeOK'
  BY <1>1, <1>2, <1>3, <1>4, Types DEF FlowInv, TypeOK
<1>6. CourseInv'
  BY <1>1, <1>4 DEF FlowInv, CourseInv, Driving, AtTarget
<1> QED BY <1>5, <1>6 DEF FlowInv

LEMMA FlowInvNext ==
  ASSUME FlowInv, [Next]_vars
  PROVE  FlowInv'
<1>1. CASE UNCHANGED vars
  BY <1>1 DEF vars, FlowInv, TypeOK, CourseInv, Chosen, NoDuplicates
<1> QED BY <1>1, FlowInvPrepare, FlowInvQuiet, FlowInvTargets, FlowInvEnds DEF Next, Worker,
        Driver

LEMMA FlowInvAlways == Spec => []FlowInv
BY FlowInvInit, FlowInvNext, PTL DEF Spec

\* Every reachable state is well typed, whatever names, lists and failures.
THEOREM TypeCorrect == Spec => []TypeOK
BY FlowInvAlways, PTL DEF FlowInv

-----------------------------------------------------------------------------
(***************************************************************************)
(* What is stored.                                                         *)
(***************************************************************************)

\* Targets named once each are as many as their places.
LEMMA CountedOnce ==
  ASSUME NoDuplicates(targets), NEW places \in SUBSET (DOMAIN targets), IsFiniteSet(places)
  PROVE  Cardinality({targets[i] : i \in places}) = Cardinality(places)
<1> DEFINE there == {targets[i] : i \in places}
           f == [i \in places |-> targets[i]]
<1>1. f \in Bijection(places, there)
  <2>1. f \in [places -> there]
    OBVIOUS
  <2>2. \A i, j \in places : f[i] = f[j] => i = j
    BY DEF NoDuplicates
  <2>3. \A a \in there : \E i \in places : f[i] = a
    OBVIOUS
  <2> HIDE DEF f, there
  <2>4. f \in Injection(places, there)
    BY <2>1, <2>2 DEF Injection, IsInjective
  <2>5. f \in Surjection(places, there)
    BY <2>1, <2>3 DEF Surjection
  <2> QED BY <2>4, <2>5 DEF Bijection
<1> QED BY <1>1, FS_Bijection DEF ExistsBijection

\* persist_campaign_execution counts what it stores.
LEMMA TotalsOfRows ==
  ASSUME FlowInv, pc = "storing", kind = "campaign", NoDuplicates(list), StoreResults
  PROVE  StoredTotalsAddUp'
<1>1. /\ targets \in Seq(Accounts) /\ results \in Seq(BOOLEAN)
      /\ Len(targets) \in Nat /\ Len(results) = Len(targets)
      /\ campaign.matched = Len(targets) /\ NoDuplicates(targets)
      /\ campaign \in [status : {"draft", "queued", "completed", "completed_with_failures",
                                 "failed"}, matched : Nat, sent : Nat, failed : Nat]
  BY DEF FlowInv, TypeOK, CourseInv, Driving
<1>2. rows' = ResultRows /\ campaign' = [campaign EXCEPT !.sent = Sent, !.failed = Failed,
                                           !.status = IF Failed = 0 THEN "completed"
                                                      ELSE "completed_with_failures"]
  BY DEF StoreResults
<1>3. campaign'.sent = Sent /\ campaign'.failed = Failed /\ campaign'.matched = Len(targets)
  BY <1>1, <1>2
<1>4. Sent \in Nat /\ Failed \in Nat /\ Sent + Failed = Len(targets)
  BY <1>1, TotalsAreNumbers
<1> DEFINE successes == {i \in DOMAIN results : results[i]}
<1>5. /\ DOMAIN targets = 1..Len(targets) /\ DOMAIN results = DOMAIN targets
      /\ \A i \in DOMAIN targets : targets[i] \in Accounts
  BY <1>1
<1>6. /\ IsFiniteSet(DOMAIN targets) /\ Cardinality(DOMAIN targets) = Len(targets)
      /\ IsFiniteSet(successes) /\ successes \subseteq DOMAIN targets
  <2>0. Len(targets) \in Nat
    BY <1>1
  <2>1. IsFiniteSet(1..Len(targets)) /\ Cardinality(1..Len(targets)) = Len(targets)
    BY <2>0, FirstPlaces
  <2>2. successes \subseteq 1..Len(targets)
    BY <1>5
  <2>3. IsFiniteSet(successes)
    BY <2>1, <2>2, FS_Subset
  <2> QED BY <1>5, <2>1, <2>2, <2>3
<1>7. {a \in Accounts : rows'[a] = "sent"} = {targets[i] : i \in successes}
  <2>1. \A a \in Accounts : rows'[a] = "sent" <=> \E i \in successes : targets[i] = a
    BY <1>2, <1>5 DEF ResultRows, ResultOf
  <2> QED BY <1>5, <2>1
<1>8. {a \in Accounts : rows'[a] # "none"} = {targets[i] : i \in DOMAIN targets}
  <2>1. \A a \in Accounts : rows'[a] # "none" <=> \E i \in DOMAIN targets : targets[i] = a
    BY <1>2 DEF ResultRows
  <2> QED BY <1>5, <2>1
<1>9. Cardinality({a \in Accounts : rows'[a] = "sent"}) = Sent
  BY <1>1, <1>6, <1>7, CountedOnce DEF Sent
<1>10. Cardinality({a \in Accounts : rows'[a] # "none"}) = Len(targets)
  BY <1>1, <1>6, <1>8, CountedOnce
<1> QED BY <1>3, <1>4, <1>9, <1>10 DEF StoredTotalsAddUp

\* Only the storing of results makes a job a success, and its rows then stay.
LEMMA SuccessStays ==
  ASSUME FlowInv, [Next]_vars, outcome' = "succeeded"
  PROVE  \/ pc = "storing" /\ StoreResults
         \/ /\ outcome = "succeeded"
            /\ UNCHANGED <<kind, list, campaign, rows, mail, jobs>>
<1>1. CASE UNCHANGED vars
  BY <1>1 DEF vars
<1>2. CASE StoreResults
  BY <1>2 DEF StoreResults
<1>3. CASE ContactGoes
  BY <1>3 DEF ContactGoes
<1>4. CASE outcome' = outcome /\ pc # "idle"
  BY <1>4 DEF FlowInv, CourseInv
<1>6. CASE Submit \/ HandleException \/ Cancelled \/ Aborts \/ Crash
  BY <1>6 DEF Submit, HandleException, Cancelled, Aborts, Crash, Ended
<1>7. ASSUME TargetFails \/ TypeAndSend \/ SubmitFails \/ Invite
      PROVE  outcome' = outcome /\ pc # "idle"
  BY <1>7 DEF TargetFails, TypeAndSend, SubmitFails, Invite, TargetDone
<1>8. ASSUME Prepare \/ PrepareFails \/ DriverFails \/ AbortRollsBack \/ PageOpens
             \/ ThreadListNotFound \/ BuildIndex \/ NextTarget \/ DirectOpens \/ DirectFails
             \/ SearchOpens \/ GroupOpens \/ Close \/ StoreFails
      PROVE  outcome' = outcome /\ pc # "idle"
  BY <1>8 DEF Prepare, PrepareFails, DriverFails, AbortRollsBack, AtDriver, PageOpens,
     ThreadListNotFound, BuildIndex, NextTarget, DirectOpens, DirectFails, SearchOpens,
     GroupOpens, Close, StoreFails
<1> QED BY <1>1, <1>2, <1>3, <1>4, <1>6, <1>7, <1>8 DEF Next, Worker, Driver

\* The totals of a campaign are those of its rows and cover its contacts, if its list
\* names nobody twice.
THEOREM TotalsAddUp ==
  ASSUME \A l \in Recipients : NoDuplicates(l)
  PROVE  Spec => []StoredTotalsAddUp
<1>1. Init => StoredTotalsAddUp
  BY DEF Init, StoredTotalsAddUp
<1>2. FlowInv /\ StoredTotalsAddUp /\ [Next]_vars => StoredTotalsAddUp'
  <2> SUFFICES ASSUME FlowInv, StoredTotalsAddUp, [Next]_vars,
                      outcome' = "succeeded", kind' = "campaign"
               PROVE  StoredTotalsAddUp'
    BY DEF StoredTotalsAddUp
  <2>1. CASE pc = "storing" /\ StoreResults
    BY <2>1, TotalsOfRows DEF StoreResults, Now, FlowInv, TypeOK
  <2>2. CASE outcome = "succeeded" /\ UNCHANGED <<kind, list, campaign, rows, mail, jobs>>
    BY <2>2 DEF StoredTotalsAddUp
  <2> QED BY <2>1, <2>2, SuccessStays
<1> QED BY <1>1, <1>2, FlowInvAlways, PTL DEF Spec

LEMMA CampaignStep ==
  FlowInv /\ CampaignEndsWithJob /\ pc # "handling" /\ [Next]_vars => CampaignEndsWithJob'
<1> SUFFICES ASSUME FlowInv, CampaignEndsWithJob, pc # "handling", [Next]_vars
             PROVE  CampaignEndsWithJob'
  OBVIOUS
<1> USE DEF CampaignEndsWithJob
<1>0. campaign \in [status : {"draft", "queued", "completed", "completed_with_failures",
                              "failed"}, matched : Nat, sent : Nat, failed : Nat]
  BY DEF FlowInv, TypeOK
<1>1. CASE UNCHANGED vars
  BY <1>1 DEF vars
<1>2. CASE Submit
  BY <1>2 DEF Submit
<1>3. CASE Prepare
  <2>1. UNCHANGED <<kind, outcome>> /\ outcome = "none"
    BY <1>3 DEF Prepare, Now, FlowInv, CourseInv
  <2> QED BY <2>1
<1>4. CASE Aborts \/ Crash
  BY <1>0, <1>4 DEF Aborts, Crash, Ended, Now
<1>5. CASE StoreResults
  BY <1>0, <1>5 DEF StoreResults, Ended, Now
<1>6. CASE Cancelled
  BY <1>6 DEF Cancelled, Ended, Now, store
<1>7. ~HandleException
  BY DEF HandleException
<1>8. CASE ContactGoes
  BY <1>8 DEF ContactGoes
<1>9. CASE PrepareFails \/ DriverFails \/ AbortRollsBack \/ StoreFails
  BY <1>9 DEF PrepareFails, DriverFails, AbortRollsBack, StoreFails, Now, store
<1>10. CASE TargetFails \/ TypeAndSend \/ SubmitFails \/ Invite
  BY <1>10 DEF TargetFails, TypeAndSend, SubmitFails, Invite, TargetDone, store
<1>11. CASE PageOpens \/ ThreadListNotFound \/ BuildIndex \/ NextTarget \/ Close
  BY <1>11 DEF PageOpens, ThreadListNotFound, BuildIndex, NextTarget, Close, Now, store
<1>12. CASE DirectOpens \/ DirectFails \/ SearchOpens \/ GroupOpens
  BY <1>12 DEF DirectOpens, DirectFails, SearchOpens, GroupOpens, Now, store
<1> QED BY <1>1, <1>2, <1>3, <1>4, <1>5, <1>6, <1>7, <1>8, <1>9, <1>10, <1>11, <1>12
           DEF Next, Worker, Driver

\* Done, failed by the page or swept after a crash, a job takes the campaign's row
\* with it, and a retry does so again (the last transactions of
\* _process_campaign_send, fail_expired_job_leases), for as long as the handler of
\* worker_loop has had no exception to deal with.
THEOREM CampaignsEnd == Spec => CampaignsEndWithTheirJobs
<1>1. Init => CampaignEndsWithJob
  BY DEF Init, CampaignEndsWithJob
<1> QED
  BY <1>1, CampaignStep, FlowInvAlways, PTL DEF Spec, CampaignsEndWithTheirJobs

-----------------------------------------------------------------------------
(***************************************************************************)
(* Whom the driver finds.                                                  *)
(***************************************************************************)

LEMMA StartIsIncluded ==
  ASSUME NEW a \in Accounts, NEW t, Name[a] = t \/ StartsWith(Name[a], t)
  PROVE  Includes(Name[a], t)
<1>1. /\ Name[a] \in Seq(Nat) /\ Len(Name[a]) \in Nat /\ 1 \in 1..Len(Name[a])
      /\ SubSeq(Name[a], 1, Len(Name[a])) = Name[a]
  <2>1. Name[a] \in Seq(Nat) /\ Name[a] # << >>
    BY NamesAssumption
  <2>2. SubSeq(Name[a], 1, Len(Name[a])) = Name[a]
    BY <2>1, SubSeqFull
  <2> QED BY <2>1, <2>2
<1>2. StartsWith(Name[a], t)
  BY <1>1 DEF StartsWith
<1> QED BY <1>1, <1>2 DEF Includes

LEMMA OneName ==
  ASSUME TellsApart, NEW a \in Accounts, NEW b \in Accounts, Name[a] = Name[b]
  PROVE  a = b
BY StartIsIncluded DEF TellsApart

\* The item that scores well enough is the one that was looked for.
LEMMA SelectedIsTarget ==
  ASSUME TellsApart, NEW b \in Accounts, NEW shown \in Shown(Name[b]),
         NEW a \in Selected(shown, Name[b])
  PROVE  a = b
<1>1. a \in Found(Name[b]) /\ a \in Accounts /\ Score(a, Name[b]) >= 20
  BY DEF Selected, Shown, Found
<1>2. CASE Includes(Name[a], Name[b])
  BY <1>1, <1>2 DEF TellsApart
<1>3. CASE ~Includes(Name[a], Name[b])
  <2>1. PICK c \in Accounts : Name[c] = Name[b] /\ a \in Related[c]
    BY <1>1, <1>3 DEF Found
  <2>2. c = b
    BY <2>1, OneName
  <2>3. Surface[a] \in {5, 45}
    BY <1>1, NamesAssumption
  <2>4. Score(a, Name[b]) = Surface[a]
    BY <1>1, <1>3, <2>3, StartIsIncluded DEF Score
  <2> QED BY <1>1, <2>1, <2>2, <2>3, <2>4 DEF TellsApart
<1> QED BY <1>2, <1>3

\* The header that is read is the target's own.
LEMMA ConfirmedIsTarget ==
  ASSUME TellsApart, NEW b \in Accounts, opened' \in Accounts \cup {NoOne},
         ConfirmActiveThread({Name[b]})
  PROVE  opened' = b
BY DEF TellsApart, ConfirmActiveThread

LEMMA ComposesToTarget ==
  ASSUME TellsApart, FlowInv, [Next]_vars, kind \in ToPeople, pc' = "compose",
         pc = "compose" => opened = Target
  PROVE  opened' = Target'
<1>0. CASE UNCHANGED vars
  BY <1>0 DEF vars, Target
<1>1. CASE DirectOpens \/ SearchOpens
  <2>1. at \in DOMAIN targets /\ targets \in Seq(Accounts) /\ opened \in Accounts \cup {NoOne}
    <3>1. /\ at \in 1..(Len(targets) + 1) /\ targets \in Seq(Accounts) /\ at <= Len(targets)
          /\ opened \in Accounts \cup {NoOne}
      BY <1>1 DEF FlowInv, TypeOK, CourseInv, AtTarget, DirectOpens, SearchOpens
    <3> QED BY <3>1
  <2>2. Target \in Accounts /\ Term = Name[Target]
    BY <2>1 DEF Target, Term
  <2>3. UNCHANGED <<targets, at>>
    BY <1>1 DEF DirectOpens, SearchOpens
  <2>4. opened' \in Accounts \cup {NoOne} /\ ConfirmActiveThread({Term})
    <3>1. CASE DirectOpens
      <4>1. PICK e \in Entries, visible \in VisibleThreads :
              \E a \in Candidates(visible, e) : Clicks(a) /\ ConfirmActiveThread({Term, Name[a]})
        BY <3>1 DEF DirectOpens
      <4>2. PICK a \in Candidates(visible, e) :
              Clicks(a) /\ ConfirmActiveThread({Term, Name[a]})
        BY <4>1
      <4>3. Name[a] = Term /\ a \in Accounts
        BY <4>1, <4>2 DEF Candidates, Entries, VisibleThreads, FlowInv, TypeOK
      <4> QED BY <2>1, <4>2, <4>3 DEF Clicks
    <3>2. CASE SearchOpens
      <4>1. PICK shown \in Shown(Term) : \E a \in Selected(shown, Term) :
              Clicks(a) /\ (ConfirmActiveThread({Term, Name[a]}) \/ ConfirmActiveThread({Term}))
        BY <3>2 DEF SearchOpens
      <4>2. PICK a \in Selected(shown, Term) :
              Clicks(a) /\ (ConfirmActiveThread({Term, Name[a]}) \/ ConfirmActiveThread({Term}))
        BY <4>1
      <4>3. a = Target
        BY <2>2, <4>2, SelectedIsTarget
      <4> QED BY <2>1, <2>2, <4>2, <4>3 DEF Clicks
    <3> QED BY <1>1, <3>1, <3>2
  <2>5. opened' = Target
    BY <2>2, <2>4, ConfirmedIsTarget
  <2> QED BY <2>3, <2>5 DEF Target
<1>2. CASE GroupOpens
  BY <1>2 DEF GroupOpens, ToPeople
<1>3. ASSUME Submit \/ ContactGoes \/ Crash \/ Cancelled \/ Prepare \/ HandleException
             \/ PrepareFails \/ DriverFails \/ AbortRollsBack \/ PageOpens
             \/ ThreadListNotFound \/ BuildIndex \/ NextTarget \/ DirectFails \/ Close
             \/ StoreResults \/ StoreFails \/ Aborts
      PROVE  FALSE
  BY <1>3 DEF Submit, ContactGoes, Crash, Cancelled, Prepare, HandleException, PrepareFails,
     DriverFails, AbortRollsBack, AtDriver, PageOpens, ThreadListNotFound, BuildIndex,
     NextTarget, DirectFails, Close, StoreResults, StoreFails, Aborts, Ended
<1>4. ASSUME TargetFails \/ TypeAndSend \/ SubmitFails \/ Invite
      PROVE  FALSE
  BY <1>4 DEF TargetFails, TypeAndSend, SubmitFails, Invite, TargetDone
<1> QED BY <1>0, <1>1, <1>2, <1>3, <1>4 DEF Next, Worker, Driver

-----------------------------------------------------------------------------
(***************************************************************************)
(* MailInv.                                                                *)
(***************************************************************************)

Results == TargetFails \/ TypeAndSend \/ SubmitFails \/ Invite

\* Steps that write to nobody and have no result.
LEMMA Others ==
  ASSUME FlowInv, [Next]_vars, ~Results, ~Submit, ~Prepare
  PROVE  /\ UNCHANGED <<kind, list, mail, jobs, targets, at, results, progress>>
         /\ pc' \in Driving => pc \in Driving
         /\ pc' = "queued" => pc = "queued"
<1>1. CASE UNCHANGED vars
  BY <1>1 DEF vars
<1>2. CASE ContactGoes \/ Crash \/ Cancelled \/ HandleException \/ PrepareFails \/ DriverFails
           \/ AbortRollsBack \/ Aborts \/ StoreResults \/ StoreFails
  BY <1>2 DEF ContactGoes, Crash, Cancelled, HandleException, PrepareFails, DriverFails,
     AbortRollsBack, AtDriver, Aborts, StoreResults, StoreFails, Ended, Now, Driving
<1>3. CASE PageOpens \/ ThreadListNotFound \/ BuildIndex \/ NextTarget \/ Close
  BY <1>3 DEF PageOpens, ThreadListNotFound, BuildIndex, NextTarget, Close, Now, Driving
<1>4. CASE DirectOpens \/ DirectFails \/ SearchOpens \/ GroupOpens
  BY <1>4 DEF DirectOpens, DirectFails, SearchOpens, GroupOpens, Now, Driving
<1> QED BY <1>1, <1>2, <1>3, <1>4 DEF Next, Worker, Driver, Results

\* The state in which a target gets its result.
LEMMA AtResult ==
  ASSUME FlowInv, Results
  PROVE  /\ outcome = "none" /\ pc \in Driving /\ pc' = "next"
         /\ jobs \in 1..Executions
         /\ targets \in Seq(Accounts) /\ at \in 1..Len(targets) /\ at' = at + 1
         /\ results \in Seq(BOOLEAN) /\ Len(results) = at - 1
         /\ Target \in Accounts /\ Target \in Chosen
         /\ UNCHANGED <<kind, list, targets, jobs, rows, outcome>>
<1>1. /\ pc \in AtTarget /\ pc' = "next" /\ at' = at + 1
      /\ UNCHANGED <<kind, list, targets, jobs, rows, outcome>>
  BY DEF Results, TargetFails, TypeAndSend, SubmitFails, Invite, TargetDone, AtTarget, store
<1>2. /\ targets \in Seq(Accounts) /\ at \in 1..(Len(targets) + 1) /\ at <= Len(targets)
      /\ results \in Seq(BOOLEAN) /\ Len(results) = at - 1 /\ pc \in Driving
      /\ jobs \in 1..Executions /\ outcome = "none"
      /\ \A i \in DOMAIN targets : targets[i] \in Chosen
  <2>1. /\ targets \in Seq(Accounts) /\ at \in 1..(Len(targets) + 1) /\ results \in Seq(BOOLEAN)
        /\ jobs \in 0..Executions /\ Executions \in Nat
    BY RecipientsAssumption DEF FlowInv, TypeOK
  <2>2. /\ at <= Len(targets) /\ Len(results) = at - 1 /\ pc \in Driving
        /\ jobs > 0 /\ outcome = "none"
        /\ \A i \in DOMAIN targets : targets[i] \in Chosen
    BY <1>1 DEF FlowInv, CourseInv, AtTarget, Driving
  <2>3. jobs \in 1..Executions
    BY <2>1, <2>2
  <2> QED BY <2>1, <2>2, <2>3
<1>3. at \in 1..Len(targets) /\ at \in DOMAIN targets
  BY <1>2
<1>4. Target \in Accounts /\ Target \in Chosen
  BY <1>2, <1>3 DEF Target
<1> QED BY <1>1, <1>2, <1>3, <1>4

\* Somebody gets something from the job.
Gets(a, more) == mail' = [mail EXCEPT ![jobs][a] = @ + more]

\* A success has been delivered; a failure has or has not.  A campaign or a manual
\* send delivers to its target.
LEMMA ResultIsTrue ==
  ASSUME FlowInv, MailInv, Results
  PROVE  \E success \in BOOLEAN :
           /\ TargetDone(success)
           /\ \/ ~success /\ mail' = mail
              \/ \E a \in Accounts, more \in Nat \ {0} :
                   /\ Gets(a, more)
                   /\ kind \in ToPeople => a = Target
                   /\ kind # "friend" => more = Lines
<1>0. Lines \in Nat \ {0} /\ 1 \in Nat \ {0}
  BY RecipientsAssumption
<1>1. CASE TargetFails
  BY <1>1 DEF TargetFails
<1>2. CASE Invite
  <2>1. PICK shown \in Shown(Term) : \E a \in shown : opened' = a /\ Gets(a, 1)
    BY <1>2 DEF Invite, Gets
  <2>2. PICK a \in shown : Gets(a, 1)
    BY <2>1
  <2>3. a \in Accounts /\ kind = "friend" /\ TargetDone(TRUE)
    BY <1>2, <2>1 DEF Invite, Shown, Found
  <2> QED BY <1>0, <2>2, <2>3 DEF ToPeople
<1>3. CASE TypeAndSend \/ SubmitFails
  <2>1. /\ opened \in Accounts \cup {NoOne} /\ pc = "compose"
        /\ kind \in ToPeople => opened = Target
    BY <1>3 DEF FlowInv, TypeOK, MailInv, TypeAndSend, SubmitFails
  <2>2. CASE TypeAndSend
    <3>1. opened \in Accounts /\ Gets(opened, Lines) /\ TargetDone(TRUE)
      BY <2>1, <2>2 DEF TypeAndSend, Delivered, Gets
    <3> QED BY <1>0, <2>1, <3>1
  <2>3. CASE SubmitFails
    <3>1. TargetDone(FALSE)
      BY <2>3 DEF SubmitFails
    <3>2. mail' = mail \/ (opened \in Accounts /\ Gets(opened, Lines))
      BY <2>1, <2>3 DEF SubmitFails, Delivered, Gets
    <3> QED BY <1>0, <2>1, <3>1, <3>2
  <2> QED BY <1>3, <2>2, <2>3
<1> QED BY <1>1, <1>2, <1>3 DEF Results

LEMMA MailInvInit ==
  ASSUME Init
  PROVE  MailInv
BY DEF Init, MailInv, SentMeansDelivered, Driving

LEMMA MailInvResults ==
  ASSUME FlowInv, MailInv, Results
  PROVE  MailInv'
<1>1. /\ outcome = "none" /\ pc \in Driving /\ pc' = "next"
      /\ jobs \in 1..Executions
      /\ targets \in Seq(Accounts) /\ at \in 1..Len(targets) /\ at' = at + 1
      /\ results \in Seq(BOOLEAN) /\ Len(results) = at - 1
      /\ Target \in Accounts /\ Target \in Chosen
      /\ UNCHANGED <<kind, list, targets, jobs, rows, outcome>>
      /\ mail \in [1..Executions -> [Accounts -> Nat]]
  BY AtResult DEF FlowInv, TypeOK
<1>2. PICK success \in BOOLEAN :
        /\ TargetDone(success)
        /\ \/ ~success /\ mail' = mail
           \/ \E a \in Accounts, more \in Nat \ {0} :
                /\ Gets(a, more)
                /\ kind \in ToPeople => a = Target
                /\ kind # "friend" => more = Lines
  BY ResultIsTrue
<1>3. results' = Append(results, success)
  BY <1>2 DEF TargetDone
<1>4. /\ \A n \in 1..Executions, a \in Accounts : n # jobs => mail'[n][a] = mail[n][a]
      /\ \A a \in Accounts : mail[jobs][a] \in Nat /\ mail'[jobs][a] \in Nat
      /\ \A a \in Accounts : mail'[jobs][a] >= mail[jobs][a]
      /\ kind \in ToPeople => \A a \in Accounts : a # Target => mail'[jobs][a] = mail[jobs][a]
      /\ kind \in ToPeople /\ success => mail'[jobs][Target] > 0
  <2>0. \A a \in Accounts : mail[jobs][a] \in Nat
    BY <1>1
  <2>1. CASE ~success /\ mail' = mail
    BY <2>0, <2>1
  <2>2. CASE ~(~success /\ mail' = mail)
    <3>1. PICK a \in Accounts, more \in Nat \ {0} :
            Gets(a, more) /\ (kind \in ToPeople => a = Target)
      BY <1>2, <2>2
    <3>2. /\ mail' \in [1..Executions -> [Accounts -> Nat]]
          /\ mail'[jobs][a] = mail[jobs][a] + more
          /\ \A k \in 1..Executions, b \in Accounts :
               k # jobs \/ b # a => mail'[k][b] = mail[k][b]
      BY <1>1, <3>1, MailGrows DEF Gets
    <3>3. \A b \in Accounts : mail'[jobs][b] \in Nat
      BY <1>1, <3>2
    <3>4. \A b \in Accounts : mail'[jobs][b] >= mail[jobs][b]
      <4> TAKE b \in Accounts
      <4>1. CASE b = a
        BY <2>0, <3>1, <3>2, <4>1
      <4>2. CASE b # a
        BY <1>1, <2>0, <3>2, <4>2
      <4> QED BY <4>1, <4>2
    <3>5. mail'[jobs][a] > 0
      BY <2>0, <3>1, <3>2
    <3> QED BY <1>1, <2>0, <3>1, <3>2, <3>3, <3>4, <3>5
  <2> QED BY <2>1, <2>2
<1>5. \A n \in 1..Executions : n > jobs' => \A a \in Accounts : mail'[n][a] = 0
  <2> SUFFICES ASSUME NEW n \in 1..Executions, n > jobs, NEW a \in Accounts
               PROVE  mail'[n][a] = 0
    BY <1>1
  <2>1. n # jobs
    BY <1>1
  <2>2. mail'[n][a] = mail[n][a]
    BY <1>4, <2>1
  <2> QED BY <2>2 DEF MailInv
<1>6. kind \in ToPeople =>
        \A n \in 1..Executions, a \in Accounts : mail'[n][a] > 0 => a \in Chosen
  <2> SUFFICES ASSUME kind \in ToPeople, NEW n \in 1..Executions, NEW a \in Accounts,
                      mail'[n][a] > 0
               PROVE  a \in Chosen
    OBVIOUS
  <2>1. CASE n = jobs /\ a = Target
    BY <1>1, <2>1
  <2>2. CASE ~(n = jobs /\ a = Target)
    <3>1. mail'[n][a] = mail[n][a]
      BY <1>4, <2>2
    <3> QED BY <3>1 DEF MailInv
  <2> QED BY <2>1, <2>2
<1>7. kind \in ToPeople =>
        \A i \in DOMAIN results' : results'[i] => mail'[jobs][targets[i]] > 0
  <2> SUFFICES ASSUME kind \in ToPeople, NEW i \in DOMAIN results', results'[i]
               PROVE  mail'[jobs][targets[i]] > 0
    OBVIOUS
  <2>1. i \in 1..at /\ at \in Nat
    BY <1>1, <1>3
  <2>2. CASE i = at
    BY <1>1, <1>3, <1>4, <2>2 DEF Target
  <2>3. CASE i # at
    <3>1. i \in DOMAIN results /\ results[i] /\ targets[i] \in Accounts
      BY <1>1, <1>3, <2>1, <2>3
    <3>2. mail[jobs][targets[i]] > 0
      BY <1>1, <3>1 DEF MailInv
    <3> QED BY <1>4, <3>1, <3>2
  <2> QED BY <2>2, <2>3
<1> QED BY <1>1, <1>5, <1>6, <1>7 DEF MailInv, SentMeansDelivered, Chosen

LEMMA MailInvNext ==
  ASSUME TellsApart, FlowInv, FlowInv', MailInv, [Next]_vars
  PROVE  MailInv'
<1>1. CASE Results
  BY <1>1, MailInvResults
<1>2. CASE Submit
  <2>1. /\ UNCHANGED <<kind, list, mail>> /\ jobs' = jobs + 1 /\ jobs \in Nat
        /\ pc' = "queued" /\ outcome' = "none" /\ Executions \in Nat
    BY <1>2, RecipientsAssumption DEF Submit, FlowInv, TypeOK
  <2>2. (\A n \in 1..Executions : n > jobs => \A a \in Accounts : mail[n][a] = 0)'
    <3>1. \A n \in 1..Executions : n > jobs' => n > jobs
      BY <2>1
    <3> QED BY <2>1, <3>1 DEF MailInv
  <2> QED BY <2>1, <2>2 DEF MailInv, SentMeansDelivered, Driving, Chosen
<1>3. CASE Prepare
  <2>1. /\ UNCHANGED <<kind, list, mail, jobs>> /\ pc' # "compose" /\ results' = << >>
        /\ outcome' = outcome /\ outcome = "none"
    BY <1>3 DEF Prepare, Now, FlowInv, CourseInv
  <2> QED BY <2>1 DEF MailInv, SentMeansDelivered, Chosen
<1>4. CASE ~Results /\ ~Submit /\ ~Prepare
  <2>1. /\ UNCHANGED <<kind, list, mail, jobs, targets, at, results, progress>>
        /\ pc' \in Driving => pc \in Driving
    BY <1>4, Others
  <2>2. pc' = "compose" /\ kind \in ToPeople => opened' = Target'
    BY ComposesToTarget DEF MailInv
  <2>3. SentMeansDelivered'
    <3> SUFFICES ASSUME outcome' = "succeeded", kind' = "campaign", NEW a \in Accounts,
                        rows'[a] = "sent"
                 PROVE  mail'[jobs'][a] > 0
      BY DEF SentMeansDelivered
    <3>1. CASE pc = "storing" /\ StoreResults
      <4>1. PICK i \in DOMAIN targets : targets[i] = a /\ results[i]
        BY <3>1, <2>1 DEF StoreResults, ResultRows, ResultOf
      <4>2. DOMAIN targets = DOMAIN results
        BY <3>1 DEF FlowInv, TypeOK, CourseInv, Driving
      <4> QED BY <2>1, <3>1, <4>1, <4>2 DEF MailInv, Driving, ToPeople
    <3>2. CASE outcome = "succeeded" /\ UNCHANGED <<kind, list, campaign, rows, mail, jobs>>
      BY <3>2 DEF MailInv, SentMeansDelivered
    <3> QED BY <3>1, <3>2, SuccessStays
  <2> QED BY <2>1, <2>2, <2>3 DEF MailInv, Chosen
<1> QED BY <1>1, <1>2, <1>3, <1>4

LEMMA MailInvAlways == ASSUME TellsApart PROVE Spec => []MailInv
BY MailInvInit, MailInvNext, FlowInvAlways, PTL DEF Spec

\* Campaigns and manual sends write to chosen recipients alone, though the driver knows
\* people by their names and the page lags, hides and fails.
THEOREM OnlyRecipients == ASSUME TellsApart PROVE Spec => []OnlyRecipientsAreWritten
<1>1. MailInv => OnlyRecipientsAreWritten
  BY DEF MailInv, OnlyRecipientsAreWritten, ToPeople
<1> QED BY <1>1, MailInvAlways, PTL

\* Whoever is stored as sent has got the message of the execution that is stored.
THEOREM SentIsDelivered == ASSUME TellsApart PROVE Spec => []SentMeansDelivered
<1>1. MailInv => SentMeansDelivered
  BY DEF MailInv
<1> QED BY <1>1, MailInvAlways, PTL

-----------------------------------------------------------------------------
(***************************************************************************)
(* OnceInv.                                                                *)
(***************************************************************************)

Written == {a \in Accounts : mail[jobs][a] > 0}

LEMMA OnceInvInit ==
  ASSUME Init
  PROVE  OnceInv
BY DEF Init, OnceInv, OncePerExecution, ProgressIsSound, Driving

\* A target that is about to be written to has got nothing from this job.
LEMMA TargetIsFresh ==
  ASSUME SaidOnce, FlowInv, OnceInv, Results, NEW a \in Accounts, kind # "friend",
         kind \in ToPeople => a = Target
  PROVE  mail[jobs][a] = 0
<1>1. /\ pc \in Driving /\ at \in 1..Len(targets) /\ targets \in Seq(Accounts)
      /\ jobs \in 1..Executions
      /\ list \in Recipients /\ kind \in Kinds
      /\ mail \in [1..Executions -> [Accounts -> Nat]]
  BY AtResult DEF FlowInv, TypeOK
<1>2. mail[jobs][a] \in Nat
  BY <1>1
<1>3. CASE kind \in ToPeople
  <2> SUFFICES ASSUME mail[jobs][a] > 0 PROVE FALSE
    BY <1>2
  <2>1. PICK i \in 1..(at - 1) : targets[i] = a
    BY <1>1, <1>3 DEF OnceInv
  <2>2. NoDuplicates(targets)
    BY <1>1 DEF SaidOnce, FlowInv, CourseInv
  <2>3. i \in DOMAIN targets /\ at \in DOMAIN targets /\ i # at
    BY <1>1
  <2> QED BY <1>3, <2>1, <2>2, <2>3 DEF NoDuplicates, Target
<1>4. CASE kind = "group"
  <2>1. Len(targets) = 1
    BY <1>1, <1>4 DEF FlowInv, CourseInv
  <2>2. at = 1
    BY <1>1, <2>1
  <2> QED BY <1>1, <1>4, <2>2 DEF OnceInv
<1> QED BY <1>1, <1>3, <1>4 DEF Kinds, ToPeople

LEMMA OnceInvResults ==
  ASSUME SaidOnce, FlowInv, MailInv, OnceInv, Results
  PROVE  OnceInv'
<1>1. /\ outcome = "none" /\ pc \in Driving /\ pc' = "next"
      /\ jobs \in 1..Executions
      /\ targets \in Seq(Accounts) /\ at \in 1..Len(targets) /\ at' = at + 1
      /\ Target \in Accounts
      /\ UNCHANGED <<kind, list, targets, jobs, rows, outcome>>
      /\ mail \in [1..Executions -> [Accounts -> Nat]]
      /\ progress \in [sent : Nat, failed : Nat]
      /\ kind \in Kinds
  BY AtResult DEF FlowInv, TypeOK
<1>2. Lines = 1
  BY DEF SaidOnce
<1>3. PICK success \in BOOLEAN :
        /\ TargetDone(success)
        /\ \/ ~success /\ mail' = mail
           \/ \E a \in Accounts, more \in Nat \ {0} :
                /\ Gets(a, more)
                /\ kind \in ToPeople => a = Target
                /\ kind # "friend" => more = Lines
  BY ResultIsTrue
<1>4. /\ kind # "campaign" => progress' = progress
      /\ progress'.sent = progress.sent \/ (success /\ progress'.sent = progress.sent + 1)
      /\ progress.sent \in Nat
  BY <1>1, <1>3 DEF TargetDone
<1>5. IsFiniteSet(Written) /\ Cardinality(Written) \in Nat
  <2>1. Written \subseteq Accounts /\ IsFiniteSet(Accounts)
    BY NamesAssumption DEF Written
  <2>2. IsFiniteSet(Written)
    BY <2>1, FS_Subset
  <2> QED BY <2>2, FS_CardinalityType
<1>6. jobs > 0 /\ progress.sent <= Cardinality(Written)
  BY <1>1 DEF OnceInv, ProgressIsSound, Written
<1>7. CASE ~success /\ mail' = mail
  <2>1. progress'.sent = progress.sent
    BY <1>4, <1>7
  <2>2. \A a \in Accounts : mail[jobs][a] > 0 => \E i \in 1..(at' - 1) : targets[i] = a
        \/ kind \notin ToPeople
    BY <1>1 DEF OnceInv
  <2>3. at' # 1
    BY <1>1
  <2>4. (OncePerExecution /\ ProgressIsSound)' /\ (kind # "campaign" => progress.sent = 0)
    BY <1>1, <1>7, <2>1 DEF OnceInv, OncePerExecution, ProgressIsSound
  <2> QED BY <1>1, <1>7, <2>1, <2>2, <2>3, <2>4 DEF OnceInv
<1>8. CASE ~(~success /\ mail' = mail)
  <2>1. PICK a \in Accounts, more \in Nat \ {0} :
          /\ Gets(a, more)
          /\ kind \in ToPeople => a = Target
          /\ kind # "friend" => more = Lines
    BY <1>3, <1>8
  <2>2. /\ mail' \in [1..Executions -> [Accounts -> Nat]]
        /\ mail'[jobs][a] = mail[jobs][a] + more
        /\ \A k \in 1..Executions, b \in Accounts :
             k # jobs \/ b # a => mail'[k][b] = mail[k][b]
    BY <1>1, <2>1, MailGrows DEF Gets
  <2>3. kind # "friend" => mail[jobs][a] = 0
    BY <2>1, TargetIsFresh
  <2>4. mail[jobs][a] \in Nat
    BY <1>1
  <2>5. OncePerExecution'
    <3> SUFFICES ASSUME kind # "friend", NEW n \in 1..Executions, NEW b \in Accounts
                 PROVE  mail'[n][b] <= 1
      BY <1>1 DEF OncePerExecution
    <3>1. CASE n = jobs /\ b = a
      BY <1>2, <2>1, <2>2, <2>3, <3>1
    <3>2. CASE ~(n = jobs /\ b = a)
      <4>1. mail'[n][b] = mail[n][b]
        BY <2>2, <3>2
      <4> QED BY <4>1 DEF OnceInv, OncePerExecution
    <3> QED BY <3>1, <3>2
  <2>6. kind \in ToPeople =>
          \A b \in Accounts : mail'[jobs][b] > 0 => \E i \in 1..(at' - 1) : targets[i] = b
    <3> SUFFICES ASSUME kind \in ToPeople, NEW b \in Accounts, mail'[jobs][b] > 0
                 PROVE  \E i \in 1..at : targets[i] = b
      BY <1>1
    <3>1. CASE b = a
      BY <1>1, <2>1, <3>1 DEF Target
    <3>2. CASE b # a
      <4>1. mail[jobs][b] > 0
        BY <1>1, <2>2, <3>2
      <4> QED BY <1>1, <4>1 DEF OnceInv
    <3> QED BY <3>1, <3>2
  <2>7. {b \in Accounts : mail'[jobs][b] > 0} = Written \cup {a}
    <3>1. mail'[jobs][a] > 0
      BY <2>1, <2>2, <2>4
    <3>2. \A b \in Accounts : b # a => mail'[jobs][b] = mail[jobs][b]
      BY <1>1, <2>2
    <3> QED BY <3>1, <3>2 DEF Written
  <2>8. Cardinality(Written \cup {a}) = IF a \in Written THEN Cardinality(Written)
                                        ELSE Cardinality(Written) + 1
    BY <1>5, FS_AddElement
  <2>9. progress'.sent <= Cardinality(Written \cup {a})
    <3>1. CASE kind = "campaign"
      <4>1. a \notin Written
        BY <2>3, <3>1 DEF Written
      <4> QED BY <1>4, <1>5, <1>6, <2>8, <4>1
    <3>2. CASE kind # "campaign"
      BY <1>4, <1>5, <1>6, <2>8, <3>2
    <3> QED BY <3>1, <3>2
  <2>10. ProgressIsSound'
    BY <1>1, <2>7, <2>9 DEF ProgressIsSound
  <2>11. kind # "campaign" => progress'.sent = 0
    BY <1>4 DEF OnceInv
  <2>12. at' # 1
    BY <1>1
  <2> QED BY <1>1, <2>5, <2>6, <2>10, <2>11, <2>12 DEF OnceInv
<1> QED BY <1>7, <1>8

LEMMA OnceInvNext ==
  ASSUME SaidOnce, FlowInv, MailInv, OnceInv, [Next]_vars
  PROVE  OnceInv'
<1>1. CASE Results
  BY <1>1, OnceInvResults
<1>2. CASE Submit
  <2>1. /\ UNCHANGED <<kind, list, mail>> /\ jobs' = jobs + 1 /\ jobs' \in 1..Executions
        /\ jobs \in Nat /\ pc' = "queued" /\ progress' = [sent |-> 0, failed |-> 0]
    BY <1>2, RecipientsAssumption DEF Submit, FlowInv, TypeOK
  <2>2. \A a \in Accounts : mail'[jobs'][a] = 0
    BY <2>1 DEF MailInv
  <2>3. {a \in Accounts : mail'[jobs'][a] > 0} = {}
    BY <2>2
  <2>4. ProgressIsSound'
    BY <2>1, <2>3, FS_EmptySet DEF ProgressIsSound
  <2> QED BY <2>1, <2>2, <2>4 DEF OnceInv, OncePerExecution, Driving
<1>3. CASE Prepare
  <2>1. /\ UNCHANGED <<kind, list, mail, jobs, progress>> /\ pc = "queued" /\ pc' # "queued"
    BY <1>3 DEF Prepare, Now
  <2>2. \A a \in Accounts : ~(mail[jobs][a] > 0)
    BY <2>1 DEF OnceInv
  <2> QED BY <2>1, <2>2 DEF OnceInv, OncePerExecution, ProgressIsSound
<1>4. CASE ~Results /\ ~Submit /\ ~Prepare
  BY <1>4, Others DEF OnceInv, OncePerExecution, ProgressIsSound
<1> QED BY <1>1, <1>2, <1>3, <1>4

LEMMA OnceInvAlways == ASSUME TellsApart, SaidOnce PROVE Spec => []OnceInv
BY OnceInvInit, OnceInvNext, FlowInvAlways, MailInvAlways, PTL DEF Spec

\* Nobody gets the text of one execution twice.
THEOREM OncePerJob == ASSUME TellsApart, SaidOnce PROVE Spec => []OncePerExecution
<1>1. OnceInv => OncePerExecution
  BY DEF OnceInv
<1> QED BY <1>1, OnceInvAlways, PTL

\* The progress page never counts more messages than people who have got one, whether or
\* not its events are lost.
THEOREM SoundProgress == ASSUME TellsApart, SaidOnce PROVE Spec => []ProgressIsSound
<1>1. OnceInv => ProgressIsSound
  BY DEF OnceInv
<1> QED BY <1>1, OnceInvAlways, PTL

=============================================================================
