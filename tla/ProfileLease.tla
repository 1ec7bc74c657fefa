---------------------------- MODULE ProfileLease ----------------------------
(***************************************************************************)
(* The lock of one workspace browser profile (app/browser_lease.py): a     *)
(* directory made with mkdir, and in it owner.json with the token and pid  *)
(* of the owner.  The API process (login browser) and the worker process   *)
(* (automation browser) of one host contend for it; every file system call *)
(* is a step of its own, and a process may be killed between any two.      *)
(***************************************************************************)
EXTENDS Naturals

CONSTANTS Agents,          \* processes that launch browsers on this host
          Supervised,      \* those that are restarted when they die
          MaxIncarnations, \* bound: how often a process may be started
          None             \* owner.json is missing or unreadable

ASSUME MaxIncarnationsAssumption == MaxIncarnations \in Nat \ {0}
ASSUME SupervisedAssumption == Supervised \subseteq Agents

\* The owner recorded in owner.json: the process and which run of it (its pid).
Owners == [agent : Agents, run : 1 .. MaxIncarnations]

ASSUME NoOwnerAssumption == None \notin Owners

VARIABLES lockDir,  \* the lock directory exists
          metadata, \* the owner in owner.json
          aged,     \* the directory's mtime is at least a minute ago
          pc,       \* pc[a]: the call the process makes next
          seen,     \* seen[a]: the owner it has read and is about to ask for
          run       \* run[a]: how often it was started

fsVars == <<lockDir, metadata, aged>>
vars == <<fsVars, pc, seen, run>>

Acquiring == {"mkdir", "write", "read", "ask", "stat", "unlink", "rmdir"}
Releasing == {"checkToken", "releaseUnlink", "releaseRmdir"}
Pcs == {"down", "idle", "holds"} \cup Acquiring \cup Releasing

\* What the process writes into owner.json.
Me(a) == [agent |-> a, run |-> run[a]]

\* os.kill(pid, 0): pids are not reused.
PidIsAlive(o) == pc[o.agent] # "down" /\ run[o.agent] = o.run

TypeOK ==
  /\ lockDir \in BOOLEAN
  /\ metadata \in Owners \cup {None}
  /\ aged \in BOOLEAN
  /\ pc \in [Agents -> Pcs]
  /\ seen \in [Agents -> Owners \cup {None}]
  /\ run \in [Agents -> 1 .. MaxIncarnations]

Init ==
  /\ lockDir = FALSE
  /\ metadata = None
  /\ aged = FALSE
  /\ pc = [a \in Agents |-> "idle"]
  /\ seen = [a \in Agents |-> None]
  /\ run = [a \in Agents |-> 1]

-----------------------------------------------------------------------------
\* The process goes on to another call; what it has read is used once.
GoesTo(a, to) ==
  /\ pc' = [pc EXCEPT ![a] = to]
  /\ seen' = [seen EXCEPT ![a] = None]
  /\ UNCHANGED run

\* A call of BrowserProfileLease.acquire begins.
Begin(a) ==
  /\ pc[a] = "idle"
  /\ GoesTo(a, "mkdir")
  /\ UNCHANGED fsVars

\* Deliberate error: mkdir takes a directory that is there for a new one.
MkdirExistOk(a) ==
  /\ pc[a] = "mkdir"
  /\ lockDir' = TRUE
  /\ GoesTo(a, "write")
  /\ UNCHANGED <<metadata, aged>>

Mkdir(a) ==
  /\ pc[a] = "mkdir"
  /\ ~lockDir
  /\ lockDir' = TRUE
  /\ metadata' = None
  /\ aged' = FALSE
  /\ GoesTo(a, "write")

MkdirFindsLock(a) ==
  /\ pc[a] = "mkdir"
  /\ lockDir
  /\ GoesTo(a, "read")
  /\ UNCHANGED fsVars

\* The profile is taken: wait and try again, or give up at the deadline.
FindsBusy(a) == GoesTo(a, "mkdir") \/ GoesTo(a, "idle")

\* _reclaim_stale_lock reads owner.json.
Read(a) ==
  /\ pc[a] = "read"
  /\ UNCHANGED fsVars
  /\ \/ metadata = None /\ GoesTo(a, "stat")
     \/ /\ metadata # None
        /\ pc' = [pc EXCEPT ![a] = "ask"]
        /\ seen' = [seen EXCEPT ![a] = metadata]
        /\ UNCHANGED run

\* Deliberate error: the owner is taken for dead without asking for its pid.
AskNobody(a) ==
  /\ pc[a] = "ask"
  /\ UNCHANGED fsVars
  /\ GoesTo(a, "unlink")

\* Then it asks whether the pid it has read is alive, whatever the files say by
\* now.
Ask(a) ==
  /\ pc[a] = "ask"
  /\ UNCHANGED fsVars
  /\ \/ PidIsAlive(seen[a]) /\ FindsBusy(a)
     \/ ~PidIsAlive(seen[a]) /\ GoesTo(a, "unlink")

\* Deliberate error: a lock without metadata is stale at any age.
StatAnyAge(a) ==
  /\ pc[a] = "stat"
  /\ UNCHANGED fsVars
  /\ GoesTo(a, IF lockDir THEN "unlink" ELSE "mkdir")

\* No metadata: a lock that is gone can be tried at once, a young one belongs
\* to a process that is about to write, an old one is stale.
Stat(a) ==
  /\ pc[a] = "stat"
  /\ UNCHANGED fsVars
  /\ \/ ~lockDir /\ GoesTo(a, "mkdir")
     \/ lockDir /\ ~aged /\ FindsBusy(a)
     \/ lockDir /\ aged /\ GoesTo(a, "unlink")

\* Removing owner.json touches the directory.
RemovesMetadata ==
  /\ metadata' = None
  /\ aged' = (aged /\ metadata = None)
  /\ UNCHANGED lockDir

Unlink(a) ==
  /\ pc[a] = "unlink"
  /\ RemovesMetadata
  /\ GoesTo(a, "rmdir")

\* Deliberate error: a lock left without metadata is never removed.
RmdirNever(a) ==
  /\ pc[a] = "rmdir"
  /\ FindsBusy(a)
  /\ UNCHANGED fsVars

\* rmdir fails when the directory is gone or has an owner.json again.
Rmdir(a) ==
  /\ pc[a] = "rmdir"
  /\ IF lockDir /\ metadata = None
     THEN /\ lockDir' = FALSE
          /\ aged' = FALSE
          /\ GoesTo(a, "mkdir")
          /\ UNCHANGED metadata
     ELSE /\ FindsBusy(a)
          /\ UNCHANGED fsVars

\* owner.json is written, over whatever is there; the lease is granted.
Write(a) ==
  /\ pc[a] = "write"
  /\ lockDir
  /\ metadata' = Me(a)
  /\ aged' = FALSE
  /\ GoesTo(a, "holds")
  /\ UNCHANGED lockDir

\* The directory was taken away: write_text raises, acquire releases.
WriteFails(a) ==
  /\ pc[a] = "write"
  /\ ~lockDir
  /\ GoesTo(a, "checkToken")
  /\ UNCHANGED fsVars

\* The browser is closed; release reads owner.json.
Release(a) ==
  /\ pc[a] = "holds"
  /\ GoesTo(a, "checkToken")
  /\ UNCHANGED fsVars

\* A lock that carries another token is left alone.
CheckToken(a) ==
  /\ pc[a] = "checkToken"
  /\ GoesTo(a, IF metadata \notin {None, Me(a)} THEN "idle" ELSE "releaseUnlink")
  /\ UNCHANGED fsVars

ReleaseUnlink(a) ==
  /\ pc[a] = "releaseUnlink"
  /\ RemovesMetadata
  /\ GoesTo(a, "releaseRmdir")

ReleaseRmdir(a) ==
  /\ pc[a] = "releaseRmdir"
  /\ GoesTo(a, "idle")
  /\ IF metadata = None
     THEN lockDir' = FALSE /\ aged' = FALSE /\ UNCHANGED metadata
     ELSE UNCHANGED fsVars

-----------------------------------------------------------------------------
Crash(a) ==
  /\ pc[a] # "down"
  /\ a \in Supervised => run[a] < MaxIncarnations
  /\ GoesTo(a, "down")
  /\ UNCHANGED fsVars

Restart(a) ==
  /\ pc[a] = "down"
  /\ a \in Supervised
  /\ pc' = [pc EXCEPT ![a] = "idle"]
  /\ run' = [run EXCEPT ![a] = @ + 1]
  /\ UNCHANGED <<fsVars, seen>>

\* A minute passes on a lock without metadata; a live process does not take
\* that long from one call to the next.
Ages ==
  /\ lockDir
  /\ metadata = None
  /\ ~aged
  /\ \A a \in Agents : pc[a] \notin {"write", "rmdir", "releaseRmdir"}
  /\ aged' = TRUE
  /\ UNCHANGED <<lockDir, metadata, pc, seen, run>>

AcquireStep(a) ==
  \/ Mkdir(a) \/ MkdirFindsLock(a) \/ Read(a) \/ Ask(a) \/ Stat(a) \/ Unlink(a)
  \/ Rmdir(a) \/ Write(a) \/ WriteFails(a)

ReleaseStep(a) == CheckToken(a) \/ ReleaseUnlink(a) \/ ReleaseRmdir(a)

Next ==
  \/ \E a \in Agents : \/ Begin(a) \/ AcquireStep(a) \/ Release(a) \/ ReleaseStep(a)
                       \/ Crash(a) \/ Restart(a)
  \/ Ages

Spec == Init /\ [][Next]_vars

\* A call that was begun is executed, browsers are closed, dead processes are
\* restarted and time passes; jobs and logins keep asking for the profile.
FairSpec ==
  /\ Spec
  /\ \A a \in Agents : /\ WF_vars(Begin(a))
                       /\ WF_vars(AcquireStep(a))
                       /\ WF_vars(Release(a))
                       /\ WF_vars(ReleaseStep(a))
                       /\ WF_vars(Restart(a))
  /\ WF_vars(Ages)

-----------------------------------------------------------------------------
\* Never both simultaneously: at most one process holds the profile.
OneProfileOwner == \A a, b \in Agents : pc[a] = "holds" /\ pc[b] = "holds" => a = b

\* As long as processes only die: one that was restarted may reclaim, or take,
\* a lock that another one is still reclaiming.
NoRestart == \A a \in Agents : run[a] = 1

\* While a process holds the profile the lock says so: no other process has
\* removed or overwritten it, nor holds the profile as well.
HoldersHaveTheLock ==
  \A a \in Agents : pc[a] = "holds" => lockDir /\ metadata = Me(a)

HeldProfileIsLocked == NoRestart => HoldersHaveTheLock

\* The process is about to remove the lock it has found, and will not notice if
\* b makes it anew: it has not asked for b's pid, or does not ask any more.
MayRemove(a, b) ==
  \/ pc[a] = "ask" /\ seen[a] # Me(b)
  \/ pc[a] \in {"unlink", "rmdir"}

ReclaimsAreUndisturbed == \A a, b \in Agents : MayRemove(a, b) => pc[b] # "write"

\* It is only when a process makes the lock while another one is between reading
\* owner.json and its last call on the files that a lock is lost, however many
\* there are and whenever they are restarted.
UndisturbedReclaimsAreSafe == []ReclaimsAreUndisturbed => []HoldersHaveTheLock

\* A process only ever removes a lock that is its own or whose owner is dead.
LocksOfTheLivingStay ==
  [][NoRestart /\ metadata # None /\ metadata' # metadata =>
       \/ ~PidIsAlive(metadata)
       \/ pc[metadata.agent] \in Releasing]_vars

\* Until then the files implement a lock.
Holders == {a \in Agents : pc[a] = "holds"}
Lock == INSTANCE ProfileLock WITH holders <- Holders
ActsAsLock == Lock!LockInit /\ [][NoRestart => [Lock!LockNext]_Holders]_vars

\* No crash, at whatever call, locks the profile for good.
Orphaned ==
  /\ lockDir
  /\ \A a \in Agents : pc[a] \notin {"holds", "write"} \cup Releasing

OrphansAreReclaimed == Orphaned ~> ~Orphaned

=============================================================================
