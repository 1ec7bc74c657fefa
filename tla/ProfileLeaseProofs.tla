-------------------------- MODULE ProfileLeaseProofs -------------------------
(***************************************************************************)
(* Proofs about the profile lease, for every set of processes.             *)
(*                                                                         *)
(* The lock may lie about its owner only if a process makes it while       *)
(* another one is on its way to remove the lock it has found.  While none  *)
(* does, LeaseInv is inductive, however often processes die and are        *)
(* restarted: a process that has made the directory and not died is its    *)
(* only owner, one that asks for an owner asks for that one, and one that  *)
(* removes the lock has none to fear.  Two processes that have not been    *)
(* restarted are never in each other's way (AloneInv): what one of them    *)
(* has read is the other, and to remove its lock it must have died.        *)
(***************************************************************************)
EXTENDS ProfileLease, TLAPS

\* The process has made the directory and is not done with it.
Owns(a) == pc[a] \in {"write", "holds"} \cup Releasing
\* Its token is in the lock.
Signed(a) == pc[a] \in {"holds", "checkToken", "releaseUnlink"}
\* It removes the lock it has found, whoever has it by now.
Reclaiming(a) == pc[a] \in {"unlink", "rmdir"}

\* One that asks has read a record; a process that was killed and will be
\* restarted may be started once more.
Typed ==
  /\ TypeOK
  /\ \A a \in Agents : pc[a] = "ask" => seen[a] \in Owners
  /\ \A a \in Supervised : pc[a] = "down" => run[a] < MaxIncarnations

\* An owner.json is in the directory, and only a directory without one is old.
FilesFit ==
  /\ metadata # None => lockDir
  /\ aged => lockDir /\ metadata = None

\* What the files say of a living owner.
OwnersHaveTheLock ==
  \A a \in Agents :
    /\ Owns(a) => lockDir
    /\ Signed(a) => metadata = Me(a)
    /\ Owns(a) /\ ~Signed(a) => metadata = None /\ ~aged

OneOwner == \A a, b \in Agents : Owns(a) /\ Owns(b) => a = b

\* What owner.json says of a process: it has had that pid, and if it still has
\* it, then it is the owner.
RecordsAreTrue ==
  metadata # None =>
    /\ metadata.run <= run[metadata.agent]
    /\ PidIsAlive(metadata) => Signed(metadata.agent)

\* A lock somebody is removing has no owner, one that somebody asks about no
\* other owner than the one it asks for.
ReclaimsAreDue ==
  \A a, b \in Agents :
    Owns(b) => /\ ~Reclaiming(a)
               /\ pc[a] = "ask" => seen[a] = Me(b)

LeaseInv ==
  /\ Typed /\ FilesFit /\ OwnersHaveTheLock /\ OneOwner /\ RecordsAreTrue
  /\ ReclaimsAreDue

\* Before a restart: a lock without owner, and all the more a reclaim, tells of
\* a death, and nobody asks for its own pid.
SomebodyDied == \E a \in Agents : pc[a] = "down"
AsksForAnother == \A a \in Agents : pc[a] = "ask" => seen[a].agent # a /\ seen[a].run = 1
AloneInv ==
  /\ lockDir => SomebodyDied \/ \E a \in Agents : Owns(a)
  /\ \A a \in Agents : Reclaiming(a) => SomebodyDied
  /\ AsksForAnother

TwoAgents == \A a, b, c \in Agents : a = b \/ b = c \/ a = c

-----------------------------------------------------------------------------

LEMMA TypedInit == Init => Typed
<1> SUFFICES ASSUME Init PROVE Typed
  OBVIOUS
<1>1. 1 \in 1 .. MaxIncarnations
  BY MaxIncarnationsAssumption
<1>2. \A a \in Agents : pc[a] = "idle"
  BY DEF Init
<1>3. TypeOK
  BY <1>1 DEF Init, TypeOK, Pcs
<1> QED
  BY <1>2, <1>3, SupervisedAssumption DEF Typed

LEMMA MeIsAnOwner ==
  ASSUME TypeOK, NEW a \in Agents
  PROVE  Me(a) \in Owners /\ Me(a) # None /\ Me(a).agent = a /\ Me(a).run = run[a]
BY NoOwnerAssumption DEF TypeOK, Me, Owners

\* A call moves the process to another one; only a kill takes it down.
LEMMA CallMoves ==
  ASSUME NEW a \in Agents, Begin(a) \/ AcquireStep(a) \/ Release(a) \/ ReleaseStep(a)
  PROVE  /\ UNCHANGED run
         /\ \E s \in Pcs \ {"down"}, o \in {None, metadata} :
              /\ pc' = [pc EXCEPT ![a] = s] /\ seen' = [seen EXCEPT ![a] = o]
              /\ s = "ask" => Read(a) /\ o = metadata /\ metadata # None
<1> USE DEF GoesTo, Pcs, Acquiring, Releasing
<1>1. CASE Begin(a) \/ Mkdir(a) \/ MkdirFindsLock(a) \/ Unlink(a) \/ Write(a) \/ WriteFails(a)
  BY <1>1 DEF Begin, Mkdir, MkdirFindsLock, Unlink, Write, WriteFails
<1>2. CASE Read(a) \/ Ask(a) \/ Stat(a)
  BY <1>2 DEF Read, Ask, Stat, FindsBusy
<1>3. CASE Rmdir(a)
  BY <1>3 DEF Rmdir, FindsBusy
<1>4. CASE Release(a) \/ ReleaseStep(a)
  BY <1>4 DEF Release, ReleaseStep, CheckToken, ReleaseUnlink, ReleaseRmdir
<1> QED
  BY <1>1, <1>2, <1>3, <1>4 DEF AcquireStep

LEMMA CallFiles ==
  ASSUME TypeOK, NEW a \in Agents, Begin(a) \/ AcquireStep(a) \/ Release(a) \/ ReleaseStep(a)
  PROVE  lockDir' \in BOOLEAN /\ aged' \in BOOLEAN /\ metadata' \in Owners \cup {None}
BY MeIsAnOwner
   DEF TypeOK, fsVars, Begin, AcquireStep, Release, ReleaseStep, Mkdir,
       MkdirFindsLock, Read, Ask, Stat, Unlink, Rmdir, Write, WriteFails, CheckToken,
       ReleaseUnlink, ReleaseRmdir, RemovesMetadata

LEMMA TypedStep == Typed /\ [Next]_vars => Typed'
<1> SUFFICES ASSUME Typed, [Next]_vars PROVE Typed'
  OBVIOUS
<1> USE MaxIncarnationsAssumption, SupervisedAssumption DEF Typed, TypeOK
<1>1. ASSUME NEW a \in Agents, Begin(a) \/ AcquireStep(a) \/ Release(a) \/ ReleaseStep(a)
      PROVE  Typed'
  <2>1. PICK s \in Pcs \ {"down"}, o \in {None, metadata} :
          /\ pc' = [pc EXCEPT ![a] = s] /\ seen' = [seen EXCEPT ![a] = o]
          /\ s = "ask" => Read(a) /\ o = metadata /\ metadata # None
    BY <1>1, CallMoves
  <2>2. TypeOK' /\ UNCHANGED run
    BY <1>1, <2>1, CallMoves, CallFiles
  <2> QED
    BY <2>1, <2>2
<1>2. ASSUME NEW a \in Agents, Crash(a) PROVE Typed'
  BY <1>2 DEF Crash, GoesTo, fsVars, Pcs
<1>3. ASSUME NEW a \in Agents, Restart(a) PROVE Typed'
  BY <1>3 DEF Restart, fsVars, Pcs
<1>4. CASE Ages
  BY <1>4 DEF Ages
<1>5. CASE UNCHANGED vars
  BY <1>5 DEF vars, fsVars
<1> QED
  BY <1>1, <1>2, <1>3, <1>4, <1>5 DEF Next

-----------------------------------------------------------------------------
(***************************************************************************)
(* LeaseInv, kind of step by kind of step.                                 *)
(***************************************************************************)

\* What a step that moves one process leaves of the others.
LEMMA OthersStay ==
  ASSUME Typed, NEW a \in Agents, UNCHANGED run,
         NEW s, pc' = [pc EXCEPT ![a] = s], NEW o, seen' = [seen EXCEPT ![a] = o]
  PROVE  /\ pc'[a] = s
         /\ \A b \in Agents : Me(b)' = Me(b)
         /\ \A b \in Agents \ {a} :
              /\ pc'[b] = pc[b] /\ seen'[b] = seen[b]
              /\ (Owns(b)' <=> Owns(b)) /\ (Signed(b)' <=> Signed(b))
              /\ (Reclaiming(b)' <=> Reclaiming(b))
BY DEF Typed, TypeOK, Me, Owns, Signed, Reclaiming

\* The record of one that is alive is that of an owner.
LEMMA RecordOfTheLiving ==
  ASSUME LeaseInv, metadata # None, PidIsAlive(metadata)
  PROVE  /\ metadata.agent \in Agents /\ Signed(metadata.agent)
         /\ metadata = Me(metadata.agent)
<1>1. metadata \in Owners
  BY DEF LeaseInv, Typed, TypeOK
<1>2. metadata.agent \in Agents /\ Signed(metadata.agent)
  BY <1>1 DEF LeaseInv, RecordsAreTrue, Owners
<1> QED
  BY <1>2 DEF LeaseInv, OwnersHaveTheLock

\* One that does not own the lock, or dies, is left with nothing.
LEMMA QuietStep ==
  ASSUME LeaseInv, Typed', NEW a \in Agents, UNCHANGED <<fsVars, run>>,
         NEW s \in {"down", "idle", "mkdir", "read", "stat"},
         pc[a] # "down", pc' = [pc EXCEPT ![a] = s], seen' = [seen EXCEPT ![a] = None],
         Owns(a) => s = "down"
  PROVE  LeaseInv'
<1> USE DEF LeaseInv, fsVars
<1>1. FilesFit'
  BY DEF FilesFit
<1>2. /\ pc'[a] = s /\ \A b \in Agents : Me(b)' = Me(b)
      /\ \A b \in Agents \ {a} :
           /\ pc'[b] = pc[b] /\ seen'[b] = seen[b]
           /\ (Owns(b)' <=> Owns(b)) /\ (Signed(b)' <=> Signed(b))
           /\ (Reclaiming(b)' <=> Reclaiming(b))
  BY OthersStay
<1>3. ~Owns(a)' /\ ~Signed(a)' /\ ~Reclaiming(a)'
  BY <1>2 DEF Owns, Signed, Reclaiming, Releasing
<1>4. OwnersHaveTheLock' /\ OneOwner' /\ ReclaimsAreDue'
  BY <1>2, <1>3 DEF OwnersHaveTheLock, OneOwner, ReclaimsAreDue
<1>5. RecordsAreTrue'
  <2> SUFFICES ASSUME metadata # None
               PROVE  /\ metadata.run <= run[metadata.agent]
                      /\ PidIsAlive(metadata)' => Signed(metadata.agent)'
    BY DEF RecordsAreTrue
  <2>1. metadata.run <= run[metadata.agent]
    BY DEF RecordsAreTrue
  <2>2. ASSUME PidIsAlive(metadata)' PROVE Signed(metadata.agent)'
    <3>1. metadata.agent \in Agents
      BY DEF Typed, TypeOK, Owners
    <3>2. CASE metadata.agent = a
      <4>1. s # "down" /\ ~Owns(a)
        BY <1>2, <2>2, <3>2 DEF PidIsAlive
      <4>2. Signed(a)
        BY <2>2, <3>2 DEF RecordsAreTrue, PidIsAlive
      <4>3. Signed(a) => Owns(a)
        BY DEF Signed, Owns, Releasing
      <4> QED
        BY <4>1, <4>2, <4>3
    <3>3. CASE metadata.agent # a
      BY <1>2, <2>2, <3>1, <3>3 DEF RecordsAreTrue, PidIsAlive
    <3> QED
      BY <3>2, <3>3
  <2> QED
    BY <2>1, <2>2
<1> QED
  BY <1>1, <1>4, <1>5

\* One that asks has read the record of the owner, if there is one.
LEMMA AskBegins ==
  ASSUME LeaseInv, Typed', NEW a \in Agents, Read(a), metadata # None,
         pc' = [pc EXCEPT ![a] = "ask"], seen' = [seen EXCEPT ![a] = metadata], UNCHANGED run
  PROVE  LeaseInv'
<1> USE DEF LeaseInv, fsVars, Read
<1>1. FilesFit'
  BY DEF FilesFit
<1>2. /\ pc'[a] = "ask" /\ \A b \in Agents : Me(b)' = Me(b)
      /\ \A b \in Agents \ {a} :
           /\ pc'[b] = pc[b] /\ seen'[b] = seen[b]
           /\ (Owns(b)' <=> Owns(b)) /\ (Signed(b)' <=> Signed(b))
           /\ (Reclaiming(b)' <=> Reclaiming(b))
  BY OthersStay
<1>3. seen'[a] = metadata /\ pc[a] # "down"
  BY DEF Typed, TypeOK
<1>4. ~Owns(a) /\ ~Signed(a) /\ ~Owns(a)' /\ ~Signed(a)' /\ ~Reclaiming(a)'
  BY <1>2 DEF Owns, Signed, Reclaiming, Releasing
<1>5. OwnersHaveTheLock' /\ OneOwner'
  BY <1>2, <1>4 DEF OwnersHaveTheLock, OneOwner
<1>6. \A b \in Agents : Owns(b) => metadata = Me(b)
  BY DEF OwnersHaveTheLock
<1>7. ReclaimsAreDue'
  BY <1>2, <1>3, <1>4, <1>6 DEF ReclaimsAreDue
<1>8. RecordsAreTrue'
  <2>1. metadata.agent \in Agents
    BY DEF Typed, TypeOK, Owners
  <2> QED
    BY <1>2, <1>3, <1>4, <2>1 DEF RecordsAreTrue, PidIsAlive
<1> QED
  BY <1>1, <1>5, <1>7, <1>8

\* One that begins a reclaim has found the lock without owner.
LEMMA ReclaimBegins ==
  ASSUME LeaseInv, Typed', NEW a \in Agents, UNCHANGED <<fsVars, run>>,
         pc[a] # "down", pc' = [pc EXCEPT ![a] = "unlink"], seen' = [seen EXCEPT ![a] = None],
         \A b \in Agents : ~Owns(b)
  PROVE  LeaseInv'
<1> USE DEF LeaseInv, fsVars
<1>1. FilesFit'
  BY DEF FilesFit
<1>2. /\ pc'[a] = "unlink" /\ \A b \in Agents : Me(b)' = Me(b)
      /\ \A b \in Agents \ {a} :
           /\ pc'[b] = pc[b] /\ seen'[b] = seen[b]
           /\ (Owns(b)' <=> Owns(b)) /\ (Signed(b)' <=> Signed(b))
           /\ (Reclaiming(b)' <=> Reclaiming(b))
  BY OthersStay
<1>3. \A b \in Agents : ~Owns(b)' /\ ~Signed(b)
  BY <1>2 DEF Owns, Signed, Releasing
<1>4. OwnersHaveTheLock' /\ OneOwner' /\ ReclaimsAreDue'
  BY <1>3 DEF OwnersHaveTheLock, OneOwner, ReclaimsAreDue, Owns, Signed, Releasing
<1>5. RecordsAreTrue'
  <2> SUFFICES ASSUME metadata # None
               PROVE  /\ metadata.run <= run[metadata.agent]
                      /\ ~PidIsAlive(metadata)'
    BY DEF RecordsAreTrue
  <2>1. metadata.agent \in Agents
    BY DEF Typed, TypeOK, Owners
  <2>2. metadata.run <= run[metadata.agent] /\ ~PidIsAlive(metadata)
    BY <1>3, <2>1 DEF RecordsAreTrue
  <2> QED
    BY <1>2, <2>1, <2>2 DEF PidIsAlive
<1> QED
  BY <1>1, <1>4, <1>5

\* An owner goes on, with its token in the lock.
LEMMA SignedGoesOn ==
  ASSUME LeaseInv, Typed', NEW a \in Agents, UNCHANGED <<fsVars, run>>, Signed(a),
         NEW s \in {"checkToken", "releaseUnlink"}, pc' = [pc EXCEPT ![a] = s],
         seen' = [seen EXCEPT ![a] = None]
  PROVE  LeaseInv'
<1> USE DEF LeaseInv, fsVars
<1>1. FilesFit'
  BY DEF FilesFit
<1>2. /\ pc'[a] = s /\ \A b \in Agents : Me(b)' = Me(b)
      /\ \A b \in Agents \ {a} :
           /\ pc'[b] = pc[b] /\ seen'[b] = seen[b]
           /\ (Owns(b)' <=> Owns(b)) /\ (Signed(b)' <=> Signed(b))
           /\ (Reclaiming(b)' <=> Reclaiming(b))
  BY OthersStay
<1>3. Owns(a) /\ Owns(a)' /\ Signed(a)' /\ ~Reclaiming(a) /\ ~Reclaiming(a)' /\ pc[a] # "down"
  BY <1>2 DEF Owns, Signed, Reclaiming, Releasing
<1>4. OwnersHaveTheLock' /\ OneOwner' /\ ReclaimsAreDue'
  BY <1>2, <1>3 DEF OwnersHaveTheLock, OneOwner, ReclaimsAreDue
<1>5. RecordsAreTrue'
  <2>1. metadata # None => metadata.agent \in Agents
    BY DEF Typed, TypeOK, Owners
  <2> QED
    BY <1>2, <1>3, <2>1 DEF RecordsAreTrue, PidIsAlive
<1> QED
  BY <1>1, <1>4, <1>5

\* mkdir: nobody has made the directory, nobody will take it for an old one.
LEMMA MkdirStep ==
  ASSUME LeaseInv, ReclaimsAreUndisturbed', Typed', NEW a \in Agents, Mkdir(a)
  PROVE  LeaseInv'
<1> USE DEF LeaseInv, Mkdir, GoesTo
<1>1. FilesFit'
  BY DEF FilesFit
<1>2. /\ pc'[a] = "write" /\ \A b \in Agents : Me(b)' = Me(b)
      /\ \A b \in Agents \ {a} :
           /\ pc'[b] = pc[b] /\ seen'[b] = seen[b]
           /\ (Owns(b)' <=> Owns(b)) /\ (Signed(b)' <=> Signed(b))
           /\ (Reclaiming(b)' <=> Reclaiming(b))
  BY OthersStay
<1>3. \A b \in Agents : ~Owns(b) /\ ~Signed(b)
  BY DEF OwnersHaveTheLock, Owns, Signed, Releasing
<1>4. /\ ~Signed(a)'
      /\ \A b \in Agents : ~Reclaiming(b)' /\ (pc'[b] = "ask" => seen'[b] = Me(a)')
  BY <1>2 DEF ReclaimsAreUndisturbed, MayRemove, Reclaiming, Signed
<1>5. OwnersHaveTheLock' /\ OneOwner' /\ ReclaimsAreDue' /\ RecordsAreTrue'
  BY <1>2, <1>3, <1>4 DEF OwnersHaveTheLock, OneOwner, ReclaimsAreDue, RecordsAreTrue
<1> QED
  BY <1>1, <1>5

\* The token is written by the only owner.
LEMMA WriteStep ==
  ASSUME LeaseInv, Typed', NEW a \in Agents, Write(a)
  PROVE  LeaseInv'
<1> USE DEF LeaseInv, Write, GoesTo
<1>1. FilesFit'
  BY DEF FilesFit
<1>2. /\ pc'[a] = "holds" /\ \A b \in Agents : Me(b)' = Me(b)
      /\ \A b \in Agents \ {a} :
           /\ pc'[b] = pc[b] /\ seen'[b] = seen[b]
           /\ (Owns(b)' <=> Owns(b)) /\ (Signed(b)' <=> Signed(b))
           /\ (Reclaiming(b)' <=> Reclaiming(b))
  BY OthersStay
<1>3. Owns(a) /\ Owns(a)' /\ Signed(a)' /\ ~Reclaiming(a)'
  BY <1>2 DEF Owns, Signed, Reclaiming, Releasing
<1>4. \A b \in Agents : ~Reclaiming(b)
  BY <1>3 DEF ReclaimsAreDue
<1>5. \A b \in Agents \ {a} : ~Owns(b) /\ ~Signed(b)
  BY <1>3 DEF OneOwner, Owns, Signed, Releasing
<1>6. OwnersHaveTheLock' /\ OneOwner' /\ ReclaimsAreDue'
  BY <1>2, <1>3, <1>4, <1>5 DEF OwnersHaveTheLock, OneOwner, ReclaimsAreDue
<1>7. RecordsAreTrue'
  <2>1. Me(a).agent = a /\ Me(a).run = run[a] /\ run[a] \in Nat
    BY DEF Me, Typed, TypeOK
  <2> QED
    BY <1>2, <1>3, <2>1 DEF RecordsAreTrue
<1> QED
  BY <1>1, <1>6, <1>7

\* The only owner takes its token away; the directory counts as touched.
LEMMA ReleaseUnlinkStep ==
  ASSUME LeaseInv, Typed', NEW a \in Agents, ReleaseUnlink(a)
  PROVE  LeaseInv'
<1> USE DEF LeaseInv, ReleaseUnlink, GoesTo, RemovesMetadata
<1>1. /\ pc'[a] = "releaseRmdir" /\ \A b \in Agents : Me(b)' = Me(b)
      /\ \A b \in Agents \ {a} :
           /\ pc'[b] = pc[b] /\ seen'[b] = seen[b]
           /\ (Owns(b)' <=> Owns(b)) /\ (Signed(b)' <=> Signed(b))
           /\ (Reclaiming(b)' <=> Reclaiming(b))
  BY OthersStay
<1>2. Owns(a) /\ Signed(a) /\ Owns(a)' /\ ~Signed(a)' /\ ~Reclaiming(a)'
  BY <1>1 DEF Owns, Signed, Reclaiming, Releasing
<1>3. metadata # None /\ lockDir
  BY <1>2, MeIsAnOwner DEF OwnersHaveTheLock, Typed
<1>4. FilesFit' /\ RecordsAreTrue' /\ ~aged'
  BY <1>3 DEF FilesFit, RecordsAreTrue
<1>5. \A b \in Agents : ~Reclaiming(b)
  BY <1>2 DEF ReclaimsAreDue
<1>6. \A b \in Agents \ {a} : ~Owns(b) /\ ~Signed(b)
  BY <1>2 DEF OneOwner, Owns, Signed, Releasing
<1>7. OwnersHaveTheLock' /\ OneOwner' /\ ReclaimsAreDue'
  BY <1>1, <1>2, <1>3, <1>4, <1>5, <1>6 DEF OwnersHaveTheLock, OneOwner, ReclaimsAreDue
<1> QED
  BY <1>4, <1>7

\* The only owner removes the directory.
LEMMA ReleaseRmdirStep ==
  ASSUME LeaseInv, Typed', NEW a \in Agents, ReleaseRmdir(a)
  PROVE  LeaseInv'
<1> USE DEF LeaseInv, ReleaseRmdir, GoesTo
<1>1. /\ pc'[a] = "idle" /\ \A b \in Agents : Me(b)' = Me(b)
      /\ \A b \in Agents \ {a} :
           /\ pc'[b] = pc[b] /\ seen'[b] = seen[b]
           /\ (Owns(b)' <=> Owns(b)) /\ (Signed(b)' <=> Signed(b))
           /\ (Reclaiming(b)' <=> Reclaiming(b))
  BY OthersStay
<1>2. Owns(a) /\ ~Signed(a) /\ ~Owns(a)' /\ ~Signed(a)' /\ ~Reclaiming(a)'
  BY <1>1 DEF Owns, Signed, Reclaiming, Releasing
<1>3. metadata = None /\ lockDir' = FALSE /\ aged' = FALSE /\ metadata' = None
  BY <1>2 DEF OwnersHaveTheLock
<1>4. FilesFit' /\ RecordsAreTrue'
  BY <1>3 DEF FilesFit, RecordsAreTrue
<1>5. \A b \in Agents : ~Reclaiming(b)
  BY <1>2 DEF ReclaimsAreDue
<1>6. \A b \in Agents \ {a} : ~Owns(b) /\ ~Signed(b)
  BY <1>2 DEF OneOwner, Owns, Signed, Releasing
<1>7. OwnersHaveTheLock' /\ OneOwner' /\ ReclaimsAreDue'
  BY <1>1, <1>2, <1>5, <1>6 DEF OwnersHaveTheLock, OneOwner, ReclaimsAreDue
<1> QED
  BY <1>4, <1>7

\* A reclaim takes away what a dead owner has left.
LEMMA UnlinkStep ==
  ASSUME LeaseInv, Typed', NEW a \in Agents, Unlink(a)
  PROVE  LeaseInv'
<1> USE DEF LeaseInv, Unlink, GoesTo, RemovesMetadata
<1>1. /\ pc'[a] = "rmdir" /\ \A b \in Agents : Me(b)' = Me(b)
      /\ \A b \in Agents \ {a} :
           /\ pc'[b] = pc[b] /\ seen'[b] = seen[b]
           /\ (Owns(b)' <=> Owns(b)) /\ (Signed(b)' <=> Signed(b))
           /\ (Reclaiming(b)' <=> Reclaiming(b))
  BY OthersStay
<1>2. \A b \in Agents : ~Owns(b)
  BY DEF ReclaimsAreDue, Reclaiming
<1>3. \A b \in Agents : ~Owns(b)' /\ ~Signed(b)'
  BY <1>1, <1>2 DEF Owns, Signed, Releasing
<1>4. FilesFit' /\ RecordsAreTrue'
  BY DEF FilesFit, RecordsAreTrue
<1> QED
  BY <1>2, <1>3, <1>4 DEF OwnersHaveTheLock, OneOwner, ReclaimsAreDue

\* A reclaim ends.
LEMMA RmdirStep ==
  ASSUME LeaseInv, Typed', NEW a \in Agents, Rmdir(a), lockDir, metadata = None
  PROVE  LeaseInv'
<1> USE DEF LeaseInv, Rmdir, GoesTo
<1>1. /\ pc'[a] = "mkdir" /\ \A b \in Agents : Me(b)' = Me(b)
      /\ \A b \in Agents \ {a} :
           /\ pc'[b] = pc[b] /\ seen'[b] = seen[b]
           /\ (Owns(b)' <=> Owns(b)) /\ (Signed(b)' <=> Signed(b))
           /\ (Reclaiming(b)' <=> Reclaiming(b))
  BY OthersStay
<1>2. Reclaiming(a) /\ \A b \in Agents : ~Owns(b)
  BY DEF ReclaimsAreDue, Reclaiming
<1>3. \A b \in Agents : ~Owns(b)' /\ ~Signed(b)'
  BY <1>1, <1>2 DEF Owns, Signed, Releasing
<1>4. FilesFit' /\ RecordsAreTrue'
  BY DEF FilesFit, RecordsAreTrue
<1> QED
  BY <1>3, <1>4 DEF OwnersHaveTheLock, OneOwner, ReclaimsAreDue

\* A new run of a process has nothing of the old one's.
LEMMA RestartStep ==
  ASSUME LeaseInv, Typed', NEW a \in Agents, Restart(a)
  PROVE  LeaseInv'
<1> USE DEF LeaseInv, Restart, fsVars
<1>1. /\ pc'[a] = "idle" /\ run'[a] = run[a] + 1
      /\ \A b \in Agents \ {a} : pc'[b] = pc[b] /\ run'[b] = run[b]
      /\ UNCHANGED seen
  BY DEF Typed, TypeOK
<1>2. \A b \in Agents \ {a} : Me(b)' = Me(b) /\ (Owns(b)' <=> Owns(b))
                 /\ (Signed(b)' <=> Signed(b)) /\ (Reclaiming(b)' <=> Reclaiming(b))
  BY <1>1 DEF Me, Owns, Signed, Reclaiming
<1>3. ~Owns(a) /\ ~Owns(a)' /\ ~Signed(a)' /\ ~Reclaiming(a)'
  BY <1>1 DEF Owns, Signed, Reclaiming, Releasing
<1>4. FilesFit'
  BY DEF FilesFit
<1>5. OwnersHaveTheLock' /\ OneOwner' /\ ReclaimsAreDue'
  BY <1>2, <1>3 DEF OwnersHaveTheLock, OneOwner, ReclaimsAreDue
<1>6. RecordsAreTrue'
  <2> SUFFICES ASSUME metadata # None
               PROVE  /\ metadata.run <= run'[metadata.agent]
                      /\ PidIsAlive(metadata)' => Signed(metadata.agent)'
    BY DEF RecordsAreTrue
  <2>1. /\ metadata.agent \in Agents /\ metadata.run \in Nat /\ run[metadata.agent] \in Nat
        /\ metadata.run <= run[metadata.agent]
    BY DEF Typed, TypeOK, Owners, RecordsAreTrue
  <2>2. CASE metadata.agent = a
    BY <1>1, <2>1, <2>2 DEF PidIsAlive
  <2>3. CASE metadata.agent # a
    BY <1>1, <1>2, <2>1, <2>3 DEF RecordsAreTrue, PidIsAlive
  <2> QED
    BY <2>2, <2>3
<1> QED
  BY <1>4, <1>5, <1>6

\* A minute passes only on a directory that is nobody's.
LEMMA AgesStep ==
  ASSUME LeaseInv, Typed', Ages
  PROVE  LeaseInv'
<1> USE DEF LeaseInv, Ages
<1>1. /\ UNCHANGED <<lockDir, metadata, pc, seen, run>>
      /\ \A b \in Agents : ~(Owns(b) /\ ~Signed(b))
  BY DEF Owns, Signed, Releasing
<1>2. \A b \in Agents : Me(b)' = Me(b) /\ (Owns(b)' <=> Owns(b))
                 /\ (Signed(b)' <=> Signed(b)) /\ (Reclaiming(b)' <=> Reclaiming(b))
  BY <1>1 DEF Me, Owns, Signed, Reclaiming
<1>3. OwnersHaveTheLock' /\ OneOwner' /\ ReclaimsAreDue'
  BY <1>1, <1>2 DEF OwnersHaveTheLock, OneOwner, ReclaimsAreDue
<1>4. RecordsAreTrue' /\ FilesFit'
  BY <1>1 DEF RecordsAreTrue, PidIsAlive, Signed, FilesFit
<1> QED
  BY <1>3, <1>4

LEMMA AcquireKeepsLease ==
  ASSUME LeaseInv, ReclaimsAreUndisturbed', Typed', NEW a \in Agents, AcquireStep(a)
  PROVE  LeaseInv'
<1>1. CASE Mkdir(a)
  BY <1>1, MkdirStep
<1>2. CASE MkdirFindsLock(a)
  <2>1. ~Owns(a)
    BY <1>2 DEF MkdirFindsLock, Owns, Releasing
  <2> QED
    BY <1>2, <2>1, QuietStep DEF MkdirFindsLock, GoesTo, fsVars
<1>3. CASE Read(a)
  <2>1. ~Owns(a)
    BY <1>3 DEF Read, Owns, Releasing
  <2>2. CASE GoesTo(a, "stat")
    BY <1>3, <2>1, <2>2, QuietStep DEF Read, GoesTo, fsVars
  <2> QED
    BY <1>3, <2>2, AskBegins DEF Read
<1>9. CASE Ask(a)
  <2>1. ~Owns(a)
    BY <1>9 DEF Ask, Owns, Releasing
  <2>2. ASSUME NEW s \in {"mkdir", "idle"}, GoesTo(a, s) PROVE LeaseInv'
    BY <1>9, <2>1, <2>2, QuietStep DEF Ask, GoesTo, fsVars
  <2>3. ASSUME ~PidIsAlive(seen[a]), GoesTo(a, "unlink") PROVE LeaseInv'
    <3>1. ASSUME NEW b \in Agents PROVE ~Owns(b)
      <4>1. Owns(b) => seen[a] = Me(b) /\ pc[b] # "down"
        BY <1>9 DEF LeaseInv, ReclaimsAreDue, Owns, Releasing, Ask
      <4> QED
        BY <2>3, <4>1, MeIsAnOwner DEF LeaseInv, Typed, PidIsAlive
    <3> QED
      BY <1>9, <2>3, <3>1, ReclaimBegins DEF Ask, GoesTo, fsVars
  <2> QED
    BY <1>9, <2>2, <2>3 DEF Ask, FindsBusy
<1>4. CASE Stat(a)
  <2>1. ~Owns(a)
    BY <1>4 DEF Stat, Owns, Releasing
  <2>2. ASSUME NEW s \in {"mkdir", "idle"}, GoesTo(a, s) PROVE LeaseInv'
    BY <1>4, <2>1, <2>2, QuietStep DEF Stat, GoesTo, fsVars
  <2>3. ASSUME lockDir, aged, GoesTo(a, "unlink") PROVE LeaseInv'
    <3>1. \A b \in Agents : ~Owns(b)
      BY <2>3, MeIsAnOwner DEF LeaseInv, Typed, FilesFit, OwnersHaveTheLock
    <3> QED
      BY <1>4, <2>3, <3>1, ReclaimBegins DEF Stat, GoesTo, fsVars
  <2> QED
    BY <1>4, <2>2, <2>3 DEF Stat, FindsBusy
<1>5. CASE Unlink(a)
  BY <1>5, UnlinkStep
<1>6. CASE Rmdir(a)
  <2>1. CASE lockDir /\ metadata = None
    BY <1>6, <2>1, RmdirStep
  <2>2. CASE ~(lockDir /\ metadata = None)
    <3>1. ~Owns(a)
      BY <1>6 DEF Rmdir, Owns, Releasing
    <3>2. ASSUME NEW s \in {"mkdir", "idle"}, GoesTo(a, s) PROVE LeaseInv'
      BY <1>6, <2>2, <3>1, <3>2, QuietStep DEF Rmdir, GoesTo, fsVars
    <3> QED
      BY <1>6, <2>2, <3>2 DEF Rmdir, FindsBusy
  <2> QED
    BY <2>1, <2>2
<1>7. CASE Write(a)
  BY <1>7, WriteStep
<1>8. ~WriteFails(a)
  BY DEF LeaseInv, OwnersHaveTheLock, Owns, WriteFails
<1> QED
  BY <1>1, <1>2, <1>3, <1>4, <1>5, <1>6, <1>7, <1>8, <1>9 DEF AcquireStep

LEMMA ReleaseKeepsLease ==
  ASSUME LeaseInv, Typed', NEW a \in Agents, Release(a) \/ ReleaseStep(a)
  PROVE  LeaseInv'
<1>1. CASE Release(a)
  BY <1>1, SignedGoesOn DEF Release, Signed, GoesTo, fsVars
<1>2. CASE CheckToken(a)
  <2>1. Signed(a) /\ metadata = Me(a)
    BY <1>2 DEF LeaseInv, OwnersHaveTheLock, CheckToken, Signed
  <2>2. GoesTo(a, "releaseUnlink")
    BY <1>2, <2>1 DEF CheckToken
  <2> QED
    BY <1>2, <2>1, <2>2, SignedGoesOn DEF CheckToken, GoesTo, fsVars
<1>3. CASE ReleaseUnlink(a) \/ ReleaseRmdir(a)
  BY <1>3, ReleaseUnlinkStep, ReleaseRmdirStep
<1> QED
  BY <1>1, <1>2, <1>3 DEF ReleaseStep

LEMMA LeaseInit == Init => LeaseInv
<1> SUFFICES ASSUME Init PROVE LeaseInv
  OBVIOUS
<1>1. \A a \in Agents : ~Owns(a) /\ ~Signed(a) /\ ~Reclaiming(a)
  BY DEF Init, Owns, Signed, Reclaiming, Releasing
<1> QED
  BY <1>1, TypedInit
     DEF Init, LeaseInv, FilesFit, OwnersHaveTheLock, OneOwner, RecordsAreTrue, ReclaimsAreDue

LEMMA LeaseStep == LeaseInv /\ ReclaimsAreUndisturbed' /\ [Next]_vars => LeaseInv'
<1> SUFFICES ASSUME LeaseInv, ReclaimsAreUndisturbed', [Next]_vars PROVE LeaseInv'
  OBVIOUS
<1>1. Typed'
  BY TypedStep DEF LeaseInv
<1>2. ASSUME NEW a \in Agents, Begin(a) PROVE LeaseInv'
  <2>1. ~Owns(a)
    BY <1>2 DEF Begin, Owns, Releasing
  <2> QED
    BY <1>1, <1>2, <2>1, QuietStep DEF Begin, GoesTo, fsVars
<1>3. ASSUME NEW a \in Agents, Crash(a) PROVE LeaseInv'
  BY <1>1, <1>3, QuietStep DEF Crash, GoesTo, fsVars
<1>4. ASSUME NEW a \in Agents, AcquireStep(a) \/ Release(a) \/ ReleaseStep(a) PROVE LeaseInv'
  BY <1>1, <1>4, AcquireKeepsLease, ReleaseKeepsLease
<1>5. ASSUME NEW a \in Agents, Restart(a) PROVE LeaseInv'
  BY <1>1, <1>5, RestartStep
<1>6. CASE Ages
  BY <1>1, <1>6, AgesStep
<1>7. CASE UNCHANGED vars
  BY <1>1, <1>7 DEF vars, fsVars, LeaseInv, FilesFit, OwnersHaveTheLock, OneOwner,
     RecordsAreTrue, ReclaimsAreDue, Owns, Signed, Reclaiming, Me, PidIsAlive
<1> QED
  BY <1>2, <1>3, <1>4, <1>5, <1>6, <1>7 DEF Next

-----------------------------------------------------------------------------
(***************************************************************************)
(* What follows from LeaseInv in a state and for a step.                   *)
(***************************************************************************)

LEMMA LeaseIsKept == LeaseInv => HoldersHaveTheLock
BY DEF LeaseInv, HoldersHaveTheLock, OwnersHaveTheLock, Owns, Signed

\* A step that takes the record out of the lock, or replaces it.
TakesRecord == metadata # None /\ metadata' # metadata

LEMMA RecordsOfTheLivingStay ==
  ASSUME LeaseInv, [Next]_vars, TakesRecord
  PROVE  ~PidIsAlive(metadata) \/ pc[metadata.agent] \in Releasing
<1> SUFFICES ASSUME PidIsAlive(metadata)
             PROVE  pc[metadata.agent] \in Releasing
  OBVIOUS
<1> USE DEF TakesRecord
<1>1. metadata.agent \in Agents /\ Signed(metadata.agent) /\ metadata = Me(metadata.agent)
  BY RecordOfTheLiving
<1>2. Owns(metadata.agent) /\ lockDir
  BY <1>1 DEF LeaseInv, OwnersHaveTheLock, Owns, Signed, Releasing
<1>3. PICK a \in Agents : Mkdir(a) \/ Unlink(a) \/ Write(a) \/ ReleaseUnlink(a)
                          \/ ReleaseRmdir(a)
  BY DEF Next, vars, fsVars, Begin, AcquireStep, Release, ReleaseStep, Crash, Restart, Ages,
     MkdirFindsLock, Read, Ask, Stat, Rmdir, WriteFails, CheckToken
<1>4. ~Mkdir(a)
  BY <1>2 DEF Mkdir
<1>5. ~Unlink(a)
  BY <1>1, <1>2 DEF LeaseInv, ReclaimsAreDue, Reclaiming, Unlink
<1>6. ~Write(a)
  BY <1>2 DEF LeaseInv, OwnersHaveTheLock, Write, Owns, Signed
<1>7. ReleaseUnlink(a) => a = metadata.agent
  BY <1>1, <1>2 DEF LeaseInv, OneOwner, ReleaseUnlink, Owns, Releasing
<1>8. ~ReleaseRmdir(a)
  BY DEF ReleaseRmdir, fsVars
<1> QED
  BY <1>3, <1>4, <1>5, <1>6, <1>7, <1>8 DEF ReleaseUnlink, Releasing

\* Only a Write makes a holder, and only of the owner.
LEMMA LockStep ==
  ASSUME LeaseInv, [Next]_vars
  PROVE  [Lock!LockNext]_Holders
<1>1. ASSUME NEW a \in Agents, NEW s, pc' = [pc EXCEPT ![a] = s], pc[a] # "holds" => s # "holds"
      PROVE  [Lock!LockNext]_Holders
  <2>1. /\ pc'[a] = s
        /\ \A b \in Agents \ {a} : pc'[b] = pc[b]
    BY <1>1 DEF LeaseInv, Typed, TypeOK
  <2>2. CASE pc[a] = "holds" /\ s # "holds"
    <3>1. a \in Holders /\ Holders' = Holders \ {a}
      BY <2>1, <2>2 DEF Holders
    <3> QED
      BY <3>1 DEF Lock!LockNext, Lock!Leave
  <2>3. CASE ~(pc[a] = "holds" /\ s # "holds")
    <3>1. Holders' = Holders
      BY <1>1, <2>1, <2>3 DEF Holders
    <3> QED
      BY <3>1
  <2> QED
    BY <2>2, <2>3
<1>2. ASSUME NEW a \in Agents, Write(a) PROVE Lock!LockNext
  <2>1. /\ pc'[a] = "holds"
        /\ \A b \in Agents \ {a} : pc'[b] = pc[b]
    BY <1>2 DEF LeaseInv, Typed, TypeOK, Write, GoesTo
  <2>2. \A b \in Agents : pc[b] # "holds"
    <3>1. Owns(a) /\ pc[a] # "holds"
      BY <1>2 DEF Write, Owns
    <3> QED
      BY <3>1 DEF LeaseInv, OneOwner, Owns
  <2>3. Holders = {} /\ Holders' = {a}
    BY <2>1, <2>2 DEF Holders
  <2> QED
    BY <2>3 DEF Lock!LockNext, Lock!Take
<1>3. ASSUME NEW a \in Agents, AcquireStep(a) PROVE [Lock!LockNext]_Holders
  <2>1. CASE Mkdir(a) \/ MkdirFindsLock(a) \/ Unlink(a) \/ WriteFails(a)
    BY <1>1, <2>1 DEF Mkdir, MkdirFindsLock, Unlink, WriteFails, GoesTo
  <2>2. CASE Read(a) \/ Ask(a) \/ Stat(a)
    BY <1>1, <2>2 DEF Read, Ask, Stat, FindsBusy, GoesTo
  <2>3. CASE Rmdir(a)
    BY <1>1, <2>3 DEF Rmdir, FindsBusy, GoesTo
  <2>4. CASE Write(a)
    BY <1>2, <2>4
  <2> QED
    BY <1>3, <2>1, <2>2, <2>3, <2>4 DEF AcquireStep
<1>4. ASSUME NEW a \in Agents,
             Begin(a) \/ Release(a) \/ ReleaseStep(a) \/ Crash(a) \/ Restart(a)
      PROVE  [Lock!LockNext]_Holders
  BY <1>1, <1>4 DEF Begin, Release, ReleaseStep, CheckToken, ReleaseUnlink, ReleaseRmdir, Crash,
     Restart, GoesTo
<1>5. CASE Ages \/ UNCHANGED vars
  BY <1>5 DEF Ages, vars, Holders
<1> QED
  BY <1>3, <1>4, <1>5 DEF Next

-----------------------------------------------------------------------------
(***************************************************************************)
(* Two processes, before a restart.                                        *)
(***************************************************************************)

LEMMA RunsGoOn ==
  ASSUME Typed, [Next]_vars, NoRestart'
  PROVE  NoRestart /\ UNCHANGED run
<1>1. ASSUME NEW a \in Agents, Restart(a) PROVE FALSE
  BY <1>1 DEF Restart, Typed, TypeOK, NoRestart
<1>2. UNCHANGED run
  BY <1>1, CallMoves DEF Next, Crash, Ages, GoesTo, vars
<1> QED
  BY <1>2 DEF NoRestart

\* The dead stay dead.
LEMMA DeathsLast ==
  ASSUME Typed, [Next]_vars, NoRestart', SomebodyDied
  PROVE  SomebodyDied'
<1>1. PICK c \in Agents : pc[c] = "down"
  BY DEF SomebodyDied
<1>2. ASSUME NEW a \in Agents, NEW s, pc' = [pc EXCEPT ![a] = s], pc[a] # "down"
      PROVE  SomebodyDied'
  <2>1. pc'[c] = "down"
    BY <1>1, <1>2 DEF Typed, TypeOK
  <2> QED
    BY <2>1 DEF SomebodyDied
<1>3. ASSUME NEW a \in Agents, Begin(a) \/ AcquireStep(a) \/ Release(a) \/ ReleaseStep(a)
      PROVE  SomebodyDied'
  <2>1. pc[a] # "down"
    BY <1>3 DEF Begin, AcquireStep, Release, ReleaseStep, Mkdir, MkdirFindsLock, Read, Ask, Stat,
       Unlink, Rmdir, Write, WriteFails, CheckToken, ReleaseUnlink, ReleaseRmdir
  <2> QED
    BY <1>2, <1>3, <2>1, CallMoves
<1>4. ASSUME NEW a \in Agents, Crash(a) PROVE SomebodyDied'
  BY <1>2, <1>4 DEF Crash, GoesTo
<1>5. ASSUME NEW a \in Agents, Restart(a) PROVE FALSE
  BY <1>5, RunsGoOn DEF Restart, Typed, TypeOK
<1>6. CASE Ages \/ UNCHANGED vars
  BY <1>6 DEF Ages, vars, SomebodyDied
<1> QED
  BY <1>3, <1>4, <1>5, <1>6 DEF Next

\* Without a restart the record in the lock is of the only run of a process, and
\* one that reads it is not the process it names.
LEMMA AsksGoOn ==
  ASSUME LeaseInv, AsksForAnother, NoRestart', [Next]_vars
  PROVE  AsksForAnother'
<1> USE DEF LeaseInv
<1>1. NoRestart /\ UNCHANGED run
  BY RunsGoOn
<1>2. ASSUME NEW a \in Agents, Read(a), metadata # None PROVE metadata.agent # a /\ metadata.run = 1
  <2>1. metadata.agent \in Agents /\ metadata.run \in 1 .. MaxIncarnations
    BY <1>2 DEF Typed, TypeOK, Owners
  <2>2. run[metadata.agent] = 1 /\ metadata.run <= run[metadata.agent]
    BY <1>1, <1>2, <2>1 DEF NoRestart, RecordsAreTrue
  <2>3. metadata.run = 1
    BY <2>1, <2>2, MaxIncarnationsAssumption
  <2>4. metadata.agent = a => PidIsAlive(metadata) /\ ~Signed(a)
    BY <1>2, <2>2, <2>3 DEF PidIsAlive, Read, Signed
  <2> QED
    BY <1>2, <2>3, <2>4 DEF RecordsAreTrue
<1>3. ASSUME NEW a \in Agents, NEW s \in Pcs \ {"ask"}, pc' = [pc EXCEPT ![a] = s],
             NEW o \in {None, metadata}, seen' = [seen EXCEPT ![a] = o]
      PROVE  AsksForAnother'
  BY <1>3 DEF AsksForAnother, Typed, TypeOK
<1>4. ASSUME NEW a \in Agents, Read(a) PROVE AsksForAnother'
  <2>1. CASE GoesTo(a, "stat")
    BY <1>3, <2>1 DEF GoesTo, Pcs, Acquiring
  <2>2. CASE metadata # None /\ pc' = [pc EXCEPT ![a] = "ask"]
             /\ seen' = [seen EXCEPT ![a] = metadata]
    <3>1. metadata.agent # a /\ metadata.run = 1
      BY <1>2, <1>4, <2>2
    <3> QED
      BY <2>2, <3>1 DEF AsksForAnother, Typed, TypeOK
  <2> QED
    BY <1>4, <2>1, <2>2 DEF Read
<1>5. ASSUME NEW a \in Agents, Begin(a) \/ AcquireStep(a) \/ Release(a) \/ ReleaseStep(a),
             ~Read(a)
      PROVE  AsksForAnother'
  <2>1. PICK s \in Pcs \ {"ask"}, o \in {None, metadata} :
          pc' = [pc EXCEPT ![a] = s] /\ seen' = [seen EXCEPT ![a] = o]
    BY <1>5, CallMoves
  <2> QED
    BY <1>3, <2>1
<1>6. ASSUME NEW a \in Agents, Crash(a) PROVE AsksForAnother'
  BY <1>3, <1>6 DEF Crash, GoesTo, Pcs
<1>7. ASSUME NEW a \in Agents, Restart(a) PROVE FALSE
  BY <1>1, <1>7 DEF Restart, Typed, TypeOK
<1>8. CASE Ages \/ UNCHANGED vars
  BY <1>8 DEF Ages, vars, AsksForAnother
<1> QED
  BY <1>4, <1>5, <1>6, <1>7, <1>8 DEF Next

\* Without a death nobody finds a lock stale.
LEMMA NoReclaimOfTheLiving ==
  ASSUME LeaseInv, AloneInv, NoRestart', [Next]_vars, ~SomebodyDied
  PROVE  \A a \in Agents : ~Reclaiming(a)'
<1> USE DEF LeaseInv
<1>1. NoRestart
  BY RunsGoOn
<1>2. \A a \in Agents : ~Reclaiming(a)
  BY DEF AloneInv
<1>3. ASSUME NEW a \in Agents, pc[a] = "ask" PROVE PidIsAlive(seen[a])
  <2>1. seen[a].agent \in Agents /\ seen[a].run = 1
    BY <1>3 DEF Typed, TypeOK, Owners, AloneInv, AsksForAnother
  <2> QED
    BY <1>1, <2>1 DEF NoRestart, PidIsAlive, SomebodyDied
<1>4. ~(lockDir /\ aged)
  <2>1. lockDir /\ aged => \E a \in Agents : Owns(a)
    BY DEF AloneInv
  <2> QED
    BY <2>1, MeIsAnOwner DEF Typed, FilesFit, OwnersHaveTheLock
<1> SUFFICES ASSUME NEW a \in Agents, Reclaiming(a)' PROVE FALSE
  OBVIOUS
<1>5. ASSUME NEW b \in Agents, NEW s, pc' = [pc EXCEPT ![b] = s], s \notin {"unlink", "rmdir"}
      PROVE  FALSE
  BY <1>2, <1>5 DEF Reclaiming, Typed, TypeOK
<1>6. ASSUME NEW b \in Agents, AcquireStep(b) PROVE FALSE
  <2>1. ~Unlink(b) /\ ~Rmdir(b)
    BY <1>2 DEF Unlink, Rmdir, Reclaiming
  <2>2. ~Read(b) /\ ~Ask(b)
    BY <1>3, <1>5 DEF Read, Ask, FindsBusy, GoesTo
  <2>3. ~Stat(b)
    BY <1>4, <1>5 DEF Stat, FindsBusy, GoesTo
  <2>4. ~Mkdir(b) /\ ~MkdirFindsLock(b) /\ ~Write(b) /\ ~WriteFails(b)
    BY <1>5 DEF Mkdir, MkdirFindsLock, Write, WriteFails, GoesTo
  <2> QED
    BY <1>6, <2>1, <2>2, <2>3, <2>4 DEF AcquireStep
<1>7. ASSUME NEW b \in Agents,
             Begin(b) \/ Release(b) \/ ReleaseStep(b) \/ Crash(b) \/ Restart(b)
      PROVE  FALSE
  BY <1>5, <1>7 DEF Begin, Release, ReleaseStep, CheckToken, ReleaseUnlink, ReleaseRmdir, Crash,
     Restart, GoesTo
<1>8. ~Ages /\ ~UNCHANGED vars
  BY <1>2 DEF Ages, vars, Reclaiming
<1> QED
  BY <1>6, <1>7, <1>8 DEF Next

\* Without a death the directory is there only as long as its owner needs it.
LEMMA OwnersCleanUp ==
  ASSUME LeaseInv, AloneInv, NoRestart', [Next]_vars, ~SomebodyDied, lockDir'
  PROVE  SomebodyDied' \/ \E a \in Agents : Owns(a)'
<1> USE DEF LeaseInv
<1>1. ASSUME NEW a \in Agents, NEW b \in Agents, Owns(b), NEW s, pc' = [pc EXCEPT ![a] = s],
             a = b => s \in {"down", "write", "holds"} \cup Releasing
      PROVE  SomebodyDied' \/ \E c \in Agents : Owns(c)'
  <2>1. pc'[b] = "down" \/ Owns(b)'
    BY <1>1 DEF Owns, Typed, TypeOK
  <2> QED
    BY <2>1 DEF SomebodyDied
<1>2. CASE ~lockDir
  <2>1. PICK a \in Agents : Mkdir(a)
    BY <1>2 DEF Next, vars, fsVars, Begin, AcquireStep, Release, ReleaseStep, Crash, Restart,
       Ages, MkdirFindsLock, Read, Ask, Stat, Unlink, Rmdir, Write, WriteFails, CheckToken,
       ReleaseUnlink, ReleaseRmdir, RemovesMetadata
  <2>2. pc'[a] = "write"
    BY <2>1 DEF Mkdir, GoesTo, Typed, TypeOK
  <2> QED
    BY <2>2 DEF Owns
<1>3. CASE lockDir
  <2>1. PICK b \in Agents : Owns(b)
    BY <1>3 DEF AloneInv
  <2>2. ASSUME NEW a \in Agents, AcquireStep(a)
        PROVE  SomebodyDied' \/ \E c \in Agents : Owns(c)'
    <3>1. CASE Mkdir(a) \/ MkdirFindsLock(a) \/ Unlink(a)
      <4>1. ~Owns(a) /\ \E s \in Pcs : pc' = [pc EXCEPT ![a] = s]
        BY <3>1, CallMoves DEF Mkdir, MkdirFindsLock, Unlink, Owns, Releasing, AcquireStep
      <4> QED
        BY <1>1, <2>1, <4>1
    <3>2. CASE Read(a) \/ Ask(a) \/ Stat(a) \/ Rmdir(a)
      <4>1. ~Owns(a) /\ \E s \in Pcs : pc' = [pc EXCEPT ![a] = s]
        BY <3>2, CallMoves DEF Read, Ask, Stat, Rmdir, Owns, Releasing, AcquireStep
      <4> QED
        BY <1>1, <2>1, <4>1
    <3>3. CASE Write(a) \/ WriteFails(a)
      BY <1>1, <2>1, <3>3 DEF Write, WriteFails, GoesTo, Releasing
    <3> QED
      BY <2>2, <3>1, <3>2, <3>3 DEF AcquireStep
  <2>3. ASSUME NEW a \in Agents, Release(a) \/ ReleaseUnlink(a) \/ Crash(a)
        PROVE  SomebodyDied' \/ \E c \in Agents : Owns(c)'
    BY <1>1, <2>1, <2>3 DEF Release, ReleaseUnlink, Crash, GoesTo, Releasing
  <2>4. ASSUME NEW a \in Agents, CheckToken(a)
        PROVE  SomebodyDied' \/ \E c \in Agents : Owns(c)'
    <3>1. metadata = Me(a)
      BY <2>4 DEF OwnersHaveTheLock, CheckToken, Signed
    <3> QED
      BY <1>1, <2>1, <2>4, <3>1 DEF CheckToken, GoesTo, Releasing
  <2>5. ASSUME NEW a \in Agents, ReleaseRmdir(a) PROVE FALSE
    <3>1. Owns(a) /\ ~Signed(a)
      BY <2>5 DEF ReleaseRmdir, Owns, Signed, Releasing
    <3> QED
      BY <2>5, <3>1 DEF ReleaseRmdir, OwnersHaveTheLock
  <2>6. ASSUME NEW a \in Agents, Begin(a) \/ Restart(a)
        PROVE  SomebodyDied' \/ \E c \in Agents : Owns(c)'
    <3>1. ~Owns(a)
      BY <2>6 DEF Begin, Restart, Owns, Releasing
    <3> QED
      BY <1>1, <2>1, <2>6, <3>1 DEF Begin, Restart, GoesTo
  <2>7. CASE Ages \/ UNCHANGED vars
    BY <2>1, <2>7 DEF Ages, vars, Owns
  <2> QED
    BY <2>2, <2>3, <2>4, <2>5, <2>6, <2>7 DEF Next, ReleaseStep
<1> QED
  BY <1>2, <1>3

LEMMA AloneStep ==
  ASSUME LeaseInv, AloneInv, NoRestart', [Next]_vars
  PROVE  AloneInv'
<1>1. AsksForAnother'
  BY AsksGoOn DEF AloneInv
<1>2. CASE SomebodyDied
  BY <1>1, <1>2, DeathsLast DEF LeaseInv, AloneInv
<1>3. CASE ~SomebodyDied
  BY <1>1, <1>3, NoReclaimOfTheLiving, OwnersCleanUp DEF AloneInv
<1> QED
  BY <1>2, <1>3

\* Of two processes the one that may remove the lock has the other one's record,
\* or the other one is dead.
LEMMA TwoReclaimUndisturbed ==
  ASSUME TwoAgents, Typed', NoRestart', AloneInv'
  PROVE  ReclaimsAreUndisturbed'
<1> SUFFICES ASSUME NEW a \in Agents, NEW b \in Agents, MayRemove(a, b)', pc'[b] = "write"
             PROVE  FALSE
  BY DEF ReclaimsAreUndisturbed
<1>1. a # b
  BY DEF MayRemove
<1>2. CASE pc'[a] = "ask" /\ seen'[a] # Me(b)'
  <2>1. seen'[a] \in Owners /\ seen'[a].agent # a /\ seen'[a].run = 1 /\ run'[b] = 1
    BY <1>2 DEF Typed, AloneInv, AsksForAnother, NoRestart
  <2>2. seen'[a].agent = b
    BY <1>1, <2>1 DEF TwoAgents, Owners
  <2> QED
    BY <1>2, <2>1, <2>2 DEF Owners, Me
<1>3. CASE pc'[a] \in {"unlink", "rmdir"}
  <2>1. PICK c \in Agents : pc'[c] = "down"
    BY <1>3 DEF AloneInv, SomebodyDied, Reclaiming
  <2> QED
    BY <1>1, <1>3, <2>1 DEF TwoAgents
<1> QED
  BY <1>2, <1>3 DEF MayRemove

\* Until a restart two processes keep both invariants.
Early == NoRestart => LeaseInv /\ AloneInv

LEMMA EarlyStep ==
  ASSUME TwoAgents
  PROVE  Typed /\ Early /\ [Next]_vars => Early'
<1> SUFFICES ASSUME Typed, Early, [Next]_vars, NoRestart'
             PROVE  LeaseInv' /\ AloneInv'
  BY DEF Early
<1>1. LeaseInv /\ AloneInv
  BY RunsGoOn DEF Early
<1>2. AloneInv'
  BY <1>1, AloneStep
<1>3. LeaseInv'
  BY <1>1, <1>2, TypedStep, TwoReclaimUndisturbed, LeaseStep
<1> QED
  BY <1>2, <1>3

LEMMA EarlyInit == Init => Early
<1> SUFFICES ASSUME Init PROVE LeaseInv /\ AloneInv
  BY DEF Early
<1> QED
  BY LeaseInit DEF Init, AloneInv, AsksForAnother, Reclaiming

-----------------------------------------------------------------------------

\* Whatever is called, killed and restarted, the variables keep their types; no
\* process is started more often than the bound.
THEOREM TypeCorrect == Spec => []TypeOK
<1>1. Typed => TypeOK
  BY DEF Typed
<1> QED
  BY <1>1, TypedInit, TypedStep, PTL DEF Spec

LEMMA UndisturbedLease == Spec /\ []ReclaimsAreUndisturbed => []LeaseInv
BY LeaseInit, LeaseStep, PTL DEF Spec

\* A held profile can lose its lock in one way only: a process has read the
\* owner.json of a dead owner, or found the lock stale, and before it has removed
\* the lock another process makes it anew.  Any number of processes, killed
\* between any two calls and restarted at any time, never hold the profile
\* together as long as this does not happen.
THEOREM UndisturbedReclaims == Spec => UndisturbedReclaimsAreSafe
BY UndisturbedLease, LeaseIsKept, PTL DEF UndisturbedReclaimsAreSafe

\* Nor does acquire, _reclaim_stale_lock or release then take the owner.json of a
\* living process away, unless that process is releasing its lease.
THEOREM UndisturbedReclaimsSpareTheLiving ==
  Spec /\ []ReclaimsAreUndisturbed =>
    [][TakesRecord => ~PidIsAlive(metadata) \/ pc[metadata.agent] \in Releasing]_vars
<1>1. LeaseInv /\ [Next]_vars =>
        [TakesRecord => ~PidIsAlive(metadata) \/ pc[metadata.agent] \in Releasing]_vars
  BY RecordsOfTheLivingStay
<1> QED
  BY <1>1, UndisturbedLease, PTL DEF Spec

\* The calls on the files then implement the lock that the login flow and the
\* worker count on: a browser is launched only when no other one is running.
THEOREM UndisturbedReclaimsLock == Spec /\ []ReclaimsAreUndisturbed => Lock!LockSpec
<1>1. Init => Lock!LockInit
  BY DEF Init, Lock!LockInit, Holders
<1>2. LeaseInv /\ [Next]_vars => [Lock!LockNext]_Holders
  BY LockStep
<1> QED
  BY <1>1, <1>2, UndisturbedLease, PTL DEF Spec, Lock!LockSpec

LEMMA TwoEarly ==
  ASSUME TwoAgents
  PROVE  Spec => [](Typed /\ Early)
<1>1. Init => Typed /\ Early
  BY TypedInit, EarlyInit
<1>2. (Typed /\ Early) /\ [Next]_vars => (Typed /\ Early)'
  BY TypedStep, EarlyStep
<1> QED
  BY <1>1, <1>2, PTL DEF Spec

\* The API and one worker, as they are deployed: until one of them is restarted,
\* the lock of a profile names the process that has a browser on it, wherever the
\* other one is in its calls and even if it is killed there.
THEOREM TwoHoldersAreLocked ==
  ASSUME TwoAgents
  PROVE  Spec => []HeldProfileIsLocked
<1>1. Early => HeldProfileIsLocked
  BY LeaseIsKept DEF Early, HeldProfileIsLocked
<1> QED
  BY <1>1, TwoEarly, PTL

\* Until then _reclaim_stale_lock removes no lock but one whose owner is dead: a
\* young lock without owner.json is spared, and an old one has nobody.
THEOREM TwoSpareTheLiving ==
  ASSUME TwoAgents
  PROVE  Spec => LocksOfTheLivingStay
<1>1. Early /\ [Next]_vars =>
        [NoRestart /\ metadata # None /\ metadata' # metadata =>
           \/ ~PidIsAlive(metadata)
           \/ pc[metadata.agent] \in Releasing]_vars
  BY RecordsOfTheLivingStay DEF Early, TakesRecord
<1> QED
  BY <1>1, TwoEarly, PTL DEF Spec, LocksOfTheLivingStay

\* Until then the directory with its owner.json is a lock.
THEOREM TwoActAsLock ==
  ASSUME TwoAgents
  PROVE  Spec => ActsAsLock
<1>1. Init => Lock!LockInit
  BY DEF Init, Lock!LockInit, Holders
<1>2. Early /\ [Next]_vars => [NoRestart => [Lock!LockNext]_Holders]_vars
  BY LockStep DEF Early
<1> QED
  BY <1>1, <1>2, TwoEarly, PTL DEF Spec, ActsAsLock

=============================================================================
