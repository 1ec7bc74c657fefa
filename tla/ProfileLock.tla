----------------------------- MODULE ProfileLock -----------------------------
(***************************************************************************)
(* What a profile lease promises to those who launch browsers, with no     *)
(* files in sight: a lock.  LoginFlow takes its profiles to be such locks. *)
(***************************************************************************)
CONSTANT Agents   \* processes that launch browsers on this host

VARIABLE holders  \* those that hold the profile

LockInit == holders = {}

\* A process takes a profile that nobody has ...
Take(a) == holders = {} /\ holders' = {a}

\* ... and has it until it closes its browser or dies.
Leave(a) == a \in holders /\ holders' = holders \ {a}

LockNext == \E a \in Agents : Take(a) \/ Leave(a)

LockSpec == LockInit /\ [][LockNext]_holders

=============================================================================
