--------------------------- MODULE WorkspaceSlots ---------------------------
(***************************************************************************)
(* What the job queue promises to the people of a workspace, with no       *)
(* transactions, leases or workers in sight: a workspace has one slot for  *)
(* browser automation, a job is opened only in a free slot, an open job is *)
(* closed, and a closed job stays closed.                                  *)
(***************************************************************************)
CONSTANTS Workspaces,  \* tenants; each owns one Zalo browser profile
          Jobs,        \* identities of automation jobs
          None         \* the home of a job that does not exist yet

VARIABLES phase,       \* phase[j]: the job does not exist yet, is open, is closed
          home         \* home[j]: the workspace the job belongs to

slotVars == <<phase, home>>

SlotInit ==
  /\ phase = [j \in Jobs |-> "none"]
  /\ home = [j \in Jobs |-> None]

\* A job is accepted: nothing else is open in its workspace.
Open(j, ws) ==
  /\ phase[j] = "none"
  /\ \A i \in Jobs : phase[i] = "open" => home[i] # ws
  /\ phase' = [phase EXCEPT ![j] = "open"]
  /\ home' = [home EXCEPT ![j] = ws]

\* A set of open jobs comes to an end (the expiry sweep ends several at once).
Close(ended) ==
  /\ \A j \in ended : phase[j] = "open"
  /\ phase' = [j \in Jobs |-> IF j \in ended THEN "closed" ELSE phase[j]]
  /\ UNCHANGED home

SlotNext ==
  \/ \E j \in Jobs, ws \in Workspaces : Open(j, ws)
  \/ \E ended \in SUBSET Jobs : Close(ended)

SlotSpec == SlotInit /\ [][SlotNext]_slotVars

=============================================================================
