--------------------------- MODULE MCProfileLease ---------------------------
(***************************************************************************)
(* Small instances of ProfileLease for TLC.                                *)
(***************************************************************************)
EXTENDS ProfileLease, TLC

CONSTANTS api, worker

=============================================================================
