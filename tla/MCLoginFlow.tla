----------------------------- MODULE MCLoginFlow -----------------------------
(***************************************************************************)
(* Small instances of LoginFlow for TLC.                                   *)
(***************************************************************************)
EXTENDS LoginFlow

CONSTANTS w1, w2, r1, r2, r3

=============================================================================
