---------------------------- MODULE MCRateLimiter ----------------------------
(***************************************************************************)
(* A small instance of RateLimiter for TLC.                                *)
(***************************************************************************)
EXTENDS RateLimiter, TLC

CONSTANTS login, register, closed

MCBuckets == {login, register, closed}
MCLimit == (login :> 2) @@ (register :> 1) @@ (closed :> 0)

=============================================================================
