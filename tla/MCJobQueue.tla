----------------------------- MODULE MCJobQueue -----------------------------
(***************************************************************************)
(* Small instances of JobQueue for TLC.                                    *)
(***************************************************************************)
EXTENDS JobQueue, TLC

CONSTANTS ws1, ws2, w1, w2, r1, r2, c1

\* Every campaign of the instances lives in the first workspace.
MCHome == [c \in Campaigns |-> ws1]

\* Workers and requests are interchangeable.
MCSymmetry == Permutations(Workers) \cup Permutations(Requests)

=============================================================================
