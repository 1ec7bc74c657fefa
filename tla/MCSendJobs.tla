----------------------------- MODULE MCSendJobs ------------------------------
(***************************************************************************)
(* Small instances of SendJobs for TLC.                                    *)
(***************************************************************************)
EXTENDS SendJobs, TLC

CONSTANTS a1, a2, a3

MCAccounts == {a1, a2, a3}

\* Names of which none has another one in it, ...
MCDistinct == (a1 :> <<1>>) @@ (a2 :> <<2, 3>>) @@ (a3 :> <<3, 2>>)
\* ... the first of which is the start of the second, ...
MCNested == (a1 :> <<1>>) @@ (a2 :> <<1, 2>>) @@ (a3 :> <<3>>)
\* ... and of which two are the same.
MCNamesakes == (a1 :> <<1>>) @@ (a2 :> <<1>>) @@ (a3 :> <<3>>)

\* A search for a1 or a2 shows a3 as well, in a list of no known kind; ...
MCRelated == (a1 :> {a3}) @@ (a2 :> {a3}) @@ (a3 :> {})
\* ... one for a1 shows the friend a2; ...
MCRelatedFriend == (a1 :> {a2}) @@ (a2 :> {}) @@ (a3 :> {})
\* ... none shows anybody else.
MCUnrelated == [a \in MCAccounts |-> {}]

MCSurface == (a1 :> 45) @@ (a2 :> 45) @@ (a3 :> 5)
MCRecipients == {<<a1, a2>>, <<a2, a1>>, <<a1>>, <<a3>>}

=============================================================================
