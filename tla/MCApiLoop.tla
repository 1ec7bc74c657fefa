------------------------------ MODULE MCApiLoop ------------------------------
(***************************************************************************)
(* Small instances of ApiLoop for TLC: an API process and two workers.     *)
(***************************************************************************)
EXTENDS ApiLoop

CONSTANTS api, worker, other,  \* the processes
          a1, a2, v,           \* two requests, a login watcher
          k, n, o,             \* the loop of a worker and its renewal task, another's loop
          row1, row2, row3, row4

MCProcess ==
  [x \in Coroutines |-> IF x \in {k, n} THEN worker ELSE IF x = o THEN other ELSE api]

\* Requests and watcher of different workspaces; the workers write the rows of
\* the first two.
MCApart ==
  [x \in Coroutines |-> IF x \in {a1, k} THEN row1 ELSE IF x \in {a2, o} THEN row2
                        ELSE IF x = v THEN row3 ELSE row4]

\* Two API processes with two requests each, and each row wanted in both.
MCTwoApis == [x \in Coroutines |-> IF x \in {v, k} THEN other ELSE api]
MCCrossed == [x \in Coroutines |-> IF x \in {a1, k} THEN row1 ELSE row2]

\* A double click: both requests want the row of one workspace.
MCTogether == [x \in Coroutines |-> row1]

=============================================================================
