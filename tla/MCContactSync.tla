---------------------------- MODULE MCContactSync ----------------------------
(***************************************************************************)
(* Small instances of ContactSync for TLC: lists of rows of 160 pixels, in *)
(* a viewport that shows two or three of them.                             *)
(***************************************************************************)
EXTENDS ContactSync

MCKeys == 1..10
MCRowEdge == [i \in 0..10 |-> 160 * i]

\* Lists longer than two viewports, with and without a gap, and no list.
MCLists == {<<1, 2, 3, 4, 5, 6, 7, 8, 9, 10>>, <<1, 2, 4, 5, 6, 7>>, <<2, 3>>, << >>}

\* All rows at once, on a page that works or breaks; a viewport of rows at a
\* time, up to three snapshots late; ...
MCSites == {[rows |-> 10, lag |-> 0, breaks |-> b] : b \in BOOLEAN}
             \cup {[rows |-> 2, lag |-> 3, breaks |-> FALSE]}
\* ... and more than a viewport of rows, a snapshot late.
MCLateSites == {[rows |-> 3, lag |-> 1, breaks |-> FALSE]}

=============================================================================
