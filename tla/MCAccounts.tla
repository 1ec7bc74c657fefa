----------------------------- MODULE MCAccounts ------------------------------
(***************************************************************************)
(* Small instances of Accounts for TLC.                                    *)
(***************************************************************************)
EXTENDS Accounts, TLC

\* The second slug is what the second workspace of the first name gets.
MCNames == {<<1>>, <<1, 2>>}
\* Requests of one kind are alike, and so are e-mails.
MCSymmetry == Permutations(Requests) \cup Permutations(Emails)

=============================================================================
