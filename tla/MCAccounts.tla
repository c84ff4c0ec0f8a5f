----------------------------- MODULE MCAccounts -----------------------------
(***************************************************************************)
(* An instance of Accounts for TLC.                                        *)
(***************************************************************************)
EXTENDS Accounts, TLC

\* Calls of one kind are interchangeable.
Symmetry == Permutations(Seeds) \cup Permutations(Creates) \cup Permutations(Logins)
            \cup Permutations(Changes) \cup Permutations(Patches)

=============================================================================
