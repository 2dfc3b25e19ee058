----------------------------- MODULE MCAccounts -----------------------------
(* Accounts for TLC: names and requests are interchangeable.               *)
EXTENDS Accounts, TLC

Symmetry == Permutations(Usernames) \union Permutations(Requests)

=============================================================================
