----------------------------- MODULE MCAccounts -----------------------------
(* Small instances of Accounts.                                            *)
EXTENDS Accounts, TLC

Symmetry == Permutations(Thread) \cup Permutations(Email) \cup Permutations(Password)
=============================================================================
