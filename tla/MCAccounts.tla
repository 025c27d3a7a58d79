----------------------------- MODULE MCAccounts -----------------------------
(* Instance of Accounts for TLC.                                             *)
EXTENDS Accounts, TLC

RequestSymmetry == Permutations(Requests)
=============================================================================
