----------------------------- MODULE MCSessions -----------------------------
(* Instance of Sessions for TLC.                                             *)
EXTENDS Sessions, TLC

AnySymmetry == Permutations(Requests) \cup Permutations(Users) \cup Permutations(Emails)
=============================================================================
