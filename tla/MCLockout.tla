------------------------------ MODULE MCLockout ------------------------------
(* Instance of Lockout for TLC.                                              *)
EXTENDS Lockout
=============================================================================
