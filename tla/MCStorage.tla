------------------------------ MODULE MCStorage ------------------------------
(* Instance of Storage for TLC.                                              *)
EXTENDS Storage
=============================================================================
