------------------------------ MODULE MCMRUDP ------------------------------
(* MRUDP on a small instance. *)
EXTENDS MRUDPInv
=============================================================================
