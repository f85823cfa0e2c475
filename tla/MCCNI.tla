------------------------------- MODULE MCCNI --------------------------------
(* Small instances of CNI for TLC. *)
EXTENDS CNI
=============================================================================
