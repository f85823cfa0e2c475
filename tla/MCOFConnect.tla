---------------------------- MODULE MCOFConnect -----------------------------
(* Small instances of OFConnect for TLC. *)
EXTENDS OFConnect
=============================================================================
