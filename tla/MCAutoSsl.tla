------------------------------ MODULE MCAutoSsl ------------------------------
(* Instances of AutoSsl for TLC. *)
EXTENDS AutoSsl

CONSTANTS d1, d2
=============================================================================
