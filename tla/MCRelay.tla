------------------------------ MODULE MCRelay -------------------------------
(* Relay on a small instance; 11 is no multiple of the threads             *)
EXTENDS Relay
=============================================================================
