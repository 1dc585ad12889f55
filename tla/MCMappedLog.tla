----------------------------- MODULE MCMappedLog ----------------------------
(* MappedLog on a small instance.                                          *)
EXTENDS MappedLog

Terminating == mode \in {"end", "exit"} /\ UNCHANGED logVars

MCSpec == LogInit /\ [][LogNext \/ Terminating]_logVars
=============================================================================
