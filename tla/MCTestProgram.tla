---------------------------- MODULE MCTestProgram ---------------------------
(* TestProgram on a small instance                                         *)
EXTENDS TestProgram
=============================================================================
