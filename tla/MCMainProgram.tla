---------------------------- MODULE MCMainProgram ----------------------------
(* Model-checking instance of MainProgram.                                 *)
EXTENDS MainProgram
==============================================================================
