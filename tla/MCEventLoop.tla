---------------------------- MODULE MCEventLoop ----------------------------
(* Model-checking instances of EventLoop.                                  *)
EXTENDS EventLoop
=============================================================================
