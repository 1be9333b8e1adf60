---------------------------- MODULE MCTimerQueue ----------------------------
(* Model-checking instances of TimerQueue.                                 *)
EXTENDS TimerQueue, TLC
=============================================================================
