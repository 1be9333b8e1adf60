-------------------------- MODULE MCSysMetricsDaemon --------------------------
(* Model-checking instance of SysMetricsDaemon.                            *)
EXTENDS SysMetricsDaemon
===============================================================================
