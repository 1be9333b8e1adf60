----------------------------- MODULE MCTcpServer -----------------------------
(* Model-checking instances of TcpServer.                                  *)
EXTENDS TcpServer, TLC

CONSTANTS l1, l2

RoundRobin == (l1 :> l2) @@ (l2 :> l1)

=============================================================================
