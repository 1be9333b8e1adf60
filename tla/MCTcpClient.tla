----------------------------- MODULE MCTcpClient -----------------------------
(* Model-checking instances of TcpClient.                                  *)
EXTENDS TcpClient
=============================================================================
