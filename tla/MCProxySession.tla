--------------------------- MODULE MCProxySession ---------------------------
(* Model-checking instance of ProxySession.                                *)
EXTENDS ProxySession
=============================================================================
