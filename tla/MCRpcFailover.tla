--------------------------- MODULE MCRpcFailover ---------------------------
(* A primary and three fallbacks.                                          *)
EXTENDS RpcFailover
=============================================================================
