---------------------------- MODULE MCRpcClients ----------------------------
(* Instances of RpcClients for TLC.                                        *)
EXTENDS RpcClients

CONSTANTS h1
=============================================================================
