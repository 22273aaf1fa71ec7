------------------------------- MODULE MCPubSub -------------------------------
(***************************************************************************)
(* Small instances of PubSub for TLC.                                      *)
(***************************************************************************)
EXTENDS PubSub
===============================================================================
