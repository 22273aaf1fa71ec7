--------------------------- MODULE MCBufferedClient ---------------------------
(***************************************************************************)
(* Small instances of BufferedClient for TLC.                              *)
(***************************************************************************)
EXTENDS BufferedClient
===============================================================================
