-------------------------------- MODULE MCDb --------------------------------
(***************************************************************************)
(* Small instances of Db for TLC.                                          *)
(***************************************************************************)
EXTENDS Db
=============================================================================
