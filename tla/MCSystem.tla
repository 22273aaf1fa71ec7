------------------------------- MODULE MCSystem -------------------------------
(***************************************************************************)
(* Small instances of System for TLC.                                      *)
(***************************************************************************)
EXTENDS System
===============================================================================
