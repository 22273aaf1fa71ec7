----------------------------- MODULE MCSubscriber -----------------------------
(***************************************************************************)
(* Small instances of SubscriberClient for TLC.                            *)
(***************************************************************************)
EXTENDS SubscriberClient
===============================================================================
