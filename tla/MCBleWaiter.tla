---------------------------- MODULE MCBleWaiter -----------------------------
(***************************************************************************)
(* Instances of BleWaiter for TLC.                                         *)
(***************************************************************************)
EXTENDS BleWaiter
=============================================================================
