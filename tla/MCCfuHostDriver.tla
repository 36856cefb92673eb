---------------------------- MODULE MCCfuHostDriver ----------------------------
(* Small instances of CfuHostDriver; see README.md for the bounds. *)
EXTENDS CfuHostDriver, TLC
===============================================================================
