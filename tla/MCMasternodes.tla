---------------------------- MODULE MCMasternodes ----------------------------
(***************************************************************************)
(* Values for TLC: one handler and two broadcasts.  A ping that is fresh   *)
(* is never expired and an expired masternode is removed a unit later, as  *)
(* one hour, two hours and 130 minutes are ordered in the code.            *)
(***************************************************************************)
EXTENDS Masternodes, TLC

CONSTANTS wire
===============================================================================
