------------------------------- MODULE MCSync -------------------------------
(***************************************************************************)
(* Values for TLC: two sessions that may overlap, and the heights that     *)
(* tell the states of the state machine apart.                             *)
(***************************************************************************)
EXTENDS Sync, TLC

CONSTANTS s1, s2, ticker
=============================================================================
