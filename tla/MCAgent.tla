------------------------------ MODULE MCAgent ------------------------------
(***************************************************************************)
(* The instances of Agent that TLC checks.                                 *)
(***************************************************************************)
EXTENDS Agent
=============================================================================
