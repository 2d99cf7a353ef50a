------------------------------ MODULE MCGateway ------------------------------
(***************************************************************************)
(* Instances of Gateway for TLC. *)
(***************************************************************************)
EXTENDS Gateway, TLC

CONSTANTS k1, w1, w2
==============================================================================
