----------------------------- MODULE MCMultiNIC -----------------------------
(***************************************************************************)
(* Instances of MultiNIC for model checking.                               *)
(***************************************************************************)
EXTENDS MultiNIC

CONSTANTS eth1, eth2

TwoNics == <<eth1, eth2>>
=============================================================================
