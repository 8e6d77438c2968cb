----------------------------- MODULE MCNodeBoot -----------------------------
(***************************************************************************)
(* An instance of NodeBoot for model checking: a NIC of the primary's      *)
(* network beside the primary, and one of another network.                 *)
(***************************************************************************)
EXTENDS NodeBoot

ThreeNics == <<"eth0", "eth1", "eth2">>
VpcOfNic  == [n \in {"eth0", "eth1", "eth2"} |-> IF n = "eth2" THEN "b" ELSE "a"]
=============================================================================
