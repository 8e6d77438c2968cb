---------------------------- MODULE MCNodeServer ----------------------------
(***************************************************************************)
(* Instances of NodeServer for model checking.                             *)
(***************************************************************************)
EXTENDS GlobalMounts, TLC

\* Pods of one service account share a key per volume.
KeyPerVolume == [t \in Targets |-> t[2]]

DistinctFS == [v \in Volumes |-> v]
SameFS     == [v \in Volumes |-> "fs"]

\* Two pods share one volume, one of them uses the other volume as well.
AllButOne == Targets \ {CHOOSE t \in Targets : TRUE}

HandlerSymmetry == Permutations(Handlers)
=============================================================================
