---------------------------- MODULE GlobalMounts ----------------------------
(***************************************************************************)
(* The global mounts of IAM volumes (publishIAMVolume and                  *)
(* cleanUpIAMReferenceForKey in pkg/csi_driver/node.go) are shared mounts: *)
(* the reference files are the record of their users.                      *)
(***************************************************************************)
EXTENDS NodeServer

Shared ==
  INSTANCE SharedMount WITH Names <- Keys, Users <- Pods, mount <- global, holders <- refs

\* Whatever publishes, unpublishes, failures, restarts and reboots do at the
\* same time, a pod gets a reference only to a global mount that is there, and
\* a global mount is taken down only when no reference is left, unless it is
\* corrupted.
ImplementsSharedMount == Shared!Spec
=============================================================================
