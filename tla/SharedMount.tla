----------------------------- MODULE SharedMount -----------------------------
(***************************************************************************)
(* Mounts with several users each, as the pods of one principal may rely   *)
(* on them: a mount is made before it is used, and it is taken down only   *)
(* when nobody uses it.  Only a corrupted mount is replaced under its      *)
(* users, and only a reboot takes mounts away from them.                   *)
(***************************************************************************)

CONSTANTS Names, Users

VARIABLES
  mount,   \* "none", "ok" or "bad" (corrupted)
  holders  \* the users of each mount

vars == <<mount, holders>>

Init ==
  /\ mount = [k \in Names |-> "none"]
  /\ holders = [k \in Names |-> {}]

Mount(k) == mount' = [mount EXCEPT ![k] = "ok"] /\ UNCHANGED holders

Detach(k) ==
  /\ mount[k] = "bad"
  /\ mount' = [mount EXCEPT ![k] = "none"]
  /\ UNCHANGED holders

Hold(k, u) ==
  /\ mount[k] # "none"
  /\ holders' = [holders EXCEPT ![k] = @ \cup {u}]
  /\ UNCHANGED mount

Leave(k, u) ==
  /\ holders' = [holders EXCEPT ![k] = @ \ {u}]
  /\ UNCHANGED mount

Unmount(k) ==
  /\ holders[k] = {}
  /\ mount' = [mount EXCEPT ![k] = "none"]
  /\ UNCHANGED holders

\* The file systems of some mounts become unreachable.
Corrupt(S) ==
  /\ mount' = [k \in Names |-> IF k \in S /\ mount[k] # "none" THEN "bad" ELSE mount[k]]
  /\ UNCHANGED holders

Reboot == mount' = [k \in Names |-> "none"] /\ UNCHANGED holders

Next ==
  \/ \E k \in Names : Mount(k) \/ Detach(k) \/ Unmount(k)
  \/ \E k \in Names, u \in Users : Hold(k, u) \/ Leave(k, u)
  \/ \E S \in SUBSET Names : Corrupt(S)
  \/ Reboot

Spec == Init /\ [][Next]_vars
=============================================================================
