------------------------------- MODULE Volume -------------------------------
(***************************************************************************)
(* The life of volumes as Kubernetes may rely on it: what the controller   *)
(* service promises, without calls, locks, operations and retries.         *)
(*                                                                         *)
(* In any place storage is made at most once for a volume.  The volume is  *)
(* handed out when its storage in some place is ready and not before,      *)
(* keeps it until it is released, never gets smaller, and is reported      *)
(* deleted when that storage is gone and not before.  Storage made for it  *)
(* in another place is not promised to go.                                 *)
(***************************************************************************)
EXTENDS Naturals

CONSTANTS Volumes, Places, Nowhere

VARIABLES
  phase,   \* what Kubernetes does with the volume
  place,   \* where its storage is, from the time it is handed out
  stored,  \* what there is of the storage for a volume in a place
  size     \* its capacity, from the time it is handed out

vars == <<phase, place, stored, size>>

Here(v) == <<place[v], v>>

\* A volume is asked for, or was made by hand and is in use.
Init ==
  /\ phase \in [Volumes -> {"wanted", "bound"}]
  /\ place \in [Volumes -> Places \cup {Nowhere}]
  /\ \A v \in Volumes : phase[v] = "bound" <=> place[v] # Nowhere
  /\ stored = [i \in Places \X Volumes |-> IF i = Here(i[2]) THEN "ready" ELSE "never"]
  /\ size \in [Volumes -> Nat]
  /\ \A v \in Volumes : phase[v] = "wanted" => size[v] = 0

Move(v, from, to) == phase[v] = from /\ phase' = [phase EXCEPT ![v] = to]

Turn(i, from, to) == stored[i] = from /\ stored' = [stored EXCEPT ![i] = to]

\* The capacity becomes any other one.
Resize(v) == size'[v] \in Nat /\ size' = [size EXCEPT ![v] = size'[v]]

Make(i) ==
  /\ phase[i[2]] = "wanted" /\ Turn(i, "never", "making")
  /\ UNCHANGED <<phase, place, size>>

Finish(i) == Turn(i, "making", "ready") /\ UNCHANGED <<phase, place, size>>

\* The storage cannot be made; nothing is left of it.
Fail(i) == Turn(i, "making", "none") /\ UNCHANGED <<phase, place, size>>

HandOut(i) ==
  /\ stored[i] = "ready" /\ Move(i[2], "wanted", "bound")
  /\ place' = [place EXCEPT ![i[2]] = i[1]]
  /\ Resize(i[2]) /\ UNCHANGED stored

\* The volume is no longer wanted before it was handed out.
GiveUp(v) == Move(v, "wanted", "abandoned") /\ UNCHANGED <<place, stored, size>>

Grow(v) ==
  /\ phase[v] \in {"bound", "released"} /\ stored[Here(v)] = "ready"
  /\ Resize(v) /\ size'[v] > size[v]
  /\ UNCHANGED <<phase, place, stored>>

Release(v) == Move(v, "bound", "released") /\ UNCHANGED <<place, stored, size>>

Destroy(v) ==
  /\ phase[v] = "released" /\ Turn(Here(v), "ready", "none")
  /\ size' = [size EXCEPT ![v] = 0]
  /\ UNCHANGED <<phase, place>>

Delete(v) ==
  /\ Move(v, "released", "gone") /\ stored[Here(v)] = "none"
  /\ UNCHANGED <<place, stored, size>>

Next ==
  \/ \E i \in Places \X Volumes : Make(i) \/ Finish(i) \/ Fail(i) \/ HandOut(i)
  \/ \E v \in Volumes : GiveUp(v) \/ Grow(v) \/ Release(v) \/ Destroy(v) \/ Delete(v)

Spec == Init /\ [][Next]_vars
=============================================================================
