------------------------- MODULE ControllerInvariant -------------------------
(***************************************************************************)
(* What is true in every state of the controllers: the inductive invariant *)
(* behind the safety properties of Controller and LabelController.         *)
(*                                                                         *)
(* The zone of a volume is chosen on every call of CreateVolume, so there  *)
(* may be instances of one volume in several zones.  The one the volume    *)
(* was led to last is the one that calls, the service and Kubernetes have  *)
(* to agree on; of the others, nobody makes use any more.                  *)
(***************************************************************************)
EXTENDS LabelController

Busy(h) == pc[h] # "idle"

Resizes(u) == "capacity_gib" \in u.mask

\* The volume was led to this instance last; it was handed out with it.
Led(i)  == i[1] = home[i[2]]
Used(i) == Led(i) /\ HadPV(i[2])

-----------------------------------------------------------------------------

\* What Kubernetes does with a volume.
KubeInv(v) ==
  /\ HadPV(v) => home[v] \in Zones /\ want[v] \in Requests /\ Valid(want[v])
  /\ v \in static => phase[v] = "bound"
  /\ phase[v] = "abandoned" => heard[v] # "again"

\* How an instance and its create operation go together.  The operation stays
\* listed, so it tells whether there ever was a creation.
CreationInv(i) ==
  /\ creates[i] \in {0, 1}
  /\ creates[i] = 0 <=> createOp[i] = "none"
  /\ createOp[i] = "none" => inst[i] = "none" \/ (Used(i) /\ i[2] \in static)
  /\ createOp[i] = "running" <=> inst[i] = "CREATING"
  /\ createOp[i] = "failed" => inst[i] = "none"
  /\ i[2] \in static => createOp[i] = "none"

\* What there is of an instance, and what Kubernetes does with its volume.
PhaseInv(i) ==
  /\ ~Used(i) =>
       /\ inst[i] # "DELETING"
       /\ createOp[i] = "done" => inst[i] # "none"
       /\ Led(i) /\ heard[i[2]] \in {"nothing", "final"} => inst[i] = "none"
  /\ Used(i) =>
       /\ i[2] \in static \/ createOp[i] = "done"
       /\ phase[i[2]] = "bound" => inst[i] \in {"ACTIVE", "REPAIRING"}
       /\ phase[i[2]] = "gone" => inst[i] = "none"

\* An instance has one expansion in progress at most, and it leads to a capacity
\* between the present one and the one wanted.
UpdateInv(i) ==
  /\ inst[i] = "none" => cap[i] = 0
  /\ inst[i] = "none" \/ ~Used(i) => updates[i] = {}
  /\ Used(i) => cap[i] <= RequestGib(want[i[2]])
  /\ \A u \in updates[i] :
       Resizes(u) => cap[i] <= u.cap /\ u.cap <= RequestGib(want[i[2]])
  /\ \A u, w \in updates[i] : Resizes(u) /\ Resizes(w) => u.cap = w.cap

InstanceInv(i) == CreationInv(i) /\ PhaseInv(i) /\ UpdateInv(i)

\* What a handler has found out stays true while it has the volume's lock.
HandlerInv(h) ==
  /\ Busy(h) =>
       /\ vol[h] \in Volumes /\ zone[h] \in Zones
       /\ Led(At(h)) /\ KeyOf(h) \in locks
  /\ pc[h] \in CreatePCs =>
       /\ req[h] \in Requests /\ Valid(req[h])
       /\ phase[vol[h]] = "wanted" /\ heard[vol[h]] = "again"
  /\ pc[h] \in {"cOp", "cList", "cSend"} => inst[At(h)] = "none"
  /\ pc[h] \in {"cList", "cSend"} => createOp[At(h)] = "none"
  /\ pc[h] = "cSend" => pick[h] \in FSNames
  /\ pc[h] = "cWait" =>
       /\ createOp[At(h)] # "none"
       /\ inst[At(h)] # "none" => cap[At(h)] = RequestGib(req[h])
  /\ pc[h] \in DeletePCs => phase[vol[h]] = "released"
  /\ pc[h] \in ExpandPCs =>
       /\ req[h] \in Requests
       /\ phase[vol[h]] \in {"bound", "released"}
       /\ cap[At(h)] <= RequestGib(req[h])
       /\ RequestGib(req[h]) <= RequestGib(want[vol[h]])
       /\ \A u \in updates[At(h)] : Resizes(u) => u.cap <= RequestGib(req[h])
  /\ pc[h] = "eSend" => \A u \in updates[At(h)] : ~Resizes(u)

\* The locks keep the calls for a volume apart.
OneCallPerVolume ==
  \A g, h \in Handlers : Busy(g) /\ Busy(h) /\ vol[g] = vol[h] => g = h

CallsInv ==
  /\ TypeOK
  /\ \A v \in Volumes : KubeInv(v)
  /\ \A i \in Instances : InstanceInv(i)
  /\ \A h \in Handlers : HandlerInv(h)
  /\ OneCallPerVolume

\* The label controller works on volumes that had a PV.
WorkerInv == at \in {"get", "update", "wait"} => pv \in Volumes /\ HadPV(pv)

\* What a call of CreateVolume, DeleteVolume or ControllerExpandVolume has found
\* out about its volume stays true until it acts on it, and what there is of a
\* volume goes with what Kubernetes does with it: the inductive invariant.
ControllerInv == AllTypeOK /\ CallsInv /\ WorkerInv

\* What is to keep is on the instance and in every write of labels on its way.
LabelInv ==
  /\ \A i \in Instances :
       /\ inst[i] = "none" => keep[i] = {}
       /\ inst[i] # "none" => keep[i] \subseteq labels[i]
       /\ \A u \in updates[i] : "labels" \in u.mask => keep[i] \subseteq u.labels
  /\ at = "update" => keep[Home(pv)] \subseteq write
=============================================================================
