--------------------------- MODULE LabelController ---------------------------
(***************************************************************************)
(* The label controller (pkg/labelcontroller/label_controller.go) next to  *)
(* the controller service, on the same instances.                          *)
(*                                                                         *)
(* The label controller puts a label on the instance of every persistent   *)
(* volume (PV) that the driver did not create, so that one can tell which  *)
(* instances clusters use.  Its only worker takes a PV from a work queue,  *)
(* reads the instance, and writes back its labels with one more.  Meanwhile*)
(* the service resizes and deletes instances and users change labels.      *)
(*                                                                         *)
(* The work queue, the watch, the periodic resync and the leader election  *)
(* are external (controller-runtime): an error of Reconcile puts the PV    *)
(* back on the queue, and a lost lease ends the controller.                *)
(***************************************************************************)
EXTENDS Controller

VARIABLES
  queue,  \* the PVs to reconcile
  at,     \* where the worker is; "stopped" when the controller has ended
  pv,     \* the PV it works on
  write,  \* the labels it is going to write
  keep    \* of each instance: labels that nobody meant to remove

worker == <<at, pv, write>>
allvars == <<vars, queue, worker, keep>>

HasPV(v) == phase[v] \in {"bound", "released"}

AllInit ==
  /\ Init
  /\ queue = {v \in Volumes : HasPV(v)}
  /\ at = "idle" /\ pv = None /\ write = {}
  /\ keep = [i \in Instances |-> {}]

-----------------------------------------------------------------------------
(* Reconcile.                                                              *)

Done ==
  /\ at' = "idle" /\ pv' = None /\ write' = {}
  /\ UNCHANGED queue

\* Reconcile returns an error; the PV is tried again.
Retry ==
  /\ at' = "idle" /\ pv' = None /\ write' = {}
  /\ queue' = queue \cup {pv}

Unchanged == UNCHANGED <<vars, keep>>
FaultOnly == Fault /\ UNCHANGED <<kube, cloud, locks, calls, keep>>

\* The PV is read.  One that no longer exists is done with.
Reconcile ==
  /\ at = "idle"
  /\ \E v \in queue :
       \/ /\ queue' = queue \ {v}
          /\ IF HasPV(v) THEN at' = "get" /\ pv' = v ELSE UNCHANGED <<at, pv>>
          /\ UNCHANGED write /\ Unchanged
       \/ FaultOnly /\ UNCHANGED <<queue, worker>>

\* Mutant: an instance with any label at all is left alone.
AnyLabel(i) == labels[i] # {}

Labeled(i) == {"managed-by", "created-by"} \cap labels[i] # {}

\* GetInstance.  An instance that is not found, that the driver may not read, or
\* that has the label is done with; other errors are tried again.
GetInstance ==
  /\ at = "get"
  /\ \/ /\ inst[Home(pv)] = "none" \/ Labeled(Home(pv))
        /\ Done /\ Unchanged
     \/ /\ inst[Home(pv)] # "none" /\ ~Labeled(Home(pv))
        /\ write' = labels[Home(pv)] \cup {"managed-by"}
        /\ at' = "update"
        /\ UNCHANGED <<queue, pv>> /\ Unchanged
     \/ FaultOnly /\ (Done \/ Retry)

\* UpdateInstance: the service refuses an instance that is not active, else
\* starts an operation.  The answer may be lost after that.
UpdateInstance ==
  /\ at = "update"
  /\ \/ /\ inst[Home(pv)] = "ACTIVE"
        /\ updates' = [updates EXCEPT ![Home(pv)] = @ \cup {Update({"labels"}, 0, write)}]
        /\ \/ at' = "wait" /\ UNCHANGED <<queue, pv, write, faults>>
           \/ Fault /\ Retry
        /\ UNCHANGED <<kube, inst, cap, fs, labels, createOp, creates, locks, calls, keep>>
     \/ inst[Home(pv)] # "ACTIVE" /\ Retry /\ Unchanged
     \/ FaultOnly /\ Retry

\* op.Wait: the update is done, or it failed, or a poll fails.
WaitUpdate ==
  /\ at = "wait"
  /\ \/ /\ Update({"labels"}, 0, write) \notin updates[Home(pv)]
        /\ IF "managed-by" \in labels[Home(pv)] THEN Done ELSE Retry
        /\ Unchanged
     \/ FaultOnly /\ Retry

Worker == Reconcile \/ GetInstance \/ UpdateInstance \/ WaitUpdate

\* The lease is lost: mgr.Start returns an error, which main only logs.
LoseLease ==
  /\ at # "stopped" /\ FaultOnly
  /\ at' = "stopped" /\ pv' = None /\ write' = {} /\ queue' = {}

\* Every ten hours all PVs are put on the queue; it has been empty for long.
Resync ==
  /\ at = "idle" /\ queue = {}
  /\ queue' = {v \in Volumes : HasPV(v)}
  /\ UNCHANGED worker /\ Unchanged

-----------------------------------------------------------------------------
(* The controllers together, and the users of the service.                 *)

\* The PVs that appear, change or go are put on the queue.
Watch ==
  queue' = IF at = "stopped" THEN {}
           ELSE queue \cup {v \in Volumes : phase'[v] # phase[v] /\ (HasPV(v) \/ HasPV(v)')}

\* The labels of a new instance, and nothing of one that is gone, are to keep.
KeepLabels ==
  keep' = [i \in Instances |->
             CASE inst'[i] = "none" -> {}
               [] inst'[i] # "none" /\ inst[i] = "none" -> labels'[i]
               [] OTHER -> keep[i]]

ControllerWork == Work /\ Watch /\ KeepLabels /\ UNCHANGED worker

\* Both controllers are in one process.  The new one lists all PVs.
ProcessRestart ==
  /\ Restart
  /\ at' = "idle" /\ pv' = None /\ write' = {}
  /\ queue' = {v \in Volumes : HasPV(v)}
  /\ UNCHANGED keep

\* The worker or an operation holds labels read earlier.
Stale(i) ==
  \/ at = "update" /\ Home(pv) = i
  \/ \E u \in updates[i] : "labels" \in u.mask

\* A user labels an instance.  This label is lost when a write of labels read
\* earlier is on its way; any other is to keep.
UserLabels(i) ==
  /\ inst[i] = "ACTIVE" /\ "user" \notin labels[i]
  /\ labels' = [labels EXCEPT ![i] = @ \cup {"user"}]
  /\ keep' = IF Stale(i) THEN keep ELSE [keep EXCEPT ![i] = @ \cup {"user"}]
  /\ UNCHANGED <<kube, inst, cap, fs, createOp, updates, creates, locks, calls, faults>>
  /\ UNCHANGED <<queue, worker>>

AllNext ==
  \/ ControllerWork \/ ProcessRestart
  \/ Worker \/ LoseLease \/ Resync
  \/ \E i \in Instances : UserLabels(i)

\* The worker runs, takes every PV of its queue in turn, and resyncs.
AllSpec ==
  /\ AllInit /\ [][AllNext]_allvars
  /\ Fairness
  /\ WF_allvars(Worker) /\ WF_allvars(Resync)

-----------------------------------------------------------------------------
(* Properties.                                                             *)

AllTypeOK ==
  /\ TypeOK
  /\ queue \subseteq Volumes
  /\ at \in {"idle", "get", "update", "wait", "stopped"}
  /\ pv \in Volumes \cup {None}
  /\ write \subseteq Labels
  /\ keep \in [Instances -> SUBSET Labels]

\* A label is not lost to the driver, except one that a user sets between the
\* label controller's read of the labels and the end of its write: neither the
\* label controller nor an expansion running at the same time removes it.
LabelsKept == \A i \in Instances : inst[i] # "none" => keep[i] \subseteq labels[i]

\* Every instance in use gets a label of the driver, whatever fails on the way,
\* unless the label controller ended.
LabeledInTime ==
  \A v \in Volumes :
    phase[v] = "bound" ~> \/ phase[v] # "bound" \/ at = "stopped"
                          \/ {"managed-by", "created-by"} \cap labels[Home(v)] # {}
=============================================================================
