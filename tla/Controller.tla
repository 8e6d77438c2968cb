----------------------------- MODULE Controller -----------------------------
(***************************************************************************)
(* The controller service of the driver (pkg/csi_driver/controller.go) and *)
(* its client of the Lustre service (pkg/cloud_provider/lustre/lustre.go). *)
(*                                                                         *)
(* Handlers of CreateVolume, DeleteVolume and ControllerExpandVolume run   *)
(* concurrently.  Each takes a lock with TryAcquire and then calls the     *)
(* Lustre service several times; the service changes between two calls.    *)
(* Creating, updating and deleting an instance are long-running operations *)
(* of the service: they go on when the handler that started them gives up  *)
(* waiting (the sidecars cancel a call after 250 s, an expansion may take  *)
(* 90 minutes) or dies with the driver.                                    *)
(*                                                                         *)
(* The service is external: its operations finish or fail at any time, an  *)
(* instance whose creation fails is destroyed, and its operations stay     *)
(* listed.  Kubernetes is external as well: it retries a call until it     *)
(* succeeds, uses a volume only after CreateVolume returned it, deletes a  *)
(* volume only after it was used, and never reuses the name of a volume.   *)
(***************************************************************************)
EXTENDS Integers, Sequences, FiniteSets

CONSTANTS
  Volumes,      \* volume names; a volume's instance has its name
  Handlers,     \* goroutines serving calls
  Zones,
  RegionOf,     \* RegionOf[z]: the region of zone z
  DefaultZone,  \* the zone the driver runs in
  FSNames,      \* the names generateRandomID can return
  Requests,     \* what CreateVolume may be asked for
  Gib,          \* bytes in a GiB
  MinVolumeSizeBytes,
  MaxFaults,    \* bound on failing calls of the service and driver restarts
  None

\* The labels that matter: the driver's own and one of somebody else.
Labels == {"created-by", "managed-by", "user"}

\* A topology lists zones; None stands for a segment without a zone.
Topologies ==
  [preferred : Seq(Zones \cup {None}), requisite : Seq(Zones \cup {None})]

ASSUME ControllerAssumption ==
  /\ DefaultZone \in Zones
  /\ Gib \in Nat \ {0}
  /\ MinVolumeSizeBytes \in Nat
  /\ Requests \subseteq [required : Nat, limit : Nat, labels : SUBSET Labels,
                         fs : FSNames \cup {None}, top : Topologies \cup {None}]
  /\ MaxFaults \in Nat
  /\ None \notin Volumes /\ None \notin Zones /\ None \notin FSNames
  /\ None \notin Requests /\ None \notin Topologies

Instances == Zones \X Volumes

VARIABLES
  phase,     \* what Kubernetes does with a volume
  want,      \* the request it made
  home,      \* the zone of its last CreateVolume call, which its ID fixes
  heard,     \* the last answer to its CreateVolume calls
  static,    \* the volumes whose instance was made by hand
  inst,      \* state of each instance
  cap,       \* its capacity in GiB
  fs,        \* its file system name
  labels,    \* its labels
  createOp,  \* its create operation, as ListOperations shows it
  updates,   \* its update operations that are not done
  creates,   \* number of CreateInstance calls for it
  locks,     \* volumeLocks
  pc,        \* where each handler is
  vol,       \* the volume of its call
  zone,      \* the zone of its call
  req,       \* the request of its call
  pick,      \* the file system name it generated
  faults

kube  == <<phase, want, home, heard, static>>
cloud == <<inst, cap, fs, labels, createOp, updates, creates>>
calls == <<pc, vol, zone, req, pick>>
vars  == <<kube, cloud, locks, calls, faults>>

CreatePCs == {"cGet", "cOp", "cList", "cSend", "cWait"}
DeletePCs == {"dGet", "dSend", "dWait"}
ExpandPCs == {"eGet", "eOp", "eSend", "eWait"}

\* The instance a call is about, and the one a volume was led to last.
At(h)   == <<zone[h], vol[h]>>
Home(v) == <<home[v], v>>

\* CreateVolume locks the name of the volume, the other calls lock its ID.
Keys == ({"name"} \X Volumes) \cup Instances
KeyOf(h) == IF pc[h] \in CreatePCs THEN <<"name", vol[h]>> ELSE At(h)

-----------------------------------------------------------------------------
(* What a request asks for.                                                *)

BytesToGib(b) == b \div Gib

\* An invalid range is refused before anything happens.
ValidRange(r) ==
  /\ r.limit > 0 => r.limit >= MinVolumeSizeBytes
  /\ r.limit > 0 /\ r.required > 0 => r.limit >= r.required

getRequestCapacity(r) ==
  IF r.required > 0 THEN r.required ELSE MinVolumeSizeBytes

RequestGib(r) == BytesToGib(getRequestCapacity(r))

ElementsOf(s) == {s[i] : i \in DOMAIN s}

\* Every segment of a topology has a zone, and there is one.
ValidTopology(r) ==
  r.top # None =>
    /\ None \notin ElementsOf(r.top.preferred \o r.top.requisite)
    /\ r.top.preferred \o r.top.requisite # <<>>

\* The first preferred zone, or else the first one of the others.
pickZone(r) ==
  IF r.top = None THEN DefaultZone ELSE Head(r.top.preferred \o r.top.requisite)

Valid(r) == ValidRange(r) /\ ValidTopology(r)

\* A label of the storage class must not have a key of the driver.
ValidLabels(r) == "created-by" \notin r.labels

extractLabels(r) == {"created-by"} \cup r.labels

-----------------------------------------------------------------------------
(* A volume of the set static belongs to an instance that an administrator *)
(* made; its ID names that instance.  The others are still to be created.  *)

Init ==
  /\ static \in SUBSET Volumes
  /\ phase = [v \in Volumes |-> IF v \in static THEN "bound" ELSE "wanted"]
  /\ want \in {w \in [Volumes -> Requests \cup {None}] :
                 \A v \in Volumes : IF v \in static THEN w[v] # None /\ Valid(w[v])
                                                    ELSE w[v] = None}
  /\ home = [v \in Volumes |-> IF v \in static THEN pickZone(want[v]) ELSE None]
  /\ heard = [v \in Volumes |-> "nothing"]
  /\ inst = [i \in Instances |-> IF i[1] = home[i[2]] THEN "ACTIVE" ELSE "none"]
  /\ cap = [i \in Instances |-> IF i[1] = home[i[2]] THEN RequestGib(want[i[2]]) ELSE 0]
  /\ fs = [i \in Instances |-> None]
  /\ labels = [i \in Instances |-> {}]
  /\ createOp = [i \in Instances |-> "none"]
  /\ updates = [i \in Instances |-> {}]
  /\ creates = [i \in Instances |-> 0]
  /\ locks = {}
  /\ pc = [h \in Handlers |-> "idle"]
  /\ vol = [h \in Handlers |-> None]
  /\ zone = [h \in Handlers |-> None]
  /\ req = [h \in Handlers |-> None]
  /\ pick = [h \in Handlers |-> None]
  /\ faults = 0

-----------------------------------------------------------------------------
(* Handlers.                                                               *)

Fault == faults < MaxFaults /\ faults' = faults + 1

TryAcquire(k) == k \notin locks /\ locks' = locks \cup {k}

\* What remains of a call that has returned.
Forget(h) ==
  /\ pc' = [pc EXCEPT ![h] = "idle"]
  /\ vol' = [vol EXCEPT ![h] = None]
  /\ zone' = [zone EXCEPT ![h] = None]
  /\ req' = [req EXCEPT ![h] = None]
  /\ pick' = [pick EXCEPT ![h] = None]

\* Mutant: an early return without the deferred Release.
ReturnKeepingLock(h) ==
  /\ IF pc[h] \in {"cGet", "dGet"} THEN UNCHANGED locks ELSE locks' = locks \ {KeyOf(h)}
  /\ Forget(h)

\* The handler returns and its deferred Release runs.
Return(h) == locks' = locks \ {KeyOf(h)} /\ Forget(h)

Goto(h, l) == pc' = [pc EXCEPT ![h] = l] /\ UNCHANGED <<locks, vol, zone, req, pick>>

\* A call gets a handler of its own; which one is of no importance.
Start(h, l, v, z, r) ==
  /\ pc[h] = "idle" /\ h = CHOOSE k \in Handlers : pc[k] = "idle"
  /\ pc' = [pc EXCEPT ![h] = l]
  /\ vol' = [vol EXCEPT ![h] = v]
  /\ zone' = [zone EXCEPT ![h] = z]
  /\ req' = [req EXCEPT ![h] = r]
  /\ UNCHANGED <<pick, cloud, faults>>

\* The handler returns an error, or a success Kubernetes learns nothing from.
ReturnOnly(h) == Return(h) /\ UNCHANGED <<kube, cloud, faults>>

\* A call of the service fails without effect, or the call is cancelled.
Fails(h) == Fault /\ Return(h) /\ UNCHANGED <<kube, cloud>>

-----------------------------------------------------------------------------
(* Error codes.  csi-provisioner calls CreateVolume again after some of    *)
(* them.  After any other it takes the provisioning for finished: when the *)
(* claim is deleted, nobody calls DeleteVolume.                            *)

Retried(c) ==
  c \in {"Canceled", "DeadlineExceeded", "Unavailable", "ResourceExhausted", "Aborted"}

\* A call of the service is cut off by the context of the handler's call, is
\* refused for too many requests, or fails in another way.
Errors == {"context", "throttled", "other"}

\* Mutant: a cancelled call is not told from other errors.
codeWithoutContext(e) == IF e = "throttled" THEN "ResourceExhausted" ELSE "Internal"

\* Only 400, 403, 404 and 429 of the service have a code of their own; those of
\* the first three end the provisioning as Internal does, and so does a 503.
codeForError(e) ==
  CASE e = "context"   -> "DeadlineExceeded"
    [] e = "throttled" -> "ResourceExhausted"
    [] OTHER           -> "Internal"

\* CreateVolume answers with code c.  A last answer is "final" when the driver
\* itself has found out that nothing is to be had, "mismatch" when there is an
\* instance of another capacity (AlreadyExists), and "error" when an error of the
\* service is passed on, whatever it says of the instance.
Answer(h, c, verdict) ==
  /\ heard' = [heard EXCEPT ![vol[h]] = IF Retried(c) THEN "again" ELSE verdict]
  /\ Return(h)
  /\ UNCHANGED <<phase, want, home, static>>

PassOn(h, e) ==
  Answer(h, codeForError(e), IF e = "other" THEN "error" ELSE "final")

CreateFails(h) == Fault /\ (\E e \in Errors : PassOn(h, e)) /\ UNCHANGED cloud

-----------------------------------------------------------------------------
(* CreateVolume.                                                           *)

\* A request that is not valid is refused at once.  The capacity and topology of
\* a claim do not become invalid between two calls.
CreateVolume(h, v, r) ==
  /\ phase[v] = "wanted"
  /\ \/ /\ Valid(r)
        /\ TryAcquire(<<"name", v>>)
        /\ Start(h, "cGet", v, pickZone(r), r)
        /\ home' = [home EXCEPT ![v] = pickZone(r)]
        /\ heard' = [heard EXCEPT ![v] = "again"]
     \/ /\ ~Valid(r) /\ pc[h] = "idle" /\ heard[v] = "nothing"
        /\ heard' = [heard EXCEPT ![v] = "final"]
        /\ UNCHANGED <<home, cloud, locks, calls, faults>>
  /\ UNCHANGED <<phase, want, static>>

\* The response with the instance reaches Kubernetes.
CreateSucceeds(h) ==
  /\ phase' = [phase EXCEPT ![vol[h]] = "bound"]
  /\ want' = [want EXCEPT ![vol[h]] = req[h]]
  /\ home' = [home EXCEPT ![vol[h]] = zone[h]]
  /\ Return(h) /\ UNCHANGED <<heard, static, cloud, faults>>

\* Mutant: the capacity of the existing instance is not compared.
MatchesByName(h) == TRUE

CompareInstances(h) == cap[At(h)] = RequestGib(req[h])

\* Mutant: an instance that is still being created is returned.
CreateGetEager(h) ==
  /\ pc[h] = "cGet"
  /\ \/ /\ inst[At(h)] = "none"
        /\ Goto(h, "cOp") /\ UNCHANGED <<kube, cloud, faults>>
     \/ inst[At(h)] # "none" /\ CompareInstances(h) /\ CreateSucceeds(h)

\* The code for an instance that cannot be returned.
NotReady(h) ==
  CASE ~CompareInstances(h)       -> "AlreadyExists"
    [] inst[At(h)] = "CREATING"   -> "DeadlineExceeded"
    [] OTHER                      -> "Unavailable"

\* GetInstance, and what CreateVolume makes of an instance that exists.
CreateGet(h) ==
  /\ pc[h] = "cGet"
  /\ \/ /\ inst[At(h)] = "none"
        /\ Goto(h, "cOp") /\ UNCHANGED <<kube, cloud, faults>>
     \/ /\ inst[At(h)] # "none"
        /\ ~CompareInstances(h) \/ inst[At(h)] # "ACTIVE"
        /\ Answer(h, NotReady(h), IF CompareInstances(h) THEN "final" ELSE "mismatch")
        /\ UNCHANGED <<cloud, faults>>
     \/ inst[At(h)] = "ACTIVE" /\ CompareInstances(h) /\ CreateSucceeds(h)
     \/ CreateFails(h)

\* Mutant: the error of an earlier create operation is not looked at.
CreateOpIgnored(h) ==
  pc[h] = "cOp" /\ Goto(h, "cList") /\ UNCHANGED <<kube, cloud, faults>>

\* The code of a failed operation is passed on as it is.
OperationFailed(h) ==
  /\ \E c \in {"ResourceExhausted", "Internal"} : Answer(h, c, "final")
  /\ UNCHANGED <<cloud, faults>>

\* GetCreateInstanceOp: a failed creation is reported and not tried again.  Then
\* extractLabels, which may refuse the request.
CreateOp(h) ==
  /\ pc[h] = "cOp"
  /\ \/ createOp[At(h)] = "failed" /\ OperationFailed(h)
     \/ /\ createOp[At(h)] # "failed"
        /\ IF ValidLabels(req[h])
             THEN Goto(h, "cList") /\ UNCHANGED <<kube, cloud, faults>>
             ELSE Answer(h, "InvalidArgument", "final") /\ UNCHANGED <<cloud, faults>>
     \/ CreateFails(h)

\* Mutant: an error of generateUniqueFilesystemName is ignored.
CreateListIgnoringError(h) ==
  /\ pc[h] = "cList" /\ Fault
  /\ pick' = [pick EXCEPT ![h] = ""]
  /\ pc' = [pc EXCEPT ![h] = "cSend"]
  /\ UNCHANGED <<kube, cloud, locks, vol, zone, req>>

\* ListLocations, and ListInstance of each zone of the region: the names in use.
ListedNames(z) ==
  {fs[i] : i \in {j \in Instances : RegionOf[j[1]] = RegionOf[z]}}

\* generateUniqueFilesystemName: the name the storage class gives, or else some
\* name no listed instance has.
CreateList(h) ==
  /\ pc[h] = "cList"
  /\ \/ /\ pick' \in {[pick EXCEPT ![h] = f] :
                        f \in IF req[h].fs # None THEN {req[h].fs}
                                                  ELSE FSNames \ ListedNames(zone[h])}
        /\ pc' = [pc EXCEPT ![h] = "cSend"]
        /\ UNCHANGED <<kube, cloud, locks, vol, zone, req, faults>>
     \/ CreateFails(h)

\* CreateInstance: the service refuses a name in use, else starts an operation.
\* The answer may be lost after the operation has started.
CreateSend(h) ==
  /\ pc[h] = "cSend"
  /\ \/ /\ inst[At(h)] = "none"
        /\ inst' = [inst EXCEPT ![At(h)] = "CREATING"]
        /\ cap' = [cap EXCEPT ![At(h)] = RequestGib(req[h])]
        /\ fs' = [fs EXCEPT ![At(h)] = pick[h]]
        /\ labels' = [labels EXCEPT ![At(h)] = extractLabels(req[h])]
        /\ createOp' = [createOp EXCEPT ![At(h)] = "running"]
        /\ creates' = [creates EXCEPT ![At(h)] = @ + 1]
        /\ \/ Goto(h, "cWait") /\ UNCHANGED <<kube, faults>>
           \/ Fault /\ \E e \in Errors : PassOn(h, e)
        /\ UNCHANGED updates
     \/ CreateFails(h)

\* op.Wait: the operation ends, or the call is cancelled first, or a poll fails.
CreateWait(h) ==
  /\ pc[h] = "cWait"
  /\ \/ createOp[At(h)] = "done" /\ CreateSucceeds(h)
     \/ createOp[At(h)] = "failed" /\ OperationFailed(h)
     \/ PassOn(h, "context") /\ UNCHANGED <<cloud, faults>>
     \/ CreateFails(h)

-----------------------------------------------------------------------------
(* DeleteVolume.                                                           *)

DeleteVolume(h, v) ==
  /\ phase[v] = "released"
  /\ TryAcquire(Home(v))
  /\ Start(h, "dGet", v, home[v], None)
  /\ UNCHANGED kube

DeleteSucceeds(h) ==
  /\ phase' = [phase EXCEPT ![vol[h]] = "gone"]
  /\ Return(h) /\ UNCHANGED <<want, home, heard, static, cloud, faults>>

\* Mutant: a deletion in progress is taken for a finished one.
DeleteGetEager(h) ==
  /\ pc[h] = "dGet"
  /\ \/ inst[At(h)] \in {"none", "DELETING"} /\ DeleteSucceeds(h)
     \/ /\ inst[At(h)] \notin {"none", "DELETING"}
        /\ Goto(h, "dSend") /\ UNCHANGED <<kube, cloud, faults>>

DeleteGet(h) ==
  /\ pc[h] = "dGet"
  /\ \/ inst[At(h)] = "none" /\ DeleteSucceeds(h)
     \/ inst[At(h)] = "DELETING" /\ ReturnOnly(h)
     \/ /\ inst[At(h)] \notin {"none", "DELETING"}
        /\ Goto(h, "dSend") /\ UNCHANGED <<kube, cloud, faults>>
     \/ Fails(h)

\* DeleteInstance; the answer may be lost after the deletion has started.
DeleteSend(h) ==
  /\ pc[h] = "dSend"
  /\ \/ inst[At(h)] = "none" /\ DeleteSucceeds(h)
     \/ /\ inst[At(h)] # "none"
        /\ inst' = [inst EXCEPT ![At(h)] = "DELETING"]
        /\ \/ Goto(h, "dWait") /\ UNCHANGED faults
           \/ Fault /\ Return(h)
        /\ UNCHANGED <<kube, cap, fs, labels, createOp, updates, creates>>
     \/ Fails(h)

DeleteWait(h) ==
  /\ pc[h] = "dWait"
  /\ \/ inst[At(h)] = "none" /\ DeleteSucceeds(h)
     \/ ReturnOnly(h)

-----------------------------------------------------------------------------
(* ControllerExpandVolume.                                                 *)

ControllerExpandVolume(h, v) ==
  /\ phase[v] \in {"bound", "released"}
  /\ TryAcquire(Home(v))
  /\ Start(h, "eGet", v, home[v], want[v])
  /\ UNCHANGED kube

\* Mutant: the capacity range of the call is not looked at.
LargeEnoughForMinimum(h) == cap[At(h)] * Gib >= MinVolumeSizeBytes

LargeEnough(h) == cap[At(h)] * Gib >= getRequestCapacity(req[h])

\* GetInstance; an instance that is large enough is left alone.
ExpandGet(h) ==
  /\ pc[h] = "eGet"
  /\ \/ /\ inst[At(h)] # "ACTIVE" \/ LargeEnough(h)
        /\ ReturnOnly(h)
     \/ /\ inst[At(h)] = "ACTIVE" /\ ~LargeEnough(h)
        /\ Goto(h, "eOp") /\ UNCHANGED <<kube, cloud, faults>>
     \/ Fails(h)

\* Mutant: an expansion in progress is not noticed.
ExpandOpUnchecked(h) ==
  pc[h] = "eOp" /\ Goto(h, "eSend") /\ UNCHANGED <<kube, cloud, faults>>

\* IsOperationInProgress: only one update at a time.
ExpandOp(h) ==
  /\ pc[h] = "eOp"
  /\ \/ updates[At(h)] # {} /\ ReturnOnly(h)
     \/ /\ updates[At(h)] = {}
        /\ Goto(h, "eSend") /\ UNCHANGED <<kube, cloud, faults>>
     \/ Fails(h)

\* Mutant: the field mask is forgotten, so that every field is written.
UnmaskedUpdate(mask, c, l) == [mask |-> {"capacity_gib", "labels"}, cap |-> c, labels |-> l]

\* An update names the fields it writes.
Update(mask, c, l) == [mask |-> mask, cap |-> c, labels |-> l]

\* ResizeInstance: an update operation starts if the instance is active.
ExpandSend(h) ==
  /\ pc[h] = "eSend"
  /\ \/ /\ inst[At(h)] = "ACTIVE"
        /\ updates' = [updates EXCEPT ![At(h)] =
                         @ \cup {Update({"capacity_gib"}, RequestGib(req[h]), {})}]
        /\ \/ Goto(h, "eWait") /\ UNCHANGED faults
           \/ Fault /\ Return(h)
        /\ UNCHANGED <<kube, inst, cap, fs, labels, createOp, creates>>
     \/ inst[At(h)] # "ACTIVE" /\ ReturnOnly(h)
     \/ Fails(h)

\* op.Wait: returns when the update is done or the call is cancelled.
ExpandWait(h) == pc[h] = "eWait" /\ ReturnOnly(h)

-----------------------------------------------------------------------------
(* The Lustre service, Kubernetes, and restarts of the driver.             *)

FinishCreate(i) ==
  /\ inst[i] = "CREATING"
  /\ inst' = [inst EXCEPT ![i] = "ACTIVE"]
  /\ createOp' = [createOp EXCEPT ![i] = "done"]
  /\ UNCHANGED <<kube, cap, fs, labels, updates, creates, locks, calls, faults>>

\* Nothing is left of an instance.
Vanish(i) ==
  /\ inst' = [inst EXCEPT ![i] = "none"]
  /\ cap' = [cap EXCEPT ![i] = 0]
  /\ fs' = [fs EXCEPT ![i] = None]
  /\ labels' = [labels EXCEPT ![i] = {}]
  /\ updates' = [updates EXCEPT ![i] = {}]

\* The creation fails (a stockout, say) and the instance is destroyed.
FailCreate(i) ==
  /\ inst[i] = "CREATING"
  /\ Vanish(i)
  /\ createOp' = [createOp EXCEPT ![i] = "failed"]
  /\ UNCHANGED <<kube, creates, locks, calls, faults>>

\* An update ends; a failed one (a quota, say) leaves the instance alone.
FinishUpdate(i) ==
  \E u \in updates[i] :
    /\ updates' = [updates EXCEPT ![i] = @ \ {u}]
    /\ \/ /\ cap' = IF "capacity_gib" \in u.mask THEN [cap EXCEPT ![i] = u.cap] ELSE cap
          /\ labels' = IF "labels" \in u.mask THEN [labels EXCEPT ![i] = u.labels] ELSE labels
          /\ UNCHANGED faults
       \/ Fault /\ UNCHANGED <<cap, labels>>
    /\ UNCHANGED <<kube, inst, fs, createOp, creates, locks, calls>>

FinishDelete(i) ==
  /\ inst[i] = "DELETING"
  /\ Vanish(i)
  /\ UNCHANGED <<kube, createOp, creates, locks, calls, faults>>

\* The instance changes its state and nothing else.
Becomes(i, from, to) ==
  /\ inst[i] = from /\ inst' = [inst EXCEPT ![i] = to]
  /\ UNCHANGED <<kube, cap, fs, labels, createOp, updates, creates, locks, calls>>

\* An instance is not active for a while (REPAIRING, UPGRADING, STOPPED).
Suspend(i) == Fault /\ Becomes(i, "ACTIVE", "REPAIRING")

Resume(i) == Becomes(i, "REPAIRING", "ACTIVE") /\ UNCHANGED faults

\* A deletion fails and leaves the instance as it is.
FailDelete(i) == Fault /\ Becomes(i, "DELETING", "ACTIVE")

\* An operator deletes the instance of a released volume by hand.
OperatorDeletes(i) ==
  /\ i = Home(i[2]) /\ phase[i[2]] = "released"
  /\ Fault /\ Becomes(i, "ACTIVE", "DELETING")

\* The user asks for a larger volume.
Raise(v) ==
  /\ phase[v] = "bound"
  /\ \E r \in Requests :
       /\ Valid(r)
       /\ getRequestCapacity(r) > getRequestCapacity(want[v])
       /\ want' = [want EXCEPT ![v] = r]
  /\ UNCHANGED <<phase, home, heard, static, cloud, locks, calls, faults>>

\* Kubernetes moves on with a volume.
Moves(v, from, to) ==
  /\ phase[v] = from /\ phase' = [phase EXCEPT ![v] = to]
  /\ UNCHANGED <<want, home, heard, static, cloud, locks, calls, faults>>

\* The user is done with the volume; one made by hand is retained.
Release(v) == v \notin static /\ Moves(v, "bound", "released")

\* The claim is deleted and no call is expected to end with the volume.
GiveUp(v) == heard[v] # "again" /\ Moves(v, "wanted", "abandoned")

\* The driver restarts: calls and locks are lost, operations go on.
Restart ==
  /\ Fault
  /\ locks' = {}
  /\ pc' = [h \in Handlers |-> "idle"] /\ vol' = [h \in Handlers |-> None]
  /\ zone' = [h \in Handlers |-> None]
  /\ req' = [h \in Handlers |-> None] /\ pick' = [h \in Handlers |-> None]
  /\ UNCHANGED <<kube, cloud>>

Step(h) ==
  \/ CreateGet(h) \/ CreateOp(h) \/ CreateList(h) \/ CreateSend(h) \/ CreateWait(h)
  \/ DeleteGet(h) \/ DeleteSend(h) \/ DeleteWait(h)
  \/ ExpandGet(h) \/ ExpandOp(h) \/ ExpandSend(h) \/ ExpandWait(h)

Service(i) ==
  \/ FinishCreate(i) \/ FailCreate(i) \/ FinishUpdate(i) \/ FinishDelete(i)
  \/ Suspend(i) \/ Resume(i) \/ FailDelete(i) \/ OperatorDeletes(i)

\* Everything but a restart.
Work ==
  \/ \E h \in Handlers, v \in Volumes, r \in Requests : CreateVolume(h, v, r)
  \/ \E h \in Handlers, v \in Volumes :
       DeleteVolume(h, v) \/ ControllerExpandVolume(h, v)
  \/ \E h \in Handlers : Step(h)
  \/ \E i \in Instances : Service(i)
  \/ \E v \in Volumes : Raise(v) \/ Release(v) \/ GiveUp(v)

Next == Work \/ Restart

Spec == Init /\ [][Next]_vars

\* Handlers run, the service ends every operation, and Kubernetes repeats a call
\* for as long as it has not succeeded, with whatever request it has.
Fairness ==
  /\ \A h \in Handlers : WF_vars(Step(h))
  /\ \A i \in Instances :
       /\ WF_vars(FinishCreate(i) \/ FailCreate(i) \/ FinishDelete(i) \/ Resume(i))
       /\ WF_vars(FinishUpdate(i))
  /\ \A v \in Volumes :
       /\ SF_vars(\E h \in Handlers, r \in {q \in Requests : Valid(q)} : CreateVolume(h, v, r))
       /\ SF_vars(\E h \in Handlers : DeleteVolume(h, v))
       /\ SF_vars(\E h \in Handlers : ControllerExpandVolume(h, v))

-----------------------------------------------------------------------------
(* Properties.                                                             *)

Gibs == {RequestGib(r) : r \in Requests}

TypeOK ==
  /\ phase \in [Volumes -> {"wanted", "abandoned", "bound", "released", "gone"}]
  /\ want \in [Volumes -> Requests \cup {None}]
  /\ home \in [Volumes -> Zones \cup {None}]
  /\ heard \in [Volumes -> {"nothing", "again", "final", "mismatch", "error"}]
  /\ static \subseteq Volumes
  /\ inst \in [Instances -> {"none", "CREATING", "ACTIVE", "REPAIRING", "DELETING"}]
  /\ cap \in [Instances -> Gibs \cup {0}]
  /\ fs \in [Instances -> FSNames \cup {None}]
  /\ labels \in [Instances -> SUBSET Labels]
  /\ createOp \in [Instances -> {"none", "running", "done", "failed"}]
  /\ updates \in [Instances -> SUBSET [mask : SUBSET {"capacity_gib", "labels"},
                                       cap : Gibs \cup {0}, labels : SUBSET Labels]]
  /\ creates \in [Instances -> Nat]
  /\ locks \subseteq Keys
  /\ pc \in [Handlers -> {"idle"} \cup CreatePCs \cup DeletePCs \cup ExpandPCs]
  /\ vol \in [Handlers -> Volumes \cup {None}]
  /\ zone \in [Handlers -> Zones \cup {None}]
  /\ req \in [Handlers -> Requests \cup {None}]
  /\ pick \in [Handlers -> FSNames \cup {None}]
  /\ faults \in 0 .. MaxFaults

\* "The CSI driver will never initiate more than one instance creation call for
\* the same volume": GetCreateInstanceOp relies on it when it looks for the
\* operation in the zone of the request.  Retries, lost answers, failed creations
\* and restarts do not lead to a second CreateInstance there, whatever other zones
\* the volume was led to in between.
OneCreation == \A i \in Instances : creates[i] <= 1

\* A volume CreateVolume returned has an instance that was created, until the
\* volume is released: CreateVolume never returns one that is still being
\* created, whose creation may fail.
BoundHasInstance ==
  \A v \in Volumes :
    phase[v] = "bound" =>
      /\ inst[Home(v)] \in {"ACTIVE", "REPAIRING"}
      /\ createOp[Home(v)] = "done" \/ v \in static

\* DeleteVolume returns success only when the instance in the volume's ID no
\* longer exists.
GoneIsDeleted == \A v \in Volumes : phase[v] = "gone" => inst[Home(v)] = "none"

\* The claim is deleted, nobody is going to call DeleteVolume, and there is an
\* instance, perhaps still being created, in the zone of the last call.
LeftBehind(v) ==
  phase[v] = "abandoned" /\ home[v] # None /\ inst[Home(v)] # "none"

\* CreateVolume leaves an instance behind in the zone of its last call in two
\* cases only: it answered AlreadyExists, or it passed an error of the service on
\* as a code that ends the provisioning (codeForError: Internal for a 503 while
\* the instance is being created, say).  A call cut off while the instance is
\* being created, a throttled call and an instance that is not ready are answered
\* with a code that is retried, and the driver's own verdicts are given only when
\* there is no instance.
LeftBehindOnlyAfterError ==
  \A v \in Volumes : LeftBehind(v) => heard[v] \in {"mismatch", "error"}

\* A step that hands out volume v hands it out with such a capacity.
CapacityAnswers(v) ==
  phase[v] = "wanted" /\ phase'[v] = "bound" =>
    LET c == cap[<<home'[v], v>>] * Gib
    IN  /\ c <= getRequestCapacity(want'[v])
        /\ getRequestCapacity(want'[v]) < c + Gib
        /\ want'[v].limit > 0 => c <= want'[v].limit

\* The capacity CreateVolume returns is that of the request it answers, rounded
\* down to GiB, and so within its limit: an instance made for another request is
\* refused.  It may be less than the bytes required (RequiredBytesMet).
CapacityAnswersRequest == [][\A v \in Volumes : CapacityAnswers(v)]_vars

\* CreateVolume returns a volume with the bytes required: "Volume MUST be at least
\* this big" (required_bytes of the CSI specification).
RequiredBytesMet ==
  [][\A v \in Volumes :
       phase[v] = "wanted" /\ phase'[v] = "bound" =>
         cap[<<home'[v], v>>] * Gib >= want'[v].required]_vars

\* The capacity of an instance never goes down while it exists: an expansion
\* that outlives its call is not overtaken by a later and larger one.
NeverShrinks ==
  [][\A i \in Instances : inst'[i] # "none" => cap'[i] >= cap[i]]_vars

\* Two requests of one claim: only the topology may differ, with the node chosen.
SameClaim(q, r) == [q EXCEPT !.top = r.top] = r

\* Kubernetes asks for v, from some time on, with the requests of r's claim only.
AsksFor(v, r) ==
  <>[][\A h \in Handlers :
         pc[h] = "idle" /\ pc'[h] = "cGet" /\ vol'[h] = v => SameClaim(req'[h], r)]_vars

\* What a claim cannot get over: a label that CreateVolume refuses, an instance
\* made for a claim of another capacity, a failed creation.
Refused(v, r) ==
  \/ ~ValidLabels(r)
  \/ \E z \in Zones :
       \/ createOp[<<z, v>>] = "failed"
       \/ inst[<<z, v>>] # "none" /\ cap[<<z, v>>] # RequestGib(r)

\* Kubernetes' retries end: the volume of a claim that is asked for again and again
\* is provisioned, in whichever zone its calls lead to, unless the claim is refused
\* for good.  No call needs the requests of another claim to make progress.
Provisioned ==
  \A v \in Volumes : \A r \in {q \in Requests : Valid(q)} :
    AsksFor(v, r) => []<>(phase[v] # "wanted" \/ Refused(v, r))

\* A released volume is eventually deleted.
Reclaimed == \A v \in Volumes : phase[v] = "released" ~> phase[v] = "gone"

\* A volume that stays in use reaches the capacity asked for, rounded to GiB.
Grown ==
  \A v \in Volumes :
    phase[v] = "bound" ~> phase[v] # "bound" \/ cap[Home(v)] >= RequestGib(want[v])

\* Two instances of a region never have the same generated name: "a new
\* identifier will be generated until uniqueness is confirmed".
UniqueGeneratedName ==
  \A i, j \in Instances :
    i # j /\ RegionOf[i[1]] = RegionOf[j[1]] /\ fs[i] # None => fs[i] # fs[j]

-----------------------------------------------------------------------------
(* The controller implements the life of a volume.                         *)

Stored(i) ==
  CASE inst[i] = "none"     -> IF creates[i] = 0 THEN "never" ELSE "none"
    [] inst[i] = "CREATING" -> "making"
    [] OTHER                -> "ready"

\* The volume has or had a PV.
HadPV(v) == phase[v] \in {"bound", "released", "gone"}

VolumeLife ==
  INSTANCE Volume WITH
    Places <- Zones,
    Nowhere <- None,
    place <- [v \in Volumes |-> IF HadPV(v) THEN home[v] ELSE None],
    stored <- [i \in Instances |-> Stored(i)],
    size <- [v \in Volumes |-> IF HadPV(v) THEN cap[Home(v)] ELSE 0]

\* Whatever calls, retries, lost answers, operations and restarts do, a volume
\* goes through the life Kubernetes relies on: its storage is made once in a zone,
\* it is handed out when the storage is ready, keeps it until it is released,
\* never gets smaller, and is reported deleted when that storage is gone.
ImplementsVolume == VolumeLife!Spec
=============================================================================
