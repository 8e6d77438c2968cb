-------------------------- MODULE ControllerCalls --------------------------
(***************************************************************************)
(* Each step of CreateVolume, DeleteVolume and ControllerExpandVolume      *)
(* preserves CallsInv: one lemma per action.  What a call has found out    *)
(* about an instance is still true when it acts on it, since the call has  *)
(* the lock of its volume and the service does nothing that would make it  *)
(* false.                                                                  *)
(***************************************************************************)
EXTENDS ControllerFrames

-----------------------------------------------------------------------------
(* CreateVolume.                                                           *)

\* The entry of CreateVolume: a request is refused, or a call starts with the lock.
LEMMA CreateVolumeStep ==
  ASSUME CallsInv, NEW h \in Handlers, NEW v \in Volumes, NEW r \in Requests,
         CreateVolume(h, v, r)
  PROVE  CallsInv'
<1>1. TypeOK /\ KubeTypeOK /\ CallTypeOK
  BY TypeParts, Zenon DEF CallsInv
<1>2. phase[v] = "wanted" /\ UNCHANGED <<phase, want, static>>
  BY Zenon DEF CreateVolume
<1>3. CASE Valid(r) /\ Start(h, "cGet", v, pickZone(r), r) /\ TryAcquire(<<"name", v>>)
           /\ home' = [home EXCEPT ![v] = pickZone(r)]
           /\ heard' = [heard EXCEPT ![v] = "again"]
  <2>1. PICK z \in Zones : z = pickZone(r)
    BY <1>3, PickZoneFact, Zenon
  <2>2. \A g \in Handlers : Busy(g) /\ vol[g] = v => KeyOf(g) = <<"name", v>>
    BY <1>1, <1>2, ZenonT(30) DEF CallsInv, HandlerInv, KeyOf, CallTypeOK, Busy
  <2>3. <<"name", v>> \in Keys
    BY Zenon DEF Keys
  <2>4. /\ pc'[h] = "cGet" /\ vol'[h] = v /\ zone'[h] = z /\ req'[h] = r
        /\ home'[v] = z /\ heard'[v] = "again" /\ <<"name", v>> \in locks'
    BY <1>1, <1>3, <2>1, Zenon DEF Start, TryAcquire, CallTypeOK, KubeTypeOK
  <2>5. HandlerInv(h)'
    BY <1>2, <1>3, <2>4, Zenon DEF HandlerInv, KeyOf, At, Led, Busy, CreatePCs, DeletePCs,
      ExpandPCs
  <2> QED
    BY <1>2, <1>3, <2>1, <2>2, <2>3, <2>5, StartStep, Zenon
<1>4. CASE heard[v] = "nothing" /\ heard' = [heard EXCEPT ![v] = "final"]
           /\ UNCHANGED <<home, cloud, locks, calls, faults>>
  <2>1. KubeTypeOK' /\ CloudTypeOK' /\ MayFail
    BY <1>1, <1>2, <1>4, TypeFrame, Zenon DEF KubeTypeOK, CallsInv, MayFail
  <2>2. /\ \A w \in Volumes : w # v => SameKube(w)
        /\ \A j \in Instances : SameCloud(j)
    BY <1>1, <1>2, <1>4, Zenon DEF SameKube, SameCloud, KubeTypeOK, cloud
  <2>3. KubeInv(v)'
    BY <1>2, Zenon DEF CallsInv, KubeInv, HadPV
  <2>4. ASSUME NEW j \in Instances, j[2] = v PROVE InstanceInv(j)'
    <3>1. InstanceInv(j) /\ UNCHANGED cloud /\ (Led(j)' <=> Led(j)) /\ (Used(j)' <=> Used(j))
      BY <1>2, <1>4, LedFrame, Zenon DEF CallsInv
    <3>2. CreationInv(j)' /\ UpdateInv(j)'
      BY <1>2, <3>1, Zenon DEF InstanceInv, CreationInv, UpdateInv, Resizes, cloud
    <3>3. PhaseInv(j)'
      BY <1>2, <1>4, <2>4, <3>1, Zenon DEF InstanceInv, PhaseInv, cloud
    <3> QED
      BY <3>2, <3>3, Zenon DEF InstanceInv
  <2>5. \A g \in Handlers : Busy(g) => vol[g] # v
    BY <1>1, <1>2, <1>4, Zenon DEF CallsInv, HandlerInv, CallTypeOK, Busy
  <2>6. Only(v)
    BY <1>2, <2>1, <2>2, <2>3, <2>4, Zenon DEF Only
  <2> QED
    BY <1>4, <2>5, <2>6, VolumeStep, Zenon
<1> QED
  BY <1>3, <1>4, Zenon DEF CreateVolume

\* CreateVolume looks for the instance; without one it goes on to the operations.
LEMMA CreateGetStep ==
  ASSUME CallsInv, NEW h \in Handlers, CreateGet(h)
  PROVE  CallsInv'
<1>1. pc[h] = "cGet" /\ Busy(h)
  BY Zenon DEF CreateGet, Busy
<1>2. HandlerInv(h) /\ CallTypeOK
  BY <1>1, CallFact, TypeParts, Zenon DEF CallsInv
<1>3. CASE inst[At(h)] = "none" /\ Goto(h, "cOp") /\ UNCHANGED <<kube, cloud, faults>>
  <2>1. HandlerInv(h)'
    BY <1>1, <1>2, <1>3, Zenon DEF HandlerInv, Goto, CallTypeOK, KeyOf, At, Led, Busy, kube, cloud,
      CreatePCs, DeletePCs, ExpandPCs
  <2> QED
    BY <1>1, <1>3, <2>1, GoesOnStep, Zenon DEF Goto, GoesOn, CreatePCs
<1>4. CASE /\ Answer(h, NotReady(h), IF CompareInstances(h) THEN "final" ELSE "mismatch")
           /\ UNCHANGED <<cloud, faults>>
  <2>1. CompareInstances(h) => Retried(NotReady(h))
    BY Zenon DEF NotReady, Retried
  <2> QED
    BY <1>1, <1>4, <2>1, AnswerStep, Zenon DEF MayFail
<1>5. CASE inst[At(h)] = "ACTIVE" /\ CompareInstances(h) /\ CreateSucceeds(h)
  BY <1>1, <1>5, CreateSucceedsStep, Zenon DEF CompareInstances, CreatePCs
<1>6. CASE CreateFails(h)
  BY <1>1, <1>6, FailsStep, Zenon
<1> QED
  BY <1>3, <1>4, <1>5, <1>6, Zenon DEF CreateGet

\* A creation that failed has left nothing behind.
LEMMA OperationFailedStep ==
  ASSUME CallsInv, NEW h \in Handlers, Busy(h), createOp[At(h)] = "failed",
         OperationFailed(h)
  PROVE  CallsInv'
<1>1. inst[At(h)] = "none"
  BY CallFact, Zenon DEF InstanceInv, CreationInv
<1> QED
  BY <1>1, AnswerStep, Zenon DEF OperationFailed, MayFail

\* GetCreateInstanceOp: no creation was started, or one is running or failed.
LEMMA CreateOpStep ==
  ASSUME CallsInv, NEW h \in Handlers, CreateOp(h)
  PROVE  CallsInv'
<1>1. pc[h] = "cOp" /\ Busy(h)
  BY Zenon DEF CreateOp, Busy
<1>2. /\ HandlerInv(h) /\ CallTypeOK /\ At(h) \in Instances /\ At(h)[2] = vol[h]
      /\ InstanceInv(At(h))
  BY <1>1, CallFact, TypeParts, Zenon DEF CallsInv
<1>3. phase[vol[h]] = "wanted" /\ inst[At(h)] = "none"
  BY <1>1, <1>2, Zenon DEF HandlerInv, CreatePCs
<1>4. CASE createOp[At(h)] = "failed" /\ OperationFailed(h)
  BY <1>1, <1>4, OperationFailedStep, Zenon
<1>5. CASE createOp[At(h)] # "failed" /\ Goto(h, "cList") /\ UNCHANGED <<kube, cloud, faults>>
  <2>1. createOp[At(h)] = "none"
    <3>1. createOp[At(h)] \in {"none", "running", "done", "failed"}
      BY <1>2, Zenon DEF CallsInv, TypeOK
    <3> QED
      BY <1>2, <1>3, <1>5, <3>1, Zenon DEF InstanceInv, CreationInv, PhaseInv, Used, HadPV
  <2>2. HandlerInv(h)'
    BY <1>1, <1>2, <1>5, <2>1, Zenon DEF HandlerInv, Goto, CallTypeOK, KeyOf, At, Led, Busy, kube,
      cloud, CreatePCs, DeletePCs, ExpandPCs
  <2> QED
    BY <1>1, <1>5, <2>2, GoesOnStep, Zenon DEF Goto, GoesOn, CreatePCs
<1>6. CASE Answer(h, "InvalidArgument", "final") /\ UNCHANGED <<cloud, faults>>
  BY <1>1, <1>2, <1>3, <1>6, AnswerStep, Zenon DEF MayFail
<1>7. CASE CreateFails(h)
  BY <1>1, <1>7, FailsStep, Zenon
<1> QED
  BY <1>4, <1>5, <1>6, <1>7, Zenon DEF CreateOp

\* The names in use are listed and a new one is generated.
LEMMA CreateListStep ==
  ASSUME CallsInv, NEW h \in Handlers, CreateList(h)
  PROVE  CallsInv'
<1>1. pc[h] = "cList" /\ Busy(h)
  BY Zenon DEF CreateList, Busy
<1>2. HandlerInv(h) /\ CallTypeOK
  BY <1>1, CallFact, TypeParts, Zenon DEF CallsInv
<1>3. CASE CreateFails(h)
  BY <1>1, <1>3, FailsStep, Zenon
<1>4. CASE ~CreateFails(h)
  <2>1. /\ pc' = [pc EXCEPT ![h] = "cSend"]
        /\ UNCHANGED <<kube, cloud, locks, vol, zone, req, faults>>
    BY <1>4, Zenon DEF CreateList
  <2>2. req[h].fs \in FSNames \cup {None}
    BY <1>1, <1>2, ControllerAssumption, Zenon DEF HandlerInv, CreatePCs
  <2>3. PICK f \in FSNames : pick' = [pick EXCEPT ![h] = f]
    BY <1>4, <2>2, Zenon DEF CreateList
  <2>4. HandlerInv(h)'
    BY <1>1, <1>2, <2>1, <2>3, Zenon DEF HandlerInv, CallTypeOK, KeyOf, At, Led, Busy, kube, cloud,
      CreatePCs, DeletePCs, ExpandPCs
  <2> QED
    BY <1>1, <2>1, <2>3, <2>4, GoesOnStep, Zenon DEF GoesOn, CreatePCs
<1> QED
  BY <1>3, <1>4, Zenon

\* CreateInstance is called once: there was no create operation before.
LEMMA CreateSendStep ==
  ASSUME CallsInv, NEW h \in Handlers, CreateSend(h)
  PROVE  CallsInv'
<1>1. pc[h] = "cSend" /\ Busy(h)
  BY Zenon DEF CreateSend, Busy
<1>2. CASE CreateFails(h)
  BY <1>1, <1>2, FailsStep, Zenon
<1>3. CASE ~CreateFails(h)
  <2>1. PICK i \in Instances, v \in Volumes :
           /\ v = vol[h] /\ i = At(h) /\ i[2] = v /\ Led(i)
           /\ KubeInv(v) /\ InstanceInv(i) /\ HandlerInv(h)
    BY <1>1, CallFact, Zenon
  <2>2. TypeOK /\ KubeTypeOK /\ CloudTypeOK /\ CallTypeOK
    BY TypeParts, Zenon DEF CallsInv
  <2>3. /\ req[h] \in Requests /\ pick[h] \in FSNames
        /\ phase[v] = "wanted" /\ heard[v] = "again" /\ KeyOf(h) \in locks
        /\ inst[i] = "none" /\ createOp[i] = "none"
    BY <1>1, <2>1, Zenon DEF HandlerInv, CreatePCs
  <2>4. /\ inst' = [inst EXCEPT ![i] = "CREATING"]
        /\ cap' = [cap EXCEPT ![i] = RequestGib(req[h])]
        /\ fs' = [fs EXCEPT ![i] = pick[h]]
        /\ labels' = [labels EXCEPT ![i] = extractLabels(req[h])]
        /\ createOp' = [createOp EXCEPT ![i] = "running"]
        /\ creates' = [creates EXCEPT ![i] = @ + 1]
        /\ updates' = updates
        /\ \/ Goto(h, "cWait") /\ UNCHANGED <<kube, faults>>
           \/ Fault /\ \E e \in Errors : PassOn(h, e)
    BY <1>3, <2>1, Zenon DEF CreateSend
  <2>5. /\ UNCHANGED <<phase, want, home, static>>
        /\ \/ UNCHANGED heard
           \/ \E a \in {"again", "error"} : heard' = [heard EXCEPT ![v] = a]
    <3>1. ASSUME NEW e \in Errors, PassOn(h, e)
          PROVE  /\ UNCHANGED <<phase, want, home, static>>
                 /\ \E a \in {"again", "error"} : heard' = [heard EXCEPT ![v] = a]
      BY <2>1, <3>1, Zenon DEF PassOn, Answer, Retried, codeForError, Errors
    <3> QED
      BY <2>4, <3>1, Zenon DEF kube
  <2>6. KubeTypeOK' /\ static' = static
    BY <2>2, <2>5, Zenon DEF KubeTypeOK
  <2>7. CloudTypeOK'
    <3>1. RequestGib(req[h]) \in Gibs
      BY <2>3, RequestFact, Zenon
    <3>2. extractLabels(req[h]) \subseteq Labels
      BY <2>3, ControllerAssumption, Zenon DEF extractLabels, Labels
    <3> QED
      BY <2>2, <2>3, <2>4, <3>1, <3>2, SMTT(30) DEF CloudTypeOK
  <2>8. \A j \in Instances : j # i => SameCloud(j)
    BY <2>2, <2>4, Zenon DEF SameCloud, CloudTypeOK
  <2>9. \A w \in Volumes : w # v => SameKube(w)
    BY <2>2, <2>5, Zenon DEF SameKube, KubeTypeOK
  <2>10. KubeInv(v)' /\ Led(i)' /\ ~Used(i)' /\ ~Used(i)
    BY <2>1, <2>3, <2>5, Zenon DEF KubeInv, Led, Used, HadPV
  <2>11. InstanceInv(i)'
    <3>1. /\ inst'[i] = "CREATING" /\ createOp'[i] = "running"
          /\ creates'[i] = creates[i] + 1 /\ heard'[v] \in {"again", "error"}
      BY <2>1, <2>2, <2>3, <2>4, <2>5, ZenonT(30) DEF KubeTypeOK, CloudTypeOK
    <3>2. v \notin static
      BY <2>1, <2>3, Zenon DEF KubeInv
    <3>3. creates[i] = 0
      BY <2>1, <2>3, Zenon DEF InstanceInv, CreationInv
    <3>4. CreationInv(i)'
      BY <2>1, <2>5, <3>1, <3>2, <3>3 DEF CreationInv
    <3>5. PhaseInv(i)'
      BY <2>1, <2>10, <3>1, Zenon DEF PhaseInv
    <3>6. UpdateInv(i)'
      BY <2>1, <2>4, <2>10, <3>1, Zenon DEF InstanceInv, UpdateInv
    <3> QED
      BY <3>4, <3>5, <3>6, Zenon DEF InstanceInv
  <2>12. About(i)
    BY <2>1, <2>4, <2>6, <2>7, <2>8, <2>9, <2>10, <2>11, Zenon DEF About, MayFail
  <2>13. CASE Goto(h, "cWait") /\ UNCHANGED <<kube, faults>>
    <3>1. /\ cap'[i] = RequestGib(req[h]) /\ createOp'[i] = "running"
          /\ pc'[h] = "cWait" /\ UNCHANGED <<locks, vol, zone, req>>
      BY <2>2, <2>4, <2>13, Zenon DEF Goto, CloudTypeOK, CallTypeOK
    <3>2. At(h)' = i
      BY <2>1, <3>1, Zenon DEF At
    <3>3. HandlerInv(h)'
      BY <1>1, <2>1, <2>10, <2>13, <3>1, <3>2, ZenonT(30) DEF HandlerInv, KeyOf, Busy, kube,
        CreatePCs, DeletePCs, ExpandPCs
    <3> QED
      BY <1>1, <2>1, <2>12, <2>13, <3>3, CallStep, Zenon DEF Proceeds, Goto, GoesOn, CreatePCs
  <2>14. CASE Fault /\ \E e \in Errors : PassOn(h, e)
    BY <1>1, <2>1, <2>12, <2>14, CallStep, Zenon DEF Proceeds, PassOn, Answer
  <2> QED
    BY <2>4, <2>13, <2>14, Zenon
<1> QED
  BY <1>2, <1>3, Zenon

\* CreateVolume waits for its create operation.
LEMMA CreateWaitStep ==
  ASSUME CallsInv, NEW h \in Handlers, CreateWait(h)
  PROVE  CallsInv'
<1>1. pc[h] = "cWait" /\ Busy(h)
  BY Zenon DEF CreateWait, Busy
<1>2. CASE createOp[At(h)] = "done" /\ CreateSucceeds(h)
  BY <1>1, <1>2, DoneFact, CreateSucceedsStep, Zenon DEF CreatePCs
<1>3. CASE createOp[At(h)] = "failed" /\ OperationFailed(h)
  BY <1>1, <1>3, OperationFailedStep, Zenon
<1>4. CASE PassOn(h, "context") /\ UNCHANGED <<cloud, faults>>
  BY <1>1, <1>4, PassOnStep, Zenon DEF Errors, MayFail
<1>5. CASE CreateFails(h)
  BY <1>1, <1>5, FailsStep, Zenon
<1> QED
  BY <1>2, <1>3, <1>4, <1>5, Zenon DEF CreateWait

-----------------------------------------------------------------------------
(* DeleteVolume.                                                           *)

\* The lock of a volume's ID keeps DeleteVolume and ControllerExpandVolume apart.
LEMMA LockFact ==
  ASSUME CallsInv, NEW v \in Volumes, phase[v] \in {"bound", "released"}
  PROVE  /\ home[v] \in Zones /\ Home(v) \in Keys
         /\ \A g \in Handlers : Busy(g) /\ vol[g] = v => KeyOf(g) = Home(v)
<1>1. home[v] \in Zones /\ Home(v) \in Keys
  BY HomeFact, Zenon DEF HadPV, Keys
<1>2. ASSUME NEW g \in Handlers, Busy(g), vol[g] = v PROVE KeyOf(g) = Home(v)
  <2>1. HandlerInv(g) /\ Home(v) = At(g)
    BY <1>2, CallFact, Zenon
  <2> QED
    BY <1>2, <2>1, Zenon DEF HandlerInv, KeyOf
<1> QED
  BY <1>1, <1>2, Zenon

\* The entry of DeleteVolume.
LEMMA DeleteVolumeStep ==
  ASSUME CallsInv, NEW h \in Handlers, NEW v \in Volumes, DeleteVolume(h, v)
  PROVE  CallsInv'
<1>1. PICK z \in Zones : z = home[v]
  BY LockFact, Zenon DEF DeleteVolume
<1>2. phase[v] = "released" /\ TryAcquire(Home(v)) /\ Start(h, "dGet", v, z, None)
  BY <1>1, Zenon DEF DeleteVolume
<1>3. /\ pc'[h] = "dGet" /\ vol'[h] = v /\ zone'[h] = z /\ Home(v) \in locks'
      /\ UNCHANGED kube
  BY <1>2, ZenonT(30) DEF Start, TryAcquire, CallsInv, TypeOK, DeleteVolume
<1>4. HandlerInv(h)'
  BY <1>1, <1>2, <1>3, Zenon DEF HandlerInv, KeyOf, At, Led, Home, Busy, kube, CreatePCs,
    DeletePCs, ExpandPCs
<1>5. UNCHANGED <<phase, want, static>> /\ UNCHANGED <<home, heard>>
  BY <1>3, Zenon DEF kube
<1> QED
  BY <1>2, <1>4, <1>5, LockFact, StartStep, ZenonT(30)

\* Success of DeleteVolume means that the instance is gone.
LEMMA DeleteSucceedsStep ==
  ASSUME CallsInv, NEW h \in Handlers, pc[h] \in DeletePCs, inst[At(h)] = "none",
         DeleteSucceeds(h)
  PROVE  CallsInv'
<1>1. Busy(h)
  BY Zenon DEF Busy, DeletePCs
<1>2. PICK i \in Instances, v \in Volumes :
         /\ v = vol[h] /\ i = At(h) /\ i[2] = v /\ Led(i)
         /\ KubeInv(v) /\ InstanceInv(i) /\ HandlerInv(h)
  BY <1>1, CallFact, Zenon
<1>3. phase[v] = "released" /\ inst[i] = "none"
  BY <1>2, Zenon DEF HandlerInv
<1>4. TypeOK /\ KubeTypeOK
  BY TypeParts, Zenon DEF CallsInv
<1>5. KubeTypeOK' /\ CloudTypeOK' /\ static' = static
  BY <1>4, TypeFrame, Zenon DEF KubeTypeOK, DeleteSucceeds
<1>6. /\ \A w \in Volumes : w # v => SameKube(w)
      /\ \A j \in Instances : SameCloud(j)
  BY <1>2, <1>4, Zenon DEF SameKube, SameCloud, DeleteSucceeds, KubeTypeOK, cloud
<1>7. phase'[v] = "gone" /\ UNCHANGED <<want, home, heard, static, cloud>>
  BY <1>2, <1>4, Zenon DEF DeleteSucceeds, KubeTypeOK
<1>8. Led(i)' /\ Used(i) /\ Used(i)' /\ v \notin static
  BY <1>2, <1>3, <1>7, Zenon DEF Led, Used, HadPV, KubeInv
<1>9. KubeInv(v)'
  BY <1>2, <1>3, <1>7, <1>8, Zenon DEF KubeInv, HadPV
<1>10. InstanceInv(i)'
  <2>1. CreationInv(i)'
    BY <1>2, <1>7, <1>8, Zenon DEF InstanceInv, CreationInv, cloud
  <2>2. PhaseInv(i)'
    BY <1>2, <1>3, <1>7, <1>8, Zenon DEF InstanceInv, PhaseInv, cloud
  <2>3. UpdateInv(i)'
    BY <1>2, <1>7, <1>8, Zenon DEF InstanceInv, UpdateInv, Resizes, cloud
  <2> QED
    BY <2>1, <2>2, <2>3, Zenon DEF InstanceInv
<1>11. About(i)
  BY <1>2, <1>5, <1>6, <1>8, <1>9, <1>10, Zenon DEF About, MayFail, DeleteSucceeds
<1> QED
  BY <1>1, <1>2, <1>11, CallStep, Zenon DEF Proceeds, DeleteSucceeds

\* DeleteVolume looks for the instance.
LEMMA DeleteGetStep ==
  ASSUME CallsInv, NEW h \in Handlers, DeleteGet(h)
  PROVE  CallsInv'
<1>1. pc[h] = "dGet" /\ Busy(h)
  BY Zenon DEF DeleteGet, Busy
<1>2. CASE Goto(h, "dSend") /\ UNCHANGED <<kube, cloud, faults>>
  <2>1. HandlerInv(h) /\ CallTypeOK
    BY <1>1, CallFact, TypeParts, ZenonT(30) DEF CallsInv
  <2>2. HandlerInv(h)'
    BY <1>1, <1>2, <2>1, ZenonT(30) DEF HandlerInv, Goto, CallTypeOK, KeyOf, At, Led, Busy,
      kube, cloud, CreatePCs, DeletePCs, ExpandPCs
  <2> QED
    BY <1>1, <1>2, <2>2, GoesOnStep, Zenon DEF Goto, GoesOn, DeletePCs
<1>3. CASE inst[At(h)] = "none" /\ DeleteSucceeds(h)
  BY <1>1, <1>3, DeleteSucceedsStep, Zenon DEF DeletePCs
<1> QED
  BY <1>1, <1>2, <1>3, FailsStep, Zenon DEF DeleteGet

\* DeleteVolume sends DeleteInstance.
LEMMA DeleteSendStep ==
  ASSUME CallsInv, NEW h \in Handlers, DeleteSend(h)
  PROVE  CallsInv'
<1>1. pc[h] = "dSend" /\ Busy(h)
  BY Zenon DEF DeleteSend, Busy
<1>2. CASE inst[At(h)] = "none" /\ DeleteSucceeds(h)
  BY <1>1, <1>2, DeleteSucceedsStep, Zenon DEF DeletePCs
<1>3. CASE Fails(h)
  BY <1>1, <1>3, FailsStep, Zenon
<1>4. CASE /\ inst[At(h)] # "none"
           /\ inst' = [inst EXCEPT ![At(h)] = "DELETING"]
           /\ \/ Goto(h, "dWait") /\ UNCHANGED faults
              \/ Fault /\ Return(h)
           /\ UNCHANGED <<kube, cap, fs, labels, createOp, updates, creates>>
  <2>1. PICK i \in Instances, v \in Volumes :
           /\ v = vol[h] /\ i = At(h) /\ i[2] = v /\ Led(i)
           /\ KubeInv(v) /\ InstanceInv(i) /\ HandlerInv(h)
    BY <1>1, CallFact, Zenon
  <2>2. TypeOK /\ CloudTypeOK /\ CallTypeOK
    BY TypeParts, Zenon DEF CallsInv
  <2>3. phase[v] = "released" /\ inst[i] # "none"
    BY <1>1, <1>4, <2>1, Zenon DEF HandlerInv, DeletePCs
  <2>4. KubeTypeOK' /\ CloudTypeOK' /\ static' = static
    BY <1>4, <2>1, <2>2, TypeFrame, Zenon DEF CloudTypeOK, kube
  <2>5. (\A w \in Volumes : SameKube(w)) /\ (\A j \in Instances : j # i => SameCloud(j))
    BY <1>4, <2>1, <2>2, Zenon DEF SameKube, SameCloud, CloudTypeOK, kube
  <2>6. KubeInv(v)'
    BY <2>1, <2>4, <2>5, KubeFrame, Zenon
  <2>7. Led(i)' /\ Used(i) /\ Used(i)' /\ v \notin static
    BY <1>4, <2>1, <2>3, Zenon DEF Led, Used, HadPV, KubeInv, kube
  <2>8. InstanceInv(i)'
    <3>1. inst'[i] = "DELETING"
      BY <1>4, <2>1, <2>2, Zenon DEF CloudTypeOK
    <3>2. CreationInv(i)'
      BY <1>4, <2>1, <2>4, <2>7, <3>1, Zenon DEF InstanceInv, CreationInv, PhaseInv
    <3>3. PhaseInv(i)'
      BY <1>4, <2>1, <2>3, <2>7, <3>1, Zenon DEF InstanceInv, PhaseInv, kube
    <3>4. UpdateInv(i)'
      BY <1>4, <2>1, <2>3, <2>7, <3>1, Zenon DEF InstanceInv, UpdateInv, Resizes, kube
    <3> QED
      BY <3>2, <3>3, <3>4, Zenon DEF InstanceInv
  <2>9. ASSUME Goto(h, "dWait") PROVE HandlerInv(h)'
    BY <1>1, <1>4, <2>1, <2>2, <2>9, Zenon DEF HandlerInv, Goto, CallTypeOK, KeyOf, At, Led,
      Busy, kube, CreatePCs, DeletePCs, ExpandPCs
  <2>10. About(i)
    BY <1>4, <2>1, <2>4, <2>5, <2>6, <2>7, <2>8, Zenon DEF About, MayFail
  <2> QED
    BY <1>1, <1>4, <2>1, <2>9, <2>10, CallStep, Zenon DEF Proceeds, Goto, GoesOn, DeletePCs
<1> QED
  BY <1>2, <1>3, <1>4, Zenon DEF DeleteSend

\* DeleteVolume waits until the instance is gone.
LEMMA DeleteWaitStep ==
  ASSUME CallsInv, NEW h \in Handlers, DeleteWait(h)
  PROVE  CallsInv'
<1>1. pc[h] \in DeletePCs /\ Busy(h)
  BY Zenon DEF DeleteWait, Busy, DeletePCs
<1> QED
  BY <1>1, DeleteSucceedsStep, FailsStep, Zenon DEF DeleteWait

-----------------------------------------------------------------------------
(* ControllerExpandVolume.                                                 *)

\* The entry of ControllerExpandVolume.
LEMMA ControllerExpandVolumeStep ==
  ASSUME CallsInv, NEW h \in Handlers, NEW v \in Volumes, ControllerExpandVolume(h, v)
  PROVE  CallsInv'
<1>1. PICK z \in Zones, i \in Instances : z = home[v] /\ i = Home(v) /\ i[2] = v /\ Used(i)
  <2>1. HadPV(v)
    BY Zenon DEF ControllerExpandVolume, HadPV
  <2>2. /\ home[v] \in Zones /\ Home(v) \in Instances /\ Home(v)[2] = v
        /\ Used(Home(v))
    BY <2>1, HomeFact, Zenon DEF Used
  <2> QED
    BY <2>2, Zenon
<1>2. /\ phase[v] \in {"bound", "released"} /\ TryAcquire(i)
      /\ Start(h, "eGet", v, z, want[v])
  BY <1>1, Zenon DEF ControllerExpandVolume
<1>3. InstanceInv(i) /\ want[v] \in Requests
  BY <1>2, Zenon DEF CallsInv, KubeInv, HadPV
<1>4. /\ pc'[h] = "eGet" /\ vol'[h] = v /\ zone'[h] = z /\ req'[h] = want[v]
      /\ i \in locks' /\ UNCHANGED <<kube, cloud>>
  BY <1>2, ZenonT(30) DEF Start, TryAcquire, CallsInv, TypeOK, ControllerExpandVolume
<1>5. RequestGib(want[v]) <= RequestGib(want[v])
  BY <1>3, RequestFact
<1>6. /\ cap[i] <= RequestGib(want[v])
      /\ \A u \in updates[i] : Resizes(u) => u.cap <= RequestGib(want[v])
  BY <1>1, <1>3, Zenon DEF InstanceInv, UpdateInv
<1>7. At(h)' = i /\ Led(i)'
  BY <1>1, <1>4, Zenon DEF At, Home, Led, Used, kube
<1>8. HandlerInv(h)'
  BY <1>2, <1>3, <1>4, <1>5, <1>6, <1>7, Zenon DEF HandlerInv, KeyOf, Busy, Resizes, kube,
    cloud, CreatePCs, DeletePCs, ExpandPCs
<1>9. UNCHANGED <<phase, want, static>> /\ UNCHANGED <<home, heard>>
  BY <1>4, Zenon DEF kube
<1>10. want[v] \in Requests \cup {None} /\ i \in Keys
  BY <1>3, Zenon DEF Keys
<1>11. \A g \in Handlers : Busy(g) /\ vol[g] = v => KeyOf(g) = i
  BY <1>1, <1>2, LockFact, Zenon
<1> QED
  BY <1>2, <1>8, <1>9, <1>10, <1>11, StartStep, ZenonT(30)

\* An instance that is large enough is not expanded.
LEMMA ExpandGetStep ==
  ASSUME CallsInv, NEW h \in Handlers, ExpandGet(h)
  PROVE  CallsInv'
<1>1. pc[h] = "eGet" /\ Busy(h)
  BY Zenon DEF ExpandGet, Busy
<1>2. CASE Goto(h, "eOp") /\ UNCHANGED <<kube, cloud, faults>>
  <2>1. HandlerInv(h) /\ CallTypeOK
    BY <1>1, CallFact, TypeParts, Zenon DEF CallsInv
  <2>2. HandlerInv(h)'
    BY <1>1, <1>2, <2>1, Zenon DEF HandlerInv, Goto, CallTypeOK, KeyOf, At, Led, Busy,
      Resizes, kube,
      cloud, CreatePCs, DeletePCs, ExpandPCs
  <2> QED
    BY <1>1, <1>2, <2>2, GoesOnStep, Zenon DEF Goto, GoesOn, ExpandPCs
<1> QED
  BY <1>1, <1>2, FailsStep, Zenon DEF ExpandGet

\* An expansion in progress is waited for and not started again.
LEMMA ExpandOpStep ==
  ASSUME CallsInv, NEW h \in Handlers, ExpandOp(h)
  PROVE  CallsInv'
<1>1. pc[h] = "eOp" /\ Busy(h)
  BY Zenon DEF ExpandOp, Busy
<1>2. CASE updates[At(h)] = {} /\ Goto(h, "eSend") /\ UNCHANGED <<kube, cloud, faults>>
  <2>1. HandlerInv(h) /\ CallTypeOK
    BY <1>1, <1>2, CallFact, TypeParts, Zenon DEF CallsInv
  <2>2. HandlerInv(h)'
    BY <1>1, <1>2, <2>1, Zenon DEF HandlerInv, Goto, CallTypeOK, KeyOf, At, Led, Busy,
      Resizes, kube,
      cloud, CreatePCs, DeletePCs, ExpandPCs
  <2> QED
    BY <1>1, <1>2, <2>2, GoesOnStep, Zenon DEF Goto, GoesOn, ExpandPCs
<1> QED
  BY <1>1, <1>2, FailsStep, Zenon DEF ExpandOp

\* A resize starts when no other one is in progress, and does not shrink.
LEMMA ExpandSendStep ==
  ASSUME CallsInv, NEW h \in Handlers, ExpandSend(h)
  PROVE  CallsInv'
<1>1. pc[h] = "eSend" /\ Busy(h)
  BY Zenon DEF ExpandSend, Busy
<1>2. CASE ReturnOnly(h) \/ Fails(h)
  BY <1>1, <1>2, FailsStep, Zenon
<1>3. CASE ~(ReturnOnly(h) \/ Fails(h))
  <2>1. PICK i \in Instances, v \in Volumes :
           /\ v = vol[h] /\ i = At(h) /\ i[2] = v /\ Led(i)
           /\ KubeInv(v) /\ InstanceInv(i) /\ HandlerInv(h)
    BY <1>1, CallFact, Zenon
  <2> DEFINE x == Update({"capacity_gib"}, RequestGib(req[h]), {})
  <2>2. /\ inst[i] = "ACTIVE"
        /\ updates' = [updates EXCEPT ![i] = @ \cup {x}]
        /\ \/ Goto(h, "eWait") /\ UNCHANGED faults
           \/ Fault /\ Return(h)
        /\ UNCHANGED <<kube, inst, cap, fs, labels, createOp, creates>>
    BY <1>3, <2>1, Zenon DEF ExpandSend
  <2>3. TypeOK /\ CloudTypeOK /\ CallTypeOK
    BY TypeParts, Zenon DEF CallsInv
  <2>4. /\ req[h] \in Requests /\ phase[v] \in {"bound", "released"}
        /\ cap[i] <= RequestGib(req[h])
        /\ RequestGib(req[h]) <= RequestGib(want[v])
        /\ \A u \in updates[i] : ~Resizes(u)
    BY <1>1, <2>1, Zenon DEF HandlerInv, ExpandPCs
  <2>5. RequestGib(req[h]) \in Nat /\ RequestGib(req[h]) \in Gibs
    BY <2>4, RequestFact, Zenon
  <2>6. /\ x \in [mask : SUBSET {"capacity_gib", "labels"}, cap : Gibs \cup {0},
                  labels : SUBSET Labels]
        /\ x.cap = RequestGib(req[h])
    BY <2>5, Zenon DEF Update
  <2> HIDE DEF x
  <2>7. updates'[i] = updates[i] \cup {x}
    BY <2>1, <2>2, <2>3, Zenon DEF CloudTypeOK
  <2>8. KubeTypeOK' /\ CloudTypeOK' /\ static' = static
    BY <2>1, <2>2, <2>3, <2>6, TypeFrame, ZenonT(30) DEF CloudTypeOK, kube
  <2>9. (\A w \in Volumes : SameKube(w)) /\ (\A j \in Instances : j # i => SameCloud(j))
    BY <2>2, <2>3, Zenon DEF SameKube, SameCloud, CloudTypeOK, kube
  <2>10. KubeInv(v)'
    BY <2>1, <2>8, <2>9, KubeFrame, Zenon
  <2>11. Led(i)' /\ Used(i) /\ Used(i)'
    BY <2>1, <2>2, <2>4, Zenon DEF Led, Used, HadPV, kube
  <2>12. InstanceInv(i)'
    <3>1. CreationInv(i)'
      BY <2>1, <2>2, <2>11, Zenon DEF InstanceInv, CreationInv, kube
    <3>2. PhaseInv(i)'
      BY <2>1, <2>2, <2>11, Zenon DEF InstanceInv, PhaseInv, kube
    <3>3. UpdateInv(i)'
      <4>1. UpdateInv(i) /\ UNCHANGED <<want, inst, cap>>
        BY <2>1, <2>2, Zenon DEF InstanceInv, kube
      <4>2. \A u \in updates'[i] : Resizes(u)' => u.cap = RequestGib(req[h])
        BY <2>4, <2>6, <2>7, Zenon DEF Resizes
      <4> QED
        BY <2>1, <2>2, <2>4, <2>11, <4>1, <4>2, ZenonT(30) DEF UpdateInv
    <3> QED
      BY <3>1, <3>2, <3>3, Zenon DEF InstanceInv
  <2>13. ASSUME Goto(h, "eWait") PROVE HandlerInv(h)'
    <3>1. pc'[h] = "eWait" /\ UNCHANGED <<locks, vol, zone, req>>
      BY <2>3, <2>13, Zenon DEF Goto, CallTypeOK
    <3>2. \A u \in updates'[i] : Resizes(u) => u.cap <= RequestGib(req[h])
      BY <2>4, <2>5, <2>6, <2>7
    <3>3. At(h)' = i /\ KeyOf(h)' = KeyOf(h)
      BY <1>1, <2>1, <3>1, Zenon DEF At, KeyOf, CreatePCs
    <3> QED
      BY <1>1, <2>1, <2>2, <2>11, <3>1, <3>2, <3>3, Zenon DEF HandlerInv, Busy, Resizes, kube,
        CreatePCs, DeletePCs, ExpandPCs
  <2>14. About(i)
    BY <2>1, <2>2, <2>8, <2>9, <2>10, <2>11, <2>12, Zenon DEF About, MayFail
  <2> QED
    BY <1>1, <2>1, <2>2, <2>13, <2>14, CallStep, Zenon DEF Proceeds, Goto, GoesOn, ExpandPCs
<1> QED
  BY <1>2, <1>3, Zenon

\* ControllerExpandVolume waits for the update operation.
LEMMA ExpandWaitStep ==
  ASSUME CallsInv, NEW h \in Handlers, ExpandWait(h)
  PROVE  CallsInv'
BY FailsStep, Zenon DEF ExpandWait, Busy
=============================================================================
