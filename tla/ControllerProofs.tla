-------------------------- MODULE ControllerProofs --------------------------
(***************************************************************************)
(* The safety theorems about the two controllers, for every number of      *)
(* volumes, handlers, zones and faults, and for all requests.  The steps   *)
(* of the service, of Kubernetes and of the label controller preserve the  *)
(* invariant as well; the theorems follow from it.                         *)
(***************************************************************************)
EXTENDS ControllerCalls

-----------------------------------------------------------------------------
(* The service.                                                            *)

\* A step of the service is about one instance.
LEMMA ServiceAbout ==
  ASSUME CallsInv, NEW i \in Instances, UNCHANGED kube, CloudTypeOK', MayFail,
         \A j \in Instances : j # i => SameCloud(j), InstanceInv(i)'
  PROVE  About(i)
<1>1. TypeOK /\ i[2] \in Volumes /\ KubeInv(i[2])
  BY InstanceFact, Zenon DEF CallsInv
<1>2. KubeTypeOK' /\ static' = static /\ \A w \in Volumes : SameKube(w)
  BY <1>1, TypeFrame, Zenon DEF kube, SameKube
<1>3. KubeInv(i[2])'
  BY <1>1, <1>2, KubeFrame, Zenon
<1> QED
  BY <1>1, <1>2, <1>3, Zenon DEF About

\* The state of an instance changes while its create operation stays: suspension, a
\* failed deletion, and the deletion of a released volume by hand.
LEMMA BecomesStep ==
  ASSUME CallsInv, NEW i \in Instances,
         Suspend(i) \/ Resume(i) \/ FailDelete(i) \/ OperatorDeletes(i)
  PROVE  CallsInv'
<1>1. PICK f, t \in {"ACTIVE", "REPAIRING", "DELETING"} :
         /\ Becomes(i, f, t)
         /\ t = "DELETING" => i = Home(i[2]) /\ phase[i[2]] = "released"
  BY Zenon DEF Suspend, Resume, FailDelete, OperatorDeletes
<1>2. TypeOK /\ CloudTypeOK /\ InstanceInv(i)
  BY TypeParts, Zenon DEF CallsInv
<1>3. /\ inst[i] \in {"ACTIVE", "REPAIRING", "DELETING"} /\ inst'[i] = t
      /\ inst' = [inst EXCEPT ![i] = t]
      /\ UNCHANGED <<kube, cap, fs, labels, createOp, updates, creates, locks, calls>>
  BY <1>1, <1>2, Zenon DEF Becomes, CloudTypeOK
<1>4. CloudTypeOK'
  BY <1>2, <1>3, Zenon DEF CloudTypeOK
<1>5. MayFail
  BY Zenon DEF Suspend, Resume, FailDelete, OperatorDeletes, MayFail
<1>6. \A j \in Instances : j # i => SameCloud(j)
  BY <1>2, <1>3, Zenon DEF SameCloud, CloudTypeOK
<1>7. (Led(i)' <=> Led(i)) /\ (Used(i)' <=> Used(i)) /\ UNCHANGED <<phase, want, heard, static>>
  BY <1>3, LedFrame, Zenon DEF kube
<1>8. t = "DELETING" => Used(i)
  <2>1. i = Home(i[2]) => Led(i)
    BY InstanceFact DEF Home, Led
  <2> QED
    BY <1>1, <2>1, Zenon DEF Used, HadPV
<1>9. InstanceInv(i)'
  <2>1. CreationInv(i)'
    BY <1>2, <1>3, <1>7, Zenon DEF InstanceInv, CreationInv
  <2>2. PhaseInv(i)'
    BY <1>1, <1>2, <1>3, <1>7, <1>8, Zenon DEF InstanceInv, PhaseInv
  <2>3. UpdateInv(i)'
    BY <1>2, <1>3, <1>7, Zenon DEF InstanceInv, UpdateInv, Resizes
  <2> QED
    BY <2>1, <2>2, <2>3, Zenon DEF InstanceInv
<1>10. ASSUME NEW g \in Handlers, Busy(g), At(g) = i PROVE HandlerInv(g)'
  <2>1. HandlerInv(g)
    BY <1>10, CallFact, Zenon
  <2>2. /\ At(g)' = i /\ KeyOf(g)' = KeyOf(g) /\ Led(i)'
        /\ UNCHANGED <<pc, vol, zone, req, pick, locks>>
    BY <1>3, <1>7, <1>10, <2>1, Zenon DEF At, KeyOf, HandlerInv, calls
  <2> QED
    BY <1>3, <1>7, <1>10, <2>1, <2>2, ZenonT(30) DEF HandlerInv, Busy, Resizes
<1> QED
  BY <1>3, <1>4, <1>5, <1>6, <1>9, <1>10, ServiceAbout, InstanceStep, Zenon

\* A create operation ends with an active instance.
LEMMA FinishCreateStep ==
  ASSUME CallsInv, NEW i \in Instances, FinishCreate(i)
  PROVE  CallsInv'
<1>1. TypeOK /\ CloudTypeOK /\ InstanceInv(i)
  BY TypeParts, Zenon DEF CallsInv
<1>2. /\ inst[i] = "CREATING"
      /\ inst' = [inst EXCEPT ![i] = "ACTIVE"]
      /\ createOp' = [createOp EXCEPT ![i] = "done"]
      /\ UNCHANGED <<kube, cap, fs, labels, updates, creates, locks, calls, faults>>
  BY Zenon DEF FinishCreate
<1>3. inst'[i] = "ACTIVE" /\ createOp'[i] = "done"
  BY <1>1, <1>2, Zenon DEF CloudTypeOK
<1>4. CloudTypeOK' /\ MayFail
  BY <1>1, <1>2, Zenon DEF CloudTypeOK, MayFail
<1>5. \A j \in Instances : j # i => SameCloud(j)
  BY <1>1, <1>2, Zenon DEF SameCloud, CloudTypeOK
<1>6. (Led(i)' <=> Led(i)) /\ (Used(i)' <=> Used(i)) /\ UNCHANGED <<phase, want, heard, static>>
  BY <1>2, LedFrame, Zenon DEF kube
<1>7. createOp[i] = "running" /\ ~Used(i)
  BY <1>1, <1>2, Zenon DEF InstanceInv, CreationInv, PhaseInv
<1>8. InstanceInv(i)'
  <2>1. CreationInv(i)'
    BY <1>1, <1>2, <1>3, <1>6, <1>7, Zenon DEF InstanceInv, CreationInv
  <2>2. PhaseInv(i)'
    BY <1>1, <1>2, <1>3, <1>6, <1>7, Zenon DEF InstanceInv, PhaseInv
  <2>3. UpdateInv(i)'
    BY <1>1, <1>2, <1>3, <1>6, <1>7, Zenon DEF InstanceInv, UpdateInv
  <2> QED
    BY <2>1, <2>2, <2>3, Zenon DEF InstanceInv
<1>9. ASSUME NEW g \in Handlers, Busy(g), At(g) = i PROVE HandlerInv(g)'
  <2>1. HandlerInv(g) /\ Led(i) /\ i[2] = vol[g]
    BY <1>9, CallFact, Zenon
  <2>2. /\ At(g)' = i /\ KeyOf(g)' = KeyOf(g)
        /\ UNCHANGED <<pc, vol, zone, req, pick, locks>>
    BY <1>2, <1>9, Zenon DEF At, KeyOf, calls
  <2>3. pc[g] \notin DeletePCs /\ pc[g] \notin ExpandPCs
    BY <1>7, <2>1, Zenon DEF HandlerInv, Used, HadPV
  <2> QED
    BY <1>2, <1>3, <1>6, <1>7, <1>9, <2>1, <2>2, <2>3, ZenonT(30) DEF HandlerInv, Busy, CreatePCs,
      ExpandPCs
<1> QED
  BY <1>2, <1>4, <1>5, <1>8, <1>9, ServiceAbout, InstanceStep, Zenon

\* An instance goes and leaves nothing behind.
LEMMA VanishFact ==
  ASSUME CallsInv, NEW i \in Instances, Vanish(i), UNCHANGED <<kube, creates, faults>>,
         UNCHANGED createOp \/ createOp' = [createOp EXCEPT ![i] = "failed"]
  PROVE  /\ CloudTypeOK' /\ MayFail
         /\ \A j \in Instances : j # i => SameCloud(j)
         /\ inst'[i] = "none" /\ cap'[i] = 0 /\ updates'[i] = {}
         /\ (Led(i)' <=> Led(i)) /\ (Used(i)' <=> Used(i))
<1>1. TypeOK /\ CloudTypeOK
  BY TypeParts, Zenon DEF CallsInv
<1>2. /\ inst' \in [Instances -> {"none", "CREATING", "ACTIVE", "REPAIRING", "DELETING"}]
      /\ cap' \in [Instances -> Gibs \cup {0}]
      /\ fs' \in [Instances -> FSNames \cup {None}]
  BY <1>1, Zenon DEF CloudTypeOK, Vanish
<1>3. /\ labels' \in [Instances -> SUBSET Labels]
      /\ updates' \in [Instances -> SUBSET [mask : SUBSET {"capacity_gib", "labels"},
                                           cap : Gibs \cup {0}, labels : SUBSET Labels]]
  BY <1>1, Zenon DEF CloudTypeOK, Vanish
<1>4. /\ createOp' \in [Instances -> {"none", "running", "done", "failed"}]
      /\ creates' \in [Instances -> Nat]
  BY <1>1, Zenon DEF CloudTypeOK
<1>5. CloudTypeOK'
  BY <1>2, <1>3, <1>4, Zenon DEF CloudTypeOK
<1>6. MayFail /\ UNCHANGED <<phase, home>>
  BY Zenon DEF MayFail, kube
<1>7. ASSUME NEW j \in Instances, j # i PROVE SameCloud(j)
  <2>1. createOp'[j] = createOp[j]
    BY <1>1, <1>7, Zenon DEF CloudTypeOK
  <2> QED
    BY <1>1, <1>7, <2>1, Zenon DEF SameCloud, CloudTypeOK, Vanish
<1>8. inst'[i] = "none" /\ cap'[i] = 0 /\ updates'[i] = {}
  BY <1>1, Zenon DEF CloudTypeOK, Vanish
<1>9. (Led(i)' <=> Led(i)) /\ (Used(i)' <=> Used(i))
  BY <1>6, LedFrame, Zenon
<1> QED
  BY <1>5, <1>6, <1>7, <1>8, <1>9, Zenon

\* A create operation fails; a call that waits for it sees the failure.
LEMMA FailCreateStep ==
  ASSUME CallsInv, NEW i \in Instances, FailCreate(i)
  PROVE  CallsInv'
<1>1. CloudTypeOK /\ InstanceInv(i)
  BY TypeParts, Zenon DEF CallsInv
<1>2. /\ inst[i] = "CREATING" /\ Vanish(i)
      /\ createOp' = [createOp EXCEPT ![i] = "failed"]
      /\ UNCHANGED <<kube, creates, locks, calls, faults>>
  BY Zenon DEF FailCreate
<1>3. /\ CloudTypeOK' /\ MayFail
      /\ \A j \in Instances : j # i => SameCloud(j)
      /\ inst'[i] = "none" /\ cap'[i] = 0 /\ updates'[i] = {}
      /\ (Led(i)' <=> Led(i)) /\ (Used(i)' <=> Used(i))
  BY <1>2, VanishFact, Zenon
<1>4. createOp'[i] = "failed"
  BY <1>1, <1>2, Zenon DEF CloudTypeOK
<1>5. createOp[i] = "running" /\ ~Used(i) /\ UNCHANGED <<phase, want, heard, static>>
  BY <1>1, <1>2, Zenon DEF InstanceInv, CreationInv, PhaseInv, kube
<1>6. InstanceInv(i)'
  <2>1. CreationInv(i)'
    BY <1>1, <1>2, <1>3, <1>4, <1>5, Zenon DEF InstanceInv, CreationInv
  <2>2. PhaseInv(i)'
    BY <1>3, <1>4, <1>5, Zenon DEF PhaseInv
  <2>3. UpdateInv(i)'
    BY <1>3, <1>5, Zenon DEF UpdateInv
  <2> QED
    BY <2>1, <2>2, <2>3, Zenon DEF InstanceInv
<1>7. ASSUME NEW g \in Handlers, Busy(g), At(g) = i PROVE HandlerInv(g)'
  <2>1. HandlerInv(g) /\ Led(i) /\ i[2] = vol[g]
    BY <1>7, CallFact, Zenon
  <2>2. /\ At(g)' = i /\ KeyOf(g)' = KeyOf(g)
        /\ UNCHANGED <<pc, vol, zone, req, pick, locks>>
    BY <1>2, <1>7, Zenon DEF At, KeyOf, calls
  <2>3. pc[g] \notin DeletePCs /\ pc[g] \notin ExpandPCs
    BY <1>5, <2>1, Zenon DEF HandlerInv, Used, HadPV
  <2> QED
    BY <1>3, <1>4, <1>5, <1>7, <2>1, <2>2, <2>3, ZenonT(30) DEF HandlerInv, Busy, CreatePCs,
      ExpandPCs
<1> QED
  BY <1>2, <1>3, <1>6, <1>7, ServiceAbout, InstanceStep, Zenon

\* A deletion ends; the volume was released.
LEMMA FinishDeleteStep ==
  ASSUME CallsInv, NEW i \in Instances, FinishDelete(i)
  PROVE  CallsInv'
<1>1. InstanceInv(i) /\ i[2] \in Volumes /\ KubeInv(i[2])
  BY InstanceFact, Zenon DEF CallsInv
<1>2. /\ inst[i] = "DELETING" /\ Vanish(i)
      /\ UNCHANGED <<kube, createOp, creates, locks, calls, faults>>
  BY Zenon DEF FinishDelete
<1>3. /\ CloudTypeOK' /\ MayFail
      /\ \A j \in Instances : j # i => SameCloud(j)
      /\ inst'[i] = "none" /\ cap'[i] = 0 /\ updates'[i] = {}
      /\ (Led(i)' <=> Led(i)) /\ (Used(i)' <=> Used(i))
  BY <1>2, VanishFact, Zenon
<1>4. Used(i) /\ phase[i[2]] # "bound" /\ UNCHANGED <<phase, want, heard, static>>
  BY <1>1, <1>2, Zenon DEF InstanceInv, PhaseInv, kube
<1>5. InstanceInv(i)'
  <2>1. CreationInv(i)'
    BY <1>1, <1>2, <1>3, <1>4, Zenon DEF InstanceInv, CreationInv
  <2>2. PhaseInv(i)'
    BY <1>1, <1>2, <1>3, <1>4, Zenon DEF InstanceInv, PhaseInv
  <2>3. want[i[2]] \in Requests
    BY <1>1, <1>4, Zenon DEF KubeInv, Used
  <2>4. 0 <= RequestGib(want[i[2]])
    BY <2>3, RequestFact
  <2>5. UpdateInv(i)'
    BY <1>3, <1>4, <2>4, Zenon DEF UpdateInv
  <2> QED
    BY <2>1, <2>2, <2>5, Zenon DEF InstanceInv
<1>6. ASSUME NEW g \in Handlers, Busy(g), At(g) = i PROVE HandlerInv(g)'
  <2>1. HandlerInv(g) /\ Led(i) /\ i[2] = vol[g]
    BY <1>6, CallFact, Zenon
  <2>2. /\ At(g)' = i /\ KeyOf(g)' = KeyOf(g)
        /\ UNCHANGED <<pc, vol, zone, req, pick, locks>>
    BY <1>2, <1>6, Zenon DEF At, KeyOf, calls
  <2>3. pc[g] \notin CreatePCs
    BY <1>4, <2>1, Zenon DEF HandlerInv, Used, HadPV
  <2>4. req[g] \in Requests => 0 <= RequestGib(req[g])
    BY RequestFact
  <2> QED
    BY <1>3, <1>4, <1>6, <2>1, <2>2, <2>3, <2>4, ZenonT(30) DEF HandlerInv, Busy, CreatePCs
<1> QED
  BY <1>2, <1>3, <1>5, <1>6, ServiceAbout, InstanceStep, Zenon

\* An update that ends leaves the expansion of the others possible: they all lead
\* to one capacity.
LEMMA FinishUpdateStep ==
  ASSUME CallsInv, NEW i \in Instances, FinishUpdate(i)
  PROVE  CallsInv'
<1>1. InstanceInv(i)
  BY Zenon DEF CallsInv
<1>2. TypeOK /\ CloudTypeOK
  BY TypeParts, Zenon DEF CallsInv
<1>3. PICK u \in updates[i] :
        /\ updates' = [updates EXCEPT ![i] = @ \ {u}]
        /\ \/ /\ cap' = IF Resizes(u) THEN [cap EXCEPT ![i] = u.cap] ELSE cap
              /\ labels' = IF "labels" \in u.mask THEN [labels EXCEPT ![i] = u.labels]
                                                  ELSE labels
              /\ UNCHANGED faults
           \/ Fault /\ UNCHANGED <<cap, labels>>
        /\ UNCHANGED <<kube, inst, fs, createOp, creates, locks, calls>>
  BY Zenon DEF FinishUpdate, Resizes
<1>4. u.cap \in Gibs \cup {0} /\ u.labels \subseteq Labels
  BY <1>2 DEF CloudTypeOK
<1>5. /\ cap' = cap \/ (Resizes(u) /\ cap' = [cap EXCEPT ![i] = u.cap])
      /\ labels' = labels \/ labels' = [labels EXCEPT ![i] = u.labels]
      /\ MayFail
  BY <1>3, Zenon DEF MayFail
<1>6. updates'[i] = updates[i] \ {u}
  BY <1>2, <1>3, Zenon DEF CloudTypeOK
<1>7. cap'[i] = cap[i] \/ (Resizes(u) /\ cap'[i] = u.cap)
  BY <1>2, <1>5, Zenon DEF CloudTypeOK
<1>8. /\ UNCHANGED <<phase, want, home, heard, static>>
      /\ UNCHANGED <<inst, createOp, creates>>
  BY <1>3, Zenon DEF kube
<1>9. CloudTypeOK'
  <2>1. cap' \in [Instances -> Gibs \cup {0}] /\ labels' \in [Instances -> SUBSET Labels]
    BY <1>2, <1>4, <1>5, Zenon DEF CloudTypeOK
  <2>2. updates' \in [Instances -> SUBSET [mask : SUBSET {"capacity_gib", "labels"},
                                           cap : Gibs \cup {0}, labels : SUBSET Labels]]
    BY <1>2, <1>3, Zenon DEF CloudTypeOK
  <2> QED
    BY <1>2, <1>3, <2>1, <2>2, Zenon DEF CloudTypeOK
<1>10. ASSUME NEW j \in Instances, j # i PROVE SameCloud(j)
  <2>1. cap'[j] = cap[j]
    BY <1>2, <1>5, <1>10, Zenon DEF CloudTypeOK
  <2>2. updates'[j] = updates[j]
    BY <1>2, <1>3, <1>10, Zenon DEF CloudTypeOK
  <2> QED
    BY <1>8, <2>1, <2>2, Zenon DEF SameCloud
<1>11. Used(i) /\ inst[i] # "none"
  BY <1>1, <1>3, Zenon DEF InstanceInv, UpdateInv
<1>12. (Led(i)' <=> Led(i)) /\ Used(i)'
  BY <1>8, <1>11, LedFrame, Zenon
<1>13. InstanceInv(i)'
  <2>1. CreationInv(i)'
    BY <1>1, <1>8, <1>11, <1>12, Zenon DEF InstanceInv, CreationInv
  <2>2. PhaseInv(i)'
    BY <1>1, <1>8, <1>11, <1>12, Zenon DEF InstanceInv, PhaseInv
  <2>3. /\ cap'[i] <= RequestGib(want[i[2]])
        /\ \A x \in updates'[i] :
             Resizes(x) => cap'[i] <= x.cap /\ x.cap <= RequestGib(want[i[2]])
        /\ \A x, y \in updates'[i] : Resizes(x) /\ Resizes(y) => x.cap = y.cap
    <3>1. u.cap \in Nat
      BY <1>4, GibsFact, Zenon
    <3>2. /\ cap[i] <= RequestGib(want[i[2]])
          /\ \A x \in updates[i] :
               Resizes(x) => cap[i] <= x.cap /\ x.cap <= RequestGib(want[i[2]])
          /\ \A x, y \in updates[i] : Resizes(x) /\ Resizes(y) => x.cap = y.cap
      BY <1>1, <1>11, Zenon DEF InstanceInv, UpdateInv
    <3>3. u \in updates[i]
      BY <1>3, Zenon
    <3>4. ASSUME NEW x \in updates'[i], Resizes(x)
          PROVE  cap'[i] <= x.cap /\ x.cap <= RequestGib(want[i[2]])
      BY <1>6, <1>7, <3>1, <3>2, <3>3, <3>4, SMTT(60)
    <3>5. cap'[i] <= RequestGib(want[i[2]])
      BY <1>7, <3>2, <3>3, Zenon
    <3>6. \A x, y \in updates'[i] : Resizes(x) /\ Resizes(y) => x.cap = y.cap
      BY <1>6, <3>2, Zenon
    <3> QED
      BY <3>4, <3>5, <3>6, Zenon
  <2>4. UpdateInv(i)'
    BY <1>8, <1>11, <1>12, <2>3, Zenon DEF UpdateInv, Resizes
  <2> QED
    BY <2>1, <2>2, <2>4, Zenon DEF InstanceInv
<1>14. ASSUME NEW g \in Handlers, Busy(g), At(g) = i PROVE HandlerInv(g)'
  <2>1. HandlerInv(g) /\ Led(i) /\ i[2] = vol[g]
    BY <1>14, CallFact, Zenon
  <2>2. /\ At(g)' = i /\ KeyOf(g)' = KeyOf(g)
        /\ UNCHANGED <<pc, vol, zone, req, pick, locks>>
    BY <1>3, <1>14, Zenon DEF At, KeyOf, calls
  <2>3. pc[g] \notin CreatePCs
    BY <1>11, <2>1, Zenon DEF HandlerInv, Used, HadPV
  <2>4. pc[g] \in ExpandPCs =>
          /\ cap'[i] <= RequestGib(req[g])
          /\ \A x \in updates'[i] : Resizes(x) => x.cap <= RequestGib(req[g])
    BY <1>3, <1>6, <1>7, <1>14, <2>1, ZenonT(30) DEF HandlerInv
  <2>5. pc[g] = "eSend" => \A x \in updates'[i] : ~Resizes(x)
    BY <1>6, <1>14, <2>1, Zenon DEF HandlerInv
  <2> QED
    BY <1>8, <1>12, <1>14, <2>1, <2>2, <2>3, <2>4, <2>5, ZenonT(30) DEF HandlerInv, Busy, Resizes,
      CreatePCs
<1> QED
  BY <1>3, <1>5, <1>9, <1>10, <1>13, <1>14, ServiceAbout, InstanceStep, Zenon

\* All steps of the service.
LEMMA ServiceStep ==
  ASSUME CallsInv, NEW i \in Instances, Service(i)
  PROVE  CallsInv'
BY BecomesStep, FinishCreateStep, FailCreateStep, FinishDeleteStep, FinishUpdateStep, Zenon
  DEF Service

-----------------------------------------------------------------------------
(* Kubernetes and restarts.                                                *)

\* The user may only ask for more, so what is under way stays within it.
LEMMA RaiseStep ==
  ASSUME CallsInv, NEW v \in Volumes, Raise(v)
  PROVE  CallsInv'
<1>1. PICK i \in Instances : i = Home(v) /\ i[2] = v /\ Led(i)
  BY HomeFact, Zenon DEF Raise, HadPV
<1>2. TypeOK /\ KubeTypeOK /\ KubeInv(v) /\ InstanceInv(i) /\ phase[v] = "bound" /\ Used(i)
  BY <1>1, TypeParts, Zenon DEF CallsInv, Raise, Used, HadPV
<1>3. PICK r \in Requests :
        /\ Valid(r) /\ getRequestCapacity(r) > getRequestCapacity(want[v])
        /\ want' = [want EXCEPT ![v] = r]
  BY Zenon DEF Raise
<1>4. /\ UNCHANGED <<phase, home, heard, static, cloud, locks, calls, faults>>
      /\ want'[v] = r
  BY <1>2, <1>3, Zenon DEF Raise, KubeTypeOK
<1>5. want[v] \in Requests
  BY <1>2, Zenon DEF KubeInv, HadPV
<1>6. /\ RequestGib(want[v]) \in Nat /\ RequestGib(r) \in Nat
      /\ RequestGib(want[v]) <= RequestGib(r)
  <2>1. getRequestCapacity(r) \in Nat /\ getRequestCapacity(want[v]) \in Nat
    BY <1>5, RequestFact, Zenon
  <2> QED
    BY <1>3, <1>5, <2>1, RequestFact, GibFact, SMTT(60) DEF RequestGib
<1>7. /\ cap[i] \in Nat
      /\ \A u \in updates[i] : u.cap \in Nat
  BY <1>2, GibsFact, SMTT(30) DEF TypeOK
<1>8. KubeTypeOK' /\ CloudTypeOK' /\ MayFail
  BY <1>2, <1>3, <1>4, TypeFrame, Zenon DEF KubeTypeOK, MayFail
<1>9. (\A w \in Volumes : w # v => SameKube(w)) /\ (\A j \in Instances : SameCloud(j))
  BY <1>2, <1>3, <1>4, Zenon DEF SameKube, SameCloud, KubeTypeOK, cloud
<1>10. KubeInv(v)'
  BY <1>2, <1>3, <1>4, Zenon DEF KubeInv, HadPV
<1>11. Led(i)' /\ Used(i)'
  BY <1>1, <1>2, <1>4, LedFrame, Zenon
<1>12. InstanceInv(i)'
  <2>1. CreationInv(i)'
    BY <1>2, <1>4, <1>11, Zenon DEF InstanceInv, CreationInv, cloud
  <2>2. PhaseInv(i)'
    BY <1>2, <1>4, <1>11, Zenon DEF InstanceInv, PhaseInv, cloud
  <2>3. /\ cap[i] <= RequestGib(want[v])
        /\ \A u \in updates[i] : Resizes(u) => u.cap <= RequestGib(want[v])
    BY <1>1, <1>2, Zenon DEF InstanceInv, UpdateInv
  <2>4. /\ cap[i] <= RequestGib(r)
        /\ \A u \in updates[i] : Resizes(u) => u.cap <= RequestGib(r)
    BY <1>6, <1>7, <2>3
  <2>5. UpdateInv(i)'
    BY <1>1, <1>2, <1>4, <1>11, <2>4, Zenon DEF InstanceInv, UpdateInv, Resizes, cloud
  <2> QED
    BY <2>1, <2>2, <2>5, Zenon DEF InstanceInv
<1>13. ASSUME NEW g \in Handlers, Busy(g), vol[g] = v PROVE HandlerInv(g)'
  <2>1. HandlerInv(g) /\ At(g) = i
    BY <1>1, <1>13, CallFact, Zenon
  <2>2. pc[g] \notin CreatePCs
    BY <1>2, <1>13, <2>1, Zenon DEF HandlerInv
  <2>3. pc[g] \in ExpandPCs => req[g] \in Requests /\ RequestGib(req[g]) <= RequestGib(want[v])
    BY <1>13, <2>1, Zenon DEF HandlerInv
  <2>4. pc[g] \in ExpandPCs => RequestGib(req[g]) <= RequestGib(r)
    BY <1>6, <2>3, RequestFact
  <2>5. /\ At(g)' = At(g) /\ KeyOf(g)' = KeyOf(g) /\ Led(At(g))'
        /\ UNCHANGED <<pc, vol, zone, req, pick, locks>>
    BY <1>4, <1>11, <2>1, Zenon DEF At, KeyOf, calls
  <2> QED
    BY <1>4, <1>13, <2>1, <2>2, <2>4, <2>5, ZenonT(30) DEF HandlerInv, Busy, Resizes, cloud,
      CreatePCs
<1>14. About(i)
  BY <1>1, <1>4, <1>8, <1>9, <1>10, <1>11, <1>12, Zenon DEF About
<1> QED
  BY <1>1, <1>4, <1>13, <1>14, AboutFact, VolumeStep, Zenon

\* A volume is released, or given up when no call for it is running.
LEMMA MovesStep ==
  ASSUME CallsInv, NEW v \in Volumes, Release(v) \/ GiveUp(v)
  PROVE  CallsInv'
<1>1. TypeOK /\ KubeTypeOK /\ KubeInv(v)
  BY TypeParts, Zenon DEF CallsInv
<1>2. PICK t \in {"released", "abandoned"} :
        /\ phase' = [phase EXCEPT ![v] = t]
        /\ t = "released" => phase[v] = "bound" /\ v \notin static
        /\ t = "abandoned" => phase[v] = "wanted" /\ heard[v] # "again"
        /\ UNCHANGED <<want, home, heard, static, cloud, locks, calls, faults>>
  BY Zenon DEF Release, GiveUp, Moves
<1>3. phase'[v] = t /\ (HadPV(v)' <=> HadPV(v))
  BY <1>1, <1>2, Zenon DEF KubeTypeOK, HadPV
<1>4. KubeTypeOK' /\ CloudTypeOK' /\ MayFail
  BY <1>1, <1>2, TypeFrame, Zenon DEF KubeTypeOK, MayFail
<1>5. (\A w \in Volumes : w # v => SameKube(w)) /\ (\A j \in Instances : SameCloud(j))
  BY <1>1, <1>2, Zenon DEF SameKube, SameCloud, KubeTypeOK, cloud
<1>6. KubeInv(v)'
  BY <1>1, <1>2, <1>3, Zenon DEF KubeInv
<1>7. ASSUME NEW j \in Instances, j[2] = v PROVE InstanceInv(j)'
  <2>1. InstanceInv(j)
    BY Zenon DEF CallsInv
  <2>2. (Led(j)' <=> Led(j)) /\ (Used(j)' <=> Used(j))
    BY <1>2, <1>3, <1>7, Zenon DEF Led, Used
  <2>3. CreationInv(j)'
    BY <1>2, <2>1, <2>2, Zenon DEF InstanceInv, CreationInv, cloud
  <2>4. PhaseInv(j)'
    BY <1>2, <1>3, <1>7, <2>1, <2>2, Zenon DEF InstanceInv, PhaseInv, cloud
  <2>5. UpdateInv(j)'
    BY <1>2, <2>1, <2>2, Zenon DEF InstanceInv, UpdateInv, Resizes, cloud
  <2> QED
    BY <2>3, <2>4, <2>5, Zenon DEF InstanceInv
<1>8. ASSUME NEW g \in Handlers, Busy(g), vol[g] = v PROVE HandlerInv(g)'
  <2>1. HandlerInv(g) /\ pc[g] \in CreatePCs \cup DeletePCs \cup ExpandPCs
    BY <1>1, <1>8, CallFact, Zenon DEF TypeOK, Busy
  <2>2. t = "released" /\ pc[g] \in ExpandPCs
    BY <1>2, <1>8, <2>1, Zenon DEF HandlerInv
  <2>3. /\ At(g)' = At(g) /\ KeyOf(g)' = KeyOf(g) /\ (Led(At(g))' <=> Led(At(g)))
        /\ UNCHANGED <<pc, vol, zone, req, pick, locks>>
    BY <1>2, Zenon DEF At, KeyOf, Led, calls
  <2> QED
    BY <1>2, <1>3, <1>8, <2>1, <2>2, <2>3, ZenonT(30) DEF HandlerInv, Busy, Resizes, cloud,
      CreatePCs, DeletePCs, ExpandPCs
<1>9. Only(v)
  BY <1>2, <1>4, <1>5, <1>6, <1>7, Zenon DEF Only
<1> QED
  BY <1>2, <1>8, <1>9, VolumeStep, Zenon

\* A step that at most changes labels.
LEMMA LabelsOnly ==
  ASSUME CallsInv, UNCHANGED <<kube, inst, cap, createOp, updates, creates>>
  PROVE  /\ \A w \in Volumes : SameKube(w) /\ KubeInv(w)'
         /\ \A j \in Instances : SameCloud(j) /\ InstanceInv(j)'
<1>1. /\ static' = static
      /\ \A w \in Volumes : SameKube(w)
      /\ \A j \in Instances : SameCloud(j)
  BY Zenon DEF SameKube, SameCloud, kube
<1>2. \A w \in Volumes : KubeInv(w)'
  BY <1>1, KubeFrame, Zenon DEF CallsInv
<1>3. \A j \in Instances : InstanceInv(j)'
  BY <1>1, InstanceFact, InstanceFrame, Zenon DEF CallsInv
<1> QED
  BY <1>1, <1>2, <1>3, Zenon

\* A restart forgets all calls, and the locks with them.
LEMMA RestartStep ==
  ASSUME CallsInv, Restart
  PROVE  CallsInv'
<1>1. \A h \in Handlers : pc'[h] = "idle"
  BY Zenon DEF Restart
<1>2. CallTypeOK'
  BY Zenon DEF CallTypeOK, Restart
<1>3. TypeOK'
  BY <1>2, TypeFrame, TypePartsPrime, Zenon DEF CallsInv, Restart, MayFail
<1>4. (\A w \in Volumes : KubeInv(w)') /\ (\A j \in Instances : InstanceInv(j)')
  BY LabelsOnly, Zenon DEF Restart, cloud
<1>5. \A h \in Handlers : HandlerInv(h)'
  BY <1>1, Zenon DEF HandlerInv, Busy, CreatePCs, DeletePCs, ExpandPCs
<1>6. OneCallPerVolume'
  BY <1>1, Zenon DEF OneCallPerVolume, Busy
<1> QED
  BY <1>3, <1>4, <1>5, <1>6, Zenon DEF CallsInv

\* Every step of the controller service, the Lustre service and Kubernetes.
LEMMA WorkStep ==
  ASSUME CallsInv, Work
  PROVE  CallsInv'
<1>1. ASSUME NEW h \in Handlers, Step(h) PROVE CallsInv'
  <2>1. CASE \/ CreateGet(h) \/ CreateOp(h) \/ CreateList(h) \/ CreateSend(h) \/ CreateWait(h)
    BY <2>1, CreateGetStep, CreateOpStep, CreateListStep, CreateSendStep, CreateWaitStep, Zenon
  <2>2. CASE DeleteGet(h) \/ DeleteSend(h) \/ DeleteWait(h)
    BY <2>2, DeleteGetStep, DeleteSendStep, DeleteWaitStep, Zenon
  <2>3. CASE ExpandGet(h) \/ ExpandOp(h) \/ ExpandSend(h) \/ ExpandWait(h)
    BY <2>3, ExpandGetStep, ExpandOpStep, ExpandSendStep, ExpandWaitStep, Zenon
  <2> QED
    BY <1>1, <2>1, <2>2, <2>3, Zenon DEF Step
<1> QED
  BY <1>1, CreateVolumeStep, DeleteVolumeStep, ControllerExpandVolumeStep, ServiceStep,
    RaiseStep, MovesStep, Zenon DEF Work

-----------------------------------------------------------------------------
(* The label controller.                                                   *)

\* What of the state belongs to the label controller.
WorkerTypeOK ==
  /\ queue \subseteq Volumes
  /\ at \in {"idle", "get", "update", "wait", "stopped"}
  /\ pv \in Volumes \cup {None}
  /\ write \subseteq Labels
  /\ keep \in [Instances -> SUBSET Labels]

\* ControllerInv is about the calls and about the label controller.
LEMMA InvParts ==
  /\ ControllerInv <=> CallsInv /\ WorkerTypeOK /\ WorkerInv
  /\ ControllerInv' <=> CallsInv' /\ WorkerTypeOK' /\ WorkerInv'
BY Zenon DEF ControllerInv, AllTypeOK, WorkerTypeOK, CallsInv

\* How the phase of a volume may change.
PhaseGoesOn ==
  \/ UNCHANGED phase
  \/ \E w \in Volumes, t \in {"bound", "released", "gone"} : phase' = [phase EXCEPT ![w] = t]
  \/ \E w \in Volumes : phase[w] = "wanted" /\ phase' = [phase EXCEPT ![w] = "abandoned"]

\* A call hands a volume out or reports it deleted, and changes no other phase.
LEMMA StepPhase ==
  ASSUME CallsInv, NEW h \in Handlers, Step(h)
  PROVE  PhaseGoesOn
<1>1. ReturnOnly(h) \/ Fails(h) \/ CreateFails(h) \/ OperationFailed(h) => UNCHANGED phase
  BY Zenon DEF ReturnOnly, Fails, CreateFails, OperationFailed, PassOn, Answer, kube
<1>2. ASSUME CreateSucceeds(h) \/ DeleteSucceeds(h), Busy(h) PROVE PhaseGoesOn
  BY <1>2, CallFact, Zenon DEF CreateSucceeds, DeleteSucceeds, PhaseGoesOn
<1>3. CASE CreateGet(h) \/ CreateOp(h)
  BY <1>1, <1>2, <1>3, ZenonT(30) DEF CreateGet, CreateOp, Answer, Busy, PhaseGoesOn, kube
<1>4. CASE CreateList(h) \/ CreateSend(h) \/ CreateWait(h)
  BY <1>1, <1>2, <1>4, Zenon DEF CreateList, CreateSend, CreateWait, PassOn, Answer, Busy,
    PhaseGoesOn, kube
<1>5. CASE DeleteGet(h) \/ DeleteSend(h) \/ DeleteWait(h)
  BY <1>1, <1>2, <1>5, Zenon DEF DeleteGet, DeleteSend, DeleteWait, Busy, PhaseGoesOn, kube
<1>6. CASE ExpandGet(h) \/ ExpandOp(h) \/ ExpandSend(h) \/ ExpandWait(h)
  BY <1>1, <1>6, Zenon DEF ExpandGet, ExpandOp, ExpandSend, ExpandWait, PhaseGoesOn, kube
<1> QED
  BY <1>3, <1>4, <1>5, <1>6, Zenon DEF Step

\* A volume that had a PV is one that had a PV.
LEMMA HadPVStays ==
  ASSUME CallsInv, Work
  PROVE  \A v \in Volumes : HadPV(v) => HadPV(v)'
<1>1. phase \in [Volumes -> {"wanted", "abandoned", "bound", "released", "gone"}]
  BY Zenon DEF CallsInv, TypeOK
<1>2. ASSUME NEW i \in Instances, Service(i) PROVE UNCHANGED phase
  BY <1>2, Zenon DEF Service, FinishCreate, FailCreate, FinishUpdate, FinishDelete, Suspend,
    Resume, FailDelete, OperatorDeletes, Becomes, kube
<1>3. ASSUME NEW v \in Volumes, Raise(v) \/ Release(v) \/ GiveUp(v) PROVE PhaseGoesOn
  BY <1>3, Zenon DEF Raise, Release, GiveUp, Moves, PhaseGoesOn
<1>4. ASSUME NEW h \in Handlers, NEW v \in Volumes,
             \/ DeleteVolume(h, v) \/ ControllerExpandVolume(h, v)
             \/ \E r \in Requests : CreateVolume(h, v, r)
      PROVE  UNCHANGED phase
  BY <1>4, Zenon DEF DeleteVolume, ControllerExpandVolume, CreateVolume, kube
<1>5. PhaseGoesOn
  BY <1>2, <1>3, <1>4, StepPhase, Zenon DEF Work, PhaseGoesOn
<1> QED
  BY <1>1, <1>5, Zenon DEF PhaseGoesOn, HadPV

\* The steps of the controller service, with the watch of the label controller.
LEMMA ControllerWorkStep ==
  ASSUME ControllerInv, ControllerWork
  PROVE  ControllerInv'
<1>1. CallsInv /\ WorkerTypeOK /\ WorkerInv /\ Work
  BY InvParts, Zenon DEF ControllerWork
<1>2. CallsInv'
  BY <1>1, WorkStep, Zenon
<1>3. keep' \in [Instances -> SUBSET Labels]
  <2>1. labels' \in [Instances -> SUBSET Labels]
    BY <1>2, ZenonT(30) DEF CallsInv, TypeOK
  <2> QED
    BY <1>1, <2>1, Zenon DEF ControllerWork, KeepLabels, WorkerTypeOK
<1>4. queue' \subseteq Volumes /\ UNCHANGED <<at, pv, write>>
  BY <1>1, Zenon DEF ControllerWork, Watch, WorkerTypeOK, worker
<1>5. WorkerTypeOK'
  BY <1>1, <1>3, <1>4, Zenon DEF WorkerTypeOK
<1>6. WorkerInv'
  BY <1>1, <1>4, HadPVStays, Zenon DEF WorkerInv, HadPV
<1> QED
  BY <1>2, <1>5, <1>6, InvParts, Zenon

\* A step that at most changes labels leaves the calls alone.
LEMMA QuietStep ==
  ASSUME CallsInv, UNCHANGED <<kube, locks, calls>>, CloudTypeOK', MayFail,
         UNCHANGED <<inst, cap, createOp, updates, creates>>
  PROVE  CallsInv'
<1>1. TypeOK'
  BY TypeFrame, TypePartsPrime, Zenon DEF CallsInv
<1>2. /\ \A w \in Volumes : SameKube(w) /\ KubeInv(w)'
      /\ \A j \in Instances : SameCloud(j) /\ InstanceInv(j)'
  BY LabelsOnly, Zenon
<1>3. ASSUME NEW h \in Handlers PROVE HandlerInv(h)'
  <2>1. SameCall(h)
    BY ZenonT(30) DEF SameCall, KeyOf, At, calls
  <2>2. Busy(h) => vol[h] \in Volumes /\ At(h) \in Instances
    BY CallFact, Zenon
  <2> QED
    BY <1>2, <2>1, <2>2, HandlerFrame, Zenon DEF CallsInv
<1>4. OneCallPerVolume'
  BY Zenon DEF CallsInv, OneCallPerVolume, Busy, calls
<1> QED
  BY <1>1, <1>2, <1>3, <1>4, Zenon DEF CallsInv

\* A step of the label controller alone.
LEMMA WorkerStep ==
  ASSUME ControllerInv, Unchanged \/ FaultOnly,
         WorkerTypeOK', WorkerInv'
  PROVE  ControllerInv'
<1>1. CallsInv /\ TypeOK
  BY InvParts, Zenon DEF CallsInv
<1>2. UNCHANGED <<kube, cloud, locks, calls>> /\ MayFail
  BY Zenon DEF Unchanged, FaultOnly, vars, MayFail
<1>3. CloudTypeOK'
  BY <1>1, <1>2, TypeFrame, ZenonT(30)
<1> QED
  BY <1>1, <1>2, <1>3, QuietStep, InvParts, Zenon DEF cloud

\* The update of the labels does not resize.
LEMMA LabelUpdateStep ==
  ASSUME ControllerInv, at = "update", MayFail,
         updates' = [updates EXCEPT ![Home(pv)] = @ \cup {Update({"labels"}, 0, write)}],
         UNCHANGED <<kube, inst, cap, fs, labels, createOp, creates, locks, calls>>,
         inst[Home(pv)] = "ACTIVE"
  PROVE  CallsInv'
<1>1. CallsInv /\ TypeOK /\ CloudTypeOK /\ WorkerTypeOK
  BY InvParts, TypeParts, Zenon DEF CallsInv
<1>2. PICK i \in Instances : i = Home(pv) /\ Used(i)
  BY <1>1, InvParts, HomeFact, Zenon DEF WorkerInv, Used
<1>3. InstanceInv(i)
  BY <1>1, Zenon DEF CallsInv
<1> DEFINE x == Update({"labels"}, 0, write)
<1>4. /\ x \in [mask : SUBSET {"capacity_gib", "labels"}, cap : Gibs \cup {0},
                labels : SUBSET Labels]
      /\ ~Resizes(x)
  BY <1>1, Zenon DEF Update, Resizes, WorkerTypeOK
<1> HIDE DEF x
<1>5. /\ updates' = [updates EXCEPT ![i] = @ \cup {x}]
      /\ updates'[i] = updates[i] \cup {x}
  BY <1>1, <1>2, Zenon DEF CloudTypeOK, x
<1>6. CloudTypeOK'
  <2>1. updates' \in [Instances -> SUBSET [mask : SUBSET {"capacity_gib", "labels"},
                                          cap : Gibs \cup {0}, labels : SUBSET Labels]]
    BY <1>1, <1>4, <1>5, Zenon DEF CloudTypeOK
  <2> QED
    BY <1>1, <2>1, Zenon DEF CloudTypeOK
<1>7. \A j \in Instances : j # i => SameCloud(j)
  BY <1>1, <1>5, Zenon DEF SameCloud, CloudTypeOK
<1>8. (Led(i)' <=> Led(i)) /\ Used(i)' /\ UNCHANGED <<phase, want, heard, static>>
  BY <1>2, LedFrame, Zenon DEF kube
<1>9. InstanceInv(i)'
  <2>1. CreationInv(i)'
    BY <1>2, <1>3, <1>8, Zenon DEF InstanceInv, CreationInv
  <2>2. PhaseInv(i)'
    BY <1>2, <1>3, <1>8, Zenon DEF InstanceInv, PhaseInv
  <2>3. UpdateInv(i)'
    <3>1. inst[i] # "none" /\ (\A u \in updates'[i] : Resizes(u) => u \in updates[i])
      BY <1>2, <1>4, <1>5, Zenon
    <3> QED
      BY <1>2, <1>3, <1>8, <3>1, Zenon DEF InstanceInv, UpdateInv, Resizes
  <2> QED
    BY <2>1, <2>2, <2>3, Zenon DEF InstanceInv
<1>10. ASSUME NEW g \in Handlers, Busy(g), At(g) = i PROVE HandlerInv(g)'
  <2>1. HandlerInv(g)
    BY <1>1, <1>10, CallFact, Zenon
  <2>2. /\ At(g)' = i /\ KeyOf(g)' = KeyOf(g)
        /\ UNCHANGED <<pc, vol, zone, req, pick, locks>>
    BY <1>10, Zenon DEF At, KeyOf, calls
  <2>3. \A u \in updates'[i] : Resizes(u) => u \in updates[i]
    BY <1>4, <1>5, Zenon
  <2> QED
    BY <1>8, <1>10, <2>1, <2>2, <2>3, ZenonT(30) DEF HandlerInv, Busy, Resizes
<1> QED
  BY <1>1, <1>6, <1>7, <1>9, <1>10, ServiceAbout, InstanceStep, Zenon

\* The steps of Reconcile, of the lease and of the resync.
LEMMA LabelStep ==
  ASSUME ControllerInv, Worker \/ LoseLease \/ Resync
  PROVE  ControllerInv'
<1>1. CallsInv /\ WorkerTypeOK /\ WorkerInv
  BY InvParts, Zenon
<1>2. CASE Reconcile
  <2>1. \E v \in queue :
          \/ at' = "get" /\ pv' = v /\ HasPV(v)
          \/ UNCHANGED <<at, pv>>
    BY <1>2, Zenon DEF Reconcile, worker
  <2>2. WorkerTypeOK' /\ (Unchanged \/ FaultOnly) /\ UNCHANGED phase
    BY <1>1, <1>2, Zenon DEF Reconcile, WorkerTypeOK, Unchanged, FaultOnly, worker, vars, kube
  <2>3. WorkerInv'
    BY <1>1, <2>1, <2>2, Zenon DEF WorkerInv, WorkerTypeOK, HasPV, HadPV
  <2> QED
    BY <2>2, <2>3, WorkerStep, Zenon
<1>3. CASE GetInstance
  <2>1. Home(pv) \in Instances
    BY <1>1, <1>3, HomeFact, Zenon DEF GetInstance, WorkerInv
  <2>2. labels[Home(pv)] \subseteq Labels
    BY <1>1, <2>1, ZenonT(30) DEF CallsInv, TypeOK
  <2>3. (Unchanged \/ FaultOnly) /\ UNCHANGED <<phase, keep>>
    BY <1>3, Zenon DEF GetInstance, Unchanged, FaultOnly, vars, kube
  <2>4. pv \in Volumes /\ HadPV(pv)
    BY <1>1, <1>3, ZenonT(30) DEF GetInstance, WorkerInv
  <2>5. WorkerTypeOK' /\ WorkerInv'
    BY <1>1, <1>3, <2>2, <2>3, <2>4, Zenon DEF GetInstance, WorkerTypeOK, WorkerInv, Done, Retry,
      Labels,
      HadPV
  <2> QED
    BY <2>3, <2>5, WorkerStep, Zenon
<1>4. CASE UpdateInstance
  <2>1. pv \in Volumes /\ HadPV(pv)
    BY <1>1, <1>4, Zenon DEF UpdateInstance, WorkerInv
  <2>2. UNCHANGED <<phase, keep>>
    BY <1>4, Zenon DEF UpdateInstance, Unchanged, FaultOnly, vars, kube
  <2>3. WorkerTypeOK' /\ WorkerInv'
    BY <1>1, <1>4, <2>1, <2>2, Zenon DEF UpdateInstance, WorkerTypeOK, WorkerInv, Retry, HadPV
  <2>4. CASE (Unchanged \/ FaultOnly)
    BY <2>3, <2>4, WorkerStep, Zenon
  <2>5. CASE ~(Unchanged \/ FaultOnly)
    BY <1>4, <2>3, <2>5, LabelUpdateStep, InvParts, ZenonT(30) DEF UpdateInstance, MayFail
  <2> QED
    BY <2>4, <2>5, Zenon
<1>5. CASE WaitUpdate
  <2>1. pv \in Volumes /\ (Unchanged \/ FaultOnly) /\ UNCHANGED keep
    BY <1>1, <1>5, Zenon DEF WaitUpdate, WorkerInv, Unchanged, FaultOnly
  <2>2. WorkerTypeOK' /\ WorkerInv'
    BY <1>1, <1>5, <2>1, Zenon DEF WaitUpdate, WorkerTypeOK, WorkerInv, Done, Retry
  <2> QED
    BY <2>1, <2>2, WorkerStep, ZenonT(30)
<1>6. CASE LoseLease \/ Resync
  <2>1. WorkerTypeOK' /\ WorkerInv' /\ (Unchanged \/ FaultOnly)
    BY <1>1, <1>6, Zenon DEF LoseLease, Resync, WorkerTypeOK, WorkerInv, Unchanged, FaultOnly,
      worker
  <2> QED
    BY <2>1, WorkerStep, Zenon
<1> QED
  BY <1>2, <1>3, <1>4, <1>5, <1>6, Zenon DEF Worker

\* Users change nothing but labels.
LEMMA UserLabelsStep ==
  ASSUME ControllerInv, NEW i \in Instances, UserLabels(i)
  PROVE  ControllerInv'
<1>1. CallsInv /\ WorkerTypeOK /\ WorkerInv /\ CloudTypeOK
  BY InvParts, TypeParts, Zenon DEF CallsInv
<1>2. CloudTypeOK' /\ MayFail
  BY <1>1, Zenon DEF UserLabels, CloudTypeOK, MayFail, Labels
<1>3. CallsInv'
  BY <1>1, <1>2, QuietStep, ZenonT(30) DEF UserLabels
<1>4. WorkerTypeOK' /\ WorkerInv'
  BY <1>1, Zenon DEF UserLabels, WorkerTypeOK, WorkerInv, HadPV, Labels, worker, kube
<1> QED
  BY <1>3, <1>4, InvParts, Zenon

\* A restart of the process with both controllers.
LEMMA ProcessRestartStep ==
  ASSUME ControllerInv, ProcessRestart
  PROVE  ControllerInv'
<1>1. CallsInv /\ WorkerTypeOK /\ Restart
  BY InvParts, Zenon DEF ProcessRestart
<1>2. WorkerTypeOK' /\ WorkerInv'
  BY <1>1, Zenon DEF ProcessRestart, WorkerTypeOK, WorkerInv
<1> QED
  BY <1>1, <1>2, RestartStep, InvParts, Zenon

-----------------------------------------------------------------------------
(* The invariant and what follows from it.                                 *)

\* The invariant holds at the start, with and without volumes made by hand.
LEMMA InitInv == AllInit => ControllerInv
<1> SUFFICES ASSUME AllInit PROVE ControllerInv
  BY ZenonT(30)
<1>1. /\ static \subseteq Volumes /\ want \in [Volumes -> Requests \cup {None}]
      /\ \A v \in static : want[v] \in Requests /\ Valid(want[v])
      /\ \A v \in Volumes \ static : want[v] = None
  BY ControllerAssumption, Zenon DEF AllInit, Init
<1>2. /\ \A v \in Volumes : home[v] = IF v \in static THEN pickZone(want[v]) ELSE None
      /\ \A v \in static : home[v] \in Zones
      /\ home \in [Volumes -> Zones \cup {None}]
  BY <1>1, PickZoneFact, ZenonT(30) DEF AllInit, Init
<1>3. KubeTypeOK
  BY <1>1, <1>2, Zenon DEF AllInit, Init, KubeTypeOK
<1>4. ASSUME NEW v \in Volumes
      PROVE  phase[v] = (IF v \in static THEN "bound" ELSE "wanted") /\ heard[v] = "nothing"
  BY Zenon DEF AllInit, Init
<1>5. ASSUME NEW i \in Instances
      PROVE  /\ inst[i] = IF Led(i) THEN "ACTIVE" ELSE "none"
             /\ cap[i] = IF Led(i) THEN RequestGib(want[i[2]]) ELSE 0
             /\ createOp[i] = "none" /\ updates[i] = {} /\ creates[i] = 0
  BY Zenon DEF AllInit, Init, Led
<1>6. ASSUME NEW i \in Instances
      PROVE  i[2] \in Volumes /\ (Led(i) => i[2] \in static) /\ (Used(i) <=> Led(i))
  <2>1. i[2] \in Volumes /\ i[1] \in Zones
    BY InstanceFact, Zenon
  <2>2. Led(i) => i[2] \in static
    BY <1>2, <2>1, ControllerAssumption, Zenon DEF Led
  <2> QED
    BY <1>4, <2>1, <2>2, Zenon DEF Used, HadPV
<1>7. CloudTypeOK
  <2>1. \A i \in Instances : cap[i] \in Gibs \cup {0}
    BY <1>1, <1>5, <1>6, RequestFact, Zenon
  <2>2. inst \in [Instances -> {"none", "CREATING", "ACTIVE", "REPAIRING", "DELETING"}]
    BY Zenon DEF AllInit, Init
  <2>3. cap \in [Instances -> Gibs \cup {0}]
    BY <2>1, ZenonT(30) DEF AllInit, Init
  <2> QED
    BY <2>2, <2>3, Zenon DEF AllInit, Init, CloudTypeOK
<1>8. CallTypeOK /\ FaultTypeOK /\ WorkerTypeOK
  <2>1. CallTypeOK
    BY ControllerAssumption, ZenonT(30) DEF AllInit, Init, CallTypeOK
  <2>2. FaultTypeOK
    BY ControllerAssumption, SMTT(30) DEF AllInit, Init, FaultTypeOK
  <2>3. WorkerTypeOK
    BY Zenon DEF AllInit, WorkerTypeOK
  <2> QED
    BY <2>1, <2>2, <2>3, Zenon
<1>9. TypeOK
  BY <1>3, <1>7, <1>8, TypeParts, Zenon
<1>10. ASSUME NEW v \in Volumes PROVE KubeInv(v)
  BY <1>1, <1>2, <1>4, Zenon DEF KubeInv, HadPV
<1>11. ASSUME NEW i \in Instances PROVE InstanceInv(i)
  <2>1. CreationInv(i)
    BY <1>5, <1>6, Zenon DEF CreationInv
  <2>2. PhaseInv(i)
    BY <1>4, <1>5, <1>6, Zenon DEF PhaseInv
  <2>3. Used(i) => RequestGib(want[i[2]]) <= RequestGib(want[i[2]])
    BY <1>1, <1>6, RequestFact
  <2>4. UpdateInv(i)
    BY <1>5, <1>6, <2>3, Zenon DEF UpdateInv
  <2> QED
    BY <2>1, <2>2, <2>4, Zenon DEF InstanceInv
<1>12. /\ \A h \in Handlers : HandlerInv(h)
       /\ OneCallPerVolume
  BY Zenon DEF AllInit, Init, HandlerInv, OneCallPerVolume, Busy, CreatePCs, DeletePCs,
    ExpandPCs
<1>13. WorkerInv
  BY Zenon DEF AllInit, WorkerInv
<1> QED
  BY <1>8, <1>9, <1>10, <1>11, <1>12, <1>13, InvParts, ZenonT(30) DEF CallsInv

\* Every step of the two controllers and their environment preserves it.
LEMMA NextInv == ControllerInv /\ [AllNext]_allvars => ControllerInv'
<1> SUFFICES ASSUME ControllerInv, [AllNext]_allvars PROVE ControllerInv'
  BY Zenon
<1>1. CASE AllNext
  BY <1>1, ControllerWorkStep, ProcessRestartStep, LabelStep, UserLabelsStep, Zenon DEF AllNext
<1>2. CASE UNCHANGED allvars
  <2>1. Unchanged /\ UNCHANGED <<at, pv, write, queue, keep, phase>>
    BY <1>2, Zenon DEF allvars, Unchanged, worker, vars, kube
  <2>2. WorkerTypeOK' /\ WorkerInv'
    BY <2>1, InvParts, Zenon DEF WorkerTypeOK, WorkerInv, HadPV
  <2> QED
    BY <2>1, <2>2, WorkerStep, Zenon
<1> QED
  BY <1>1, <1>2, Zenon

\* Whatever the calls, the service and Kubernetes do and whatever fails, what a
\* call has found out about its volume is true when the call acts on it, and the
\* instance of a volume is what its phase and its create operation say.
THEOREM ControllerInvariance == AllSpec => []ControllerInv
BY InitInv, NextInv, PTL DEF AllSpec

\* The variables of the two controllers, of the service and of Kubernetes always
\* have their types.
THEOREM TypeCorrect == AllSpec => []AllTypeOK
<1>1. ControllerInv => AllTypeOK
  BY Zenon DEF ControllerInv
<1> QED
  BY <1>1, ControllerInvariance, PTL

\* CreateVolume, called again and again, by several handlers, for several zones and
\* after restarts, calls CreateInstance at most once for a volume in a zone.
THEOREM CreatedOnce == AllSpec => []OneCreation
<1>1. ASSUME ControllerInv, NEW i \in Instances PROVE creates[i] \in {0, 1}
  BY <1>1, Zenon DEF ControllerInv, CallsInv, InstanceInv, CreationInv
<1>2. ControllerInv => OneCreation
  BY <1>1 DEF OneCreation
<1> QED
  BY <1>2, ControllerInvariance, PTL

\* A volume CreateVolume returned has an instance whose creation has ended, until
\* the volume is released.
THEOREM BoundVolumesHaveInstances == AllSpec => []BoundHasInstance
<1>1. ASSUME ControllerInv, NEW v \in Volumes, phase[v] = "bound"
      PROVE  /\ inst[Home(v)] \in {"ACTIVE", "REPAIRING"}
             /\ createOp[Home(v)] = "done" \/ v \in static
  <2>1. PICK i \in Instances : i = Home(v) /\ i[2] = v /\ Used(i) /\ InstanceInv(i)
    BY <1>1, HomeFact, Zenon DEF ControllerInv, CallsInv, Used, HadPV
  <2> QED
    BY <1>1, <2>1, Zenon DEF InstanceInv, PhaseInv
<1>2. ControllerInv => BoundHasInstance
  BY <1>1, Zenon DEF BoundHasInstance
<1> QED
  BY <1>2, ControllerInvariance, PTL

\* DeleteVolume reports success only when the instance in the volume's ID no longer
\* exists.
THEOREM GoneVolumesAreDeleted == AllSpec => []GoneIsDeleted
<1>1. ASSUME ControllerInv, NEW v \in Volumes, phase[v] = "gone" PROVE inst[Home(v)] = "none"
  <2>1. PICK i \in Instances : i = Home(v) /\ i[2] = v /\ Used(i) /\ InstanceInv(i)
    BY <1>1, HomeFact, Zenon DEF ControllerInv, CallsInv, Used, HadPV
  <2> QED
    BY <1>1, <2>1, Zenon DEF InstanceInv, PhaseInv
<1>2. ControllerInv => GoneIsDeleted
  BY <1>1, Zenon DEF GoneIsDeleted
<1> QED
  BY <1>2, ControllerInvariance, PTL

\* An instance is left where the volume was led to last, for nobody to delete, after
\* two answers of CreateVolume only: AlreadyExists, for an instance of another
\* capacity, and a service error that codeForError turns into a code that ends the
\* provisioning.
THEOREM LeftBehindOnlyAfterErrors == AllSpec => []LeftBehindOnlyAfterError
<1>1. ASSUME ControllerInv, NEW v \in Volumes, phase[v] = "abandoned", home[v] # None,
             heard[v] \notin {"mismatch", "error"}
      PROVE  inst[Home(v)] = "none"
  <2>1. CallsInv /\ TypeOK /\ KubeInv(v)
    BY <1>1, Zenon DEF ControllerInv, CallsInv
  <2>2. home[v] \in Zones /\ heard[v] \in {"nothing", "again", "final", "mismatch", "error"}
    BY <1>1, <2>1, Zenon DEF TypeOK
  <2>3. PICK i \in Instances : i = Home(v) /\ i[2] = v /\ Led(i)
    <3>1. Home(v) \in Instances /\ Home(v)[2] = v /\ Led(Home(v))
      BY <2>2, Zenon DEF Home, Instances, Led
    <3> QED
      BY <3>1, Zenon
  <2>4. InstanceInv(i) /\ ~Used(i)
    BY <1>1, <2>1, <2>3, Zenon DEF CallsInv, Used, HadPV
  <2>5. heard[v] \in {"nothing", "final"}
    BY <1>1, <2>1, <2>2, Zenon DEF KubeInv
  <2> QED
    BY <2>3, <2>4, <2>5, Zenon DEF InstanceInv, PhaseInv
<1>2. ControllerInv => LeftBehindOnlyAfterError
  BY <1>1, Zenon DEF LeftBehindOnlyAfterError, LeftBehind
<1> QED
  BY <1>2, ControllerInvariance, PTL
=============================================================================
