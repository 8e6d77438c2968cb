------------------------- MODULE ControllerRefinement -------------------------
(***************************************************************************)
(* The controllers implement the life of a volume, hand out what was asked *)
(* for and never make an instance smaller.  All three are about single     *)
(* steps, so each kind of step is looked at once.  Then what follows when  *)
(* all calls for a volume lead to one zone, and at the end what the label  *)
(* controller and its neighbours do to labels.                             *)
(***************************************************************************)
EXTENDS ControllerProofs

-----------------------------------------------------------------------------
(* The service, Kubernetes and the label controller.                       *)

\* The instance a volume was handed out with is its storage.
LEMMA UsedFact ==
  ASSUME NEW i \in Instances, Used(i), UNCHANGED <<phase, home>>
  PROVE  /\ Place(i[2]) = i[1] /\ Place(i[2])' = i[1]
         /\ Size(i[2]) = cap[i] /\ Size(i[2])' = cap'[i]
<1>1. HadPV(i[2]) /\ HadPV(i[2])' /\ home[i[2]] = i[1] /\ home'[i[2]] = i[1]
  BY Zenon DEF Used, Led, HadPV
<1>2. Home(i[2]) = i /\ Home(i[2])' = i
  BY <1>1, InstanceFact, Zenon DEF Home
<1> QED
  BY <1>1, <1>2, Zenon DEF Place, Size

\* The creation of an instance ends.
LEMMA FinishCreateGood ==
  ASSUME CallsInv, CallsInv', NEW i \in Instances, FinishCreate(i)
  PROVE  GoodStep
<1>1. CloudTypeOK /\ InstanceInv(i)
  BY TypeParts, Zenon DEF CallsInv
<1>2. /\ inst[i] = "CREATING" /\ inst'[i] = "ACTIVE"
      /\ \A j \in Instances : j # i => SameStorage(j)
      /\ UNCHANGED <<phase, home, cap, creates>>
  BY <1>1, Zenon DEF FinishCreate, CloudTypeOK, SameStorage, kube
<1>3. ~Used(i)
  BY <1>1, <1>2, Zenon DEF InstanceInv, CreationInv, PhaseInv
<1>4. Alone(i) /\ SameLife(i[2])
  BY <1>2, <1>3, AloneFact, Zenon
<1>5. Have(i) = "making" /\ Have(i)' = "ready"
  BY <1>2, Zenon DEF Have
<1>6. Life(i)
  BY <1>4, <1>5, Zenon DEF Life
<1>7. Grows(i) /\ Founds(i) /\ CapacityAnswers(i[2])
  BY <1>2, SameGrows, Zenon DEF Founds, CapacityAnswers
<1> QED
  BY <1>4, <1>6, <1>7, GoodFact, Zenon

\* What is left when an instance goes.
LEMMA VanishGood ==
  ASSUME CallsInv, NEW i \in Instances, Vanish(i), UNCHANGED <<kube, creates>>
  PROVE  /\ inst'[i] = "none" /\ cap'[i] = 0
         /\ \A j \in Instances : j # i => SameStorage(j)
         /\ UNCHANGED <<phase, home>>
         /\ Grows(i) /\ Founds(i) /\ CapacityAnswers(i[2])
<1>1. CloudTypeOK
  BY TypeParts, Zenon DEF CallsInv
<1>2. inst'[i] = "none" /\ cap'[i] = 0 /\ \A j \in Instances : j # i => SameStorage(j)
  BY <1>1, Zenon DEF Vanish, CloudTypeOK, SameStorage
<1> QED
  BY <1>2, Zenon DEF Grows, Founds, CapacityAnswers, kube

\* The creation fails before the volume was handed out.
LEMMA FailCreateGood ==
  ASSUME CallsInv, CallsInv', NEW i \in Instances, FailCreate(i)
  PROVE  GoodStep
<1>1. InstanceInv(i) /\ inst[i] = "CREATING" /\ Vanish(i) /\ UNCHANGED <<kube, creates>>
  BY Zenon DEF CallsInv, FailCreate
<1>2. creates[i] # 0 /\ ~Used(i)
  BY <1>1, Zenon DEF InstanceInv, CreationInv, PhaseInv
<1>3. /\ inst'[i] = "none" /\ \A j \in Instances : j # i => SameStorage(j)
      /\ UNCHANGED <<phase, home>>
      /\ Grows(i) /\ Founds(i) /\ CapacityAnswers(i[2])
  BY <1>1, VanishGood, Zenon
<1>4. Alone(i) /\ SameLife(i[2])
  BY <1>2, <1>3, AloneFact, Zenon
<1>5. Have(i) = "making" /\ Have(i)' = "none"
  BY <1>1, <1>2, <1>3, Zenon DEF Have
<1>6. Life(i)
  BY <1>4, <1>5, Zenon DEF Life
<1> QED
  BY <1>3, <1>4, <1>6, GoodFact, Zenon

\* Only the instances of released volumes are destroyed.
LEMMA FinishDeleteGood ==
  ASSUME CallsInv, CallsInv', NEW i \in Instances, FinishDelete(i)
  PROVE  GoodStep
<1>1. InstanceInv(i) /\ inst[i] = "DELETING" /\ Vanish(i) /\ UNCHANGED <<kube, creates>>
  BY Zenon DEF CallsInv, FinishDelete
<1>2. i[2] \in Volumes /\ KubeInv(i[2])
  BY InstanceFact, Zenon DEF CallsInv
<1>3. Used(i) /\ phase[i[2]] = "released"
  BY <1>1, Zenon DEF InstanceInv, PhaseInv, Used, HadPV
<1>4. creates[i] # 0
  BY <1>1, <1>2, <1>3, Zenon DEF InstanceInv, CreationInv, PhaseInv, KubeInv
<1>5. /\ inst'[i] = "none" /\ cap'[i] = 0 /\ \A j \in Instances : j # i => SameStorage(j)
      /\ UNCHANGED <<phase, home>>
      /\ Grows(i) /\ Founds(i) /\ CapacityAnswers(i[2])
  BY <1>1, VanishGood, Zenon
<1>6. Alone(i)
  BY <1>5, AloneFact, Zenon
<1>7. Have(i) = "ready" /\ Have(i)' = "none"
  BY <1>1, <1>4, <1>5, Zenon DEF Have
<1>8. Place(i[2]) = i[1] /\ Place(i[2])' = i[1] /\ Size(i[2])' = 0
  BY <1>3, <1>5, UsedFact, Zenon
<1>9. Life(i)
  BY <1>3, <1>5, <1>7, <1>8, Zenon DEF Life, Goes
<1> QED
  BY <1>5, <1>6, <1>9, GoodFact, Zenon

\* An update makes an instance larger or leaves it alone.
LEMMA FinishUpdateGood ==
  ASSUME CallsInv, CallsInv', NEW i \in Instances, FinishUpdate(i)
  PROVE  GoodStep
<1>1. PICK u \in updates[i] :
        /\ cap' = cap \/ (Resizes(u) /\ cap' = [cap EXCEPT ![i] = u.cap])
        /\ UNCHANGED <<phase, home, inst, creates>>
  BY Zenon DEF FinishUpdate, Resizes, kube
<1>2. CASE cap' = cap
  BY <1>1, <1>2, UnchangedIsQuiet, Zenon DEF GoodStep
<1>3. CASE Resizes(u) /\ cap' = [cap EXCEPT ![i] = u.cap]
  <2>1. CloudTypeOK /\ InstanceInv(i)
    BY TypeParts, Zenon DEF CallsInv
  <2>2. cap'[i] = u.cap /\ \A j \in Instances : j # i => SameStorage(j)
    BY <1>1, <1>3, <2>1, Zenon DEF CloudTypeOK, SameStorage
  <2>3. cap[i] <= cap'[i] /\ Used(i) /\ inst[i] # "none"
    BY <1>3, <2>1, <2>2, Zenon DEF InstanceInv, UpdateInv
  <2>4. phase[i[2]] \in {"bound", "released"} /\ inst[i] # "CREATING"
    BY <2>1, <2>3, Zenon DEF InstanceInv, CreationInv, PhaseInv, Used, HadPV
  <2>5. Alone(i)
    BY <1>1, <2>2, AloneFact, Zenon
  <2>6. /\ Place(i[2]) = i[1] /\ Place(i[2])' = i[1]
        /\ Size(i[2]) = cap[i] /\ Size(i[2])' = cap'[i] /\ phase'[i[2]] = phase[i[2]]
    BY <1>1, <2>3, UsedFact, Zenon
  <2>7. Have(i) = "ready" /\ Have(i)' = "ready"
    BY <1>1, <2>3, <2>4, Zenon DEF Have
  <2>8. cap'[i] = cap[i] \/ cap'[i] > cap[i]
    BY <2>3, CapFact, SMTT(30)
  <2>9. Life(i)
    BY <2>4, <2>6, <2>7, <2>8, Zenon DEF Life, Goes, SameLife
  <2>10. Grows(i)
    BY <2>3, CapFact, Zenon DEF Grows
  <2>11. Founds(i) /\ CapacityAnswers(i[2])
    BY <1>1, Zenon DEF Founds, CapacityAnswers
  <2> QED
    BY <2>5, <2>9, <2>10, <2>11, GoodFact, Zenon
<1> QED
  BY <1>1, <1>2, <1>3, Zenon

\* Kubernetes moves on with one volume.
LEMMA MovesGood ==
  ASSUME CallsInv, NEW v \in Volumes, Release(v) \/ GiveUp(v)
  PROVE  GoodStep
<1>1. KubeTypeOK
  BY TypeParts, Zenon DEF CallsInv
<1>2. /\ UNCHANGED <<home, inst, cap, creates>>
      /\ \/ phase[v] = "bound" /\ phase'[v] = "released"
         \/ phase[v] = "wanted" /\ phase'[v] = "abandoned"
      /\ \A w \in Volumes : w # v => phase'[w] = phase[w]
  BY <1>1, Zenon DEF Release, GiveUp, Moves, KubeTypeOK, cloud
<1>3. \A w \in Volumes : w # v => SameLife(w)
  BY <1>2, LifeFrame, Zenon DEF Home
<1>4. Place(v)' = Place(v) /\ Size(v)' = Size(v)
  BY <1>2, Zenon DEF Place, Size, HadPV, Home
<1> QED
  BY <1>2, <1>3, <1>4, Zenon DEF GoodStep, Leaves, SameStorage

\* A call that starts may lead a volume that was not handed out to another zone.
LEMMA CallGood ==
  ASSUME CallsInv, NEW h \in Handlers, NEW v \in Volumes,
         \/ DeleteVolume(h, v) \/ ControllerExpandVolume(h, v)
         \/ \E r \in Requests : CreateVolume(h, v, r)
  PROVE  GoodStep
<1>1. UNCHANGED <<phase, inst, cap, creates>>
  BY Zenon DEF DeleteVolume, ControllerExpandVolume, CreateVolume, Start, kube, cloud
<1>2. UNCHANGED home \/ (phase[v] = "wanted" /\ \E z : home' = [home EXCEPT ![v] = z])
  BY Zenon DEF DeleteVolume, ControllerExpandVolume, CreateVolume, Start, kube
<1>3. KubeTypeOK
  BY TypeParts, Zenon DEF CallsInv
<1>4. ASSUME NEW w \in Volumes, HadPV(w) PROVE home'[w] = home[w]
  BY <1>2, <1>3, <1>4, Zenon DEF KubeTypeOK, HadPV
<1>5. Quiet
  BY <1>1, <1>4, LifeFrame, Zenon DEF Quiet, SameStorage
<1> QED
  BY <1>5, Zenon DEF GoodStep

\* Every step of the controllers is a good one.
LEMMA NextGood ==
  ASSUME ControllerInv, ControllerInv', [AllNext]_allvars
  PROVE  GoodStep
<1>1. CallsInv /\ CallsInv'
  BY Zenon DEF ControllerInv
<1>2. ASSUME UNCHANGED <<phase, home, inst, cap, creates>> PROVE GoodStep
  BY <1>2, UnchangedIsQuiet, Zenon DEF GoodStep
<1>3. CASE Work
  <2>1. ASSUME NEW i \in Instances, Suspend(i) \/ Resume(i) \/ FailDelete(i) \/ OperatorDeletes(i)
        PROVE  GoodStep
    <3>1. PICK f, t \in {"ACTIVE", "REPAIRING", "DELETING"} :
             Becomes(i, f, t)
      BY <2>1, Zenon DEF Suspend, Resume, FailDelete, OperatorDeletes
    <3>2. /\ inst[i] \notin {"none", "CREATING"}
          /\ inst' = [inst EXCEPT ![i] = t] /\ UNCHANGED <<phase, home, cap, creates>>
      BY <3>1, Zenon DEF Becomes, kube
    <3> QED
      BY <1>1, <3>2, InstanceGood, Zenon
  <2>2. ASSUME NEW v \in Volumes, Raise(v) PROVE UNCHANGED <<phase, home, inst, cap, creates>>
    BY <2>2, Zenon DEF Raise, cloud
  <2>3. ASSUME NEW i \in Instances, Service(i) PROVE GoodStep
    BY <1>1, <2>1, <2>3, FinishCreateGood, FailCreateGood, FinishUpdateGood, FinishDeleteGood,
      Zenon DEF Service
  <2> QED
    BY <1>1, <1>2, <1>3, <2>2, <2>3, StepGood, CallGood, MovesGood, Zenon DEF Work
<1>4. CASE ProcessRestart
  BY <1>2, <1>4, Zenon DEF ProcessRestart, Restart, kube, cloud
<1>5. CASE Worker \/ LoseLease \/ Resync
  <2>1. UNCHANGED <<kube, cap, inst, creates>>
    BY <1>5, Zenon DEF Worker, Reconcile, GetInstance, UpdateInstance, WaitUpdate, LoseLease,
      Resync, Unchanged, FaultOnly, vars, cloud
  <2> QED
    BY <1>2, <2>1, Zenon DEF kube
<1>6. CASE \E i \in Instances : UserLabels(i)
  BY <1>2, <1>6, Zenon DEF UserLabels, kube
<1>7. CASE UNCHANGED allvars
  BY <1>2, <1>7, Zenon DEF allvars, vars, kube, cloud
<1> QED
  BY <1>3, <1>4, <1>5, <1>6, <1>7, Zenon DEF AllNext, ControllerWork

-----------------------------------------------------------------------------
(* The properties of steps.                                                *)

\* The capacity CreateVolume returns is that of the request it answers, rounded down
\* to GiB, whatever instance it found.
THEOREM CapacitiesAnswerRequests == AllSpec => CapacityAnswersRequest
<1>1. ASSUME ControllerInv, ControllerInv', [AllNext]_allvars
      PROVE  \A v \in Volumes : CapacityAnswers(v)
  <2>1. \A v \in Volumes : SameLife(v) \/ phase[v] # "wanted" \/ phase'[v] # "bound"
                             => CapacityAnswers(v)
    BY Zenon DEF CapacityAnswers, SameLife
  <2>2. ASSUME Quiet PROVE \A v \in Volumes : CapacityAnswers(v)
    BY <2>1, <2>2, Zenon DEF Quiet
  <2>3. ASSUME NEW w \in Volumes, Leaves(w) PROVE \A v \in Volumes : CapacityAnswers(v)
    BY <2>1, <2>3, Zenon DEF Leaves
  <2>4. ASSUME NEW i \in Instances, Alone(i), Good(i) PROVE \A v \in Volumes : CapacityAnswers(v)
    BY <2>1, <2>4, Zenon DEF Alone, Good
  <2> QED
    BY <1>1, <2>2, <2>3, <2>4, NextGood, Zenon DEF GoodStep
<1> QED
  BY <1>1, ControllerInvariance, PTL DEF AllSpec, CapacityAnswersRequest

\* A step about an instance does not shrink it, and creates it only where its
\* volume is led to.
LEMMA NextGrows ==
  ASSUME ControllerInv, ControllerInv', [AllNext]_allvars, NEW i \in Instances
  PROVE  Grows(i) /\ Founds(i)
<1>1. CallsInv /\ CallsInv'
  BY Zenon DEF ControllerInv
<1>2. SameStorage(i) => Grows(i) /\ Founds(i)
  BY <1>1, SameGrows, Zenon DEF SameStorage, Founds
<1> QED
  BY <1>2, NextGood, Zenon DEF GoodStep, Good, Quiet, Leaves, Alone

\* No update that ends, in whatever order and however late, makes an instance
\* smaller.
THEOREM InstancesNeverShrink == AllSpec => NeverShrinks
<1>1. ASSUME ControllerInv, ControllerInv', [AllNext]_allvars
      PROVE  \A i \in Instances : inst'[i] # "none" => cap'[i] >= cap[i]
  BY <1>1, NextGrows, Zenon DEF Grows
<1> QED
  BY <1>1, ControllerInvariance, PTL DEF AllSpec, NeverShrinks

-----------------------------------------------------------------------------
(* The life of a volume.                                                   *)

\* The state of all volumes and instances, as Volume has it.
HaveAll == [i \in Instances |-> Have(i)]
PlaceAll == [v \in Volumes |-> Place(v)]
SizeAll == [v \in Volumes |-> Size(v)]

\* The refinement mapping in these terms.
Mapped ==
  /\ [i \in Instances |-> Stored(i)] = HaveAll
  /\ [v \in Volumes |-> IF HadPV(v) THEN home[v] ELSE None] = PlaceAll
  /\ [v \in Volumes |-> IF HadPV(v) THEN cap[Home(v)] ELSE 0] = SizeAll
  /\ \A v \in Volumes : Size(v) \in Nat
  /\ phase = [v \in Volumes |-> phase[v]]

\* The mapping is a function of each volume and instance, and sizes are numbers.
LEMMA MapFact == ControllerInv => Mapped
<1> SUFFICES ASSUME ControllerInv PROVE Mapped
  BY Zenon
<1>1. CallsInv
  BY Zenon DEF ControllerInv
<1>2. \A i \in Instances : Stored(i) = Have(i)
  BY Zenon DEF Stored, Have
<1>3. ASSUME NEW v \in Volumes PROVE Size(v) \in Nat
  <2>1. ASSUME HadPV(v) PROVE cap[Home(v)] \in Nat
    <3>1. Home(v) \in Instances
      BY <1>1, <2>1, HomeFact, Zenon
    <3>2. cap[Home(v)] \in Gibs \cup {0}
      BY <1>1, <3>1, Zenon DEF CallsInv, TypeOK
    <3> QED
      BY <3>2, GibsFact, Zenon
  <2>2. 0 \in Nat
    OBVIOUS
  <2> QED
    BY <2>1, <2>2, Zenon DEF Size
<1>4. phase = [v \in Volumes |-> phase[v]]
  BY <1>1, ZenonT(30) DEF CallsInv, TypeOK
<1> QED
  BY <1>2, <1>3, <1>4, Zenon DEF Mapped, HaveAll, PlaceAll, SizeAll, Place, Size

\* The same after a step.
LEMMA MapFactPrime == ControllerInv' => Mapped'
BY MapFact, PTL

\* A step of one instance and its volume is a step of that volume's life.
LEMMA LifeRefines ==
  ASSUME Mapped, Mapped', NEW i \in Instances, Alone(i), Life(i)
  PROVE  [VolumeLife!Next]_(VolumeLife!vars)
<1> DEFINE v == i[2]
           stored == [j \in Instances |-> Stored(j)]
           place == [w \in Volumes |-> IF HadPV(w) THEN home[w] ELSE None]
           size == [w \in Volumes |-> IF HadPV(w) THEN cap[Home(w)] ELSE 0]
<1>1. /\ stored = HaveAll /\ stored' = HaveAll' /\ size = SizeAll /\ size' = SizeAll'
      /\ place = PlaceAll /\ place' = PlaceAll'
      /\ phase = [w \in Volumes |-> phase[w]] /\ phase' = [w \in Volumes |-> phase'[w]]
  BY Zenon DEF Mapped
<1>2. v \in Volumes /\ i = <<i[1], v>> /\ i \in Zones \X Volumes
  BY InstanceFact, Zenon DEF Instances
<1>3. Size(v) \in Nat /\ Size(v)' \in Nat
  BY <1>2, Zenon DEF Mapped
<1> HIDE DEF v, stored, place, size
<1>4. \A w \in Volumes : w # v =>
        Place(w)' = Place(w) /\ Size(w)' = Size(w) /\ phase'[w] = phase[w]
  BY Zenon DEF Alone, SameLife, v
<1>5. \A j \in Instances : j # i => Have(j)' = Have(j)
  BY Zenon DEF Alone, SameStorage, Have
<1>6. stored' = [stored EXCEPT ![i] = Have(i)'] /\ stored[i] = Have(i)
  BY <1>1, <1>5, Zenon DEF HaveAll
<1>7. place' = [place EXCEPT ![v] = Place(v)'] /\ place[v] = Place(v)
  BY <1>1, <1>2, <1>4, Zenon DEF PlaceAll
<1>8. /\ size' = [size EXCEPT ![v] = Size(v)'] /\ size[v] = Size(v)
      /\ size'[v] = Size(v)' /\ size'[v] \in Nat
  BY <1>1, <1>2, <1>3, <1>4, Zenon DEF SizeAll
<1>9. phase' = [phase EXCEPT ![v] = phase'[v]]
  BY <1>1, <1>2, <1>4, Zenon
<1>10. Have(i)' = Have(i) => stored' = stored
  BY <1>1, <1>5, Zenon DEF HaveAll
<1>11. /\ Place(v)' = Place(v) => place' = place
       /\ Size(v)' = Size(v) => size' = size
       /\ phase'[v] = phase[v] => phase' = phase
  BY <1>1, <1>4, Zenon DEF PlaceAll, SizeAll
<1>12. CASE SameLife(v)
  <2>1. phase' = phase /\ place' = place /\ size' = size
    BY <1>11, <1>12, Zenon DEF SameLife
  <2>2. CASE Have(i)' = Have(i)
    BY <1>10, <2>1, <2>2, ZenonT(30) DEF VolumeLife!vars, stored, place, size
  <2>3. CASE Have(i)' # Have(i)
    <3>1. \/ phase[v] = "wanted" /\ Have(i) = "never" /\ Have(i)' = "making"
          \/ Have(i) = "making" /\ Have(i)' \in {"ready", "none"}
          \/ Size(v)' = 0 /\ Goes(i, "released", "released", "ready", "none") /\ Place(v) = i[1]
      BY <2>3, Zenon DEF Life, Goes, v
    <3>2. CASE phase[v] = "wanted" /\ Have(i) = "never" /\ Have(i)' = "making"
      BY <1>2, <1>6, <2>1, <3>2, ZenonT(30) DEF VolumeLife!Next, VolumeLife!Make,
        VolumeLife!Turn, stored, place, size, v
    <3>3. CASE Have(i) = "making" /\ Have(i)' \in {"ready", "none"}
      BY <1>2, <1>6, <2>1, <3>3, ZenonT(30) DEF VolumeLife!Next, VolumeLife!Finish,
        VolumeLife!Fail, VolumeLife!Turn, stored, place, size
    <3>4. CASE Size(v)' = 0 /\ Goes(i, "released", "released", "ready", "none") /\ Place(v) = i[1]
      <4>1. VolumeLife!Here(v) = i /\ phase[v] = "released" /\ Have(i) = "ready" /\ Have(i)' = "none"
        BY <1>2, <1>7, <3>4, Zenon DEF VolumeLife!Here, Goes, place, v
      <4>2. VolumeLife!Destroy(v)
        BY <1>6, <1>8, <2>1, <3>4, <4>1, ZenonT(30) DEF VolumeLife!Destroy, VolumeLife!Turn,
          stored, place, size
      <4> QED
        BY <1>2, <4>2, Zenon DEF VolumeLife!Next
    <3> QED
      BY <3>1, <3>2, <3>3, <3>4, Zenon
  <2> QED
    BY <2>2, <2>3, Zenon
<1>13. CASE Goes(i, "wanted", "bound", "ready", "ready") /\ Place(v)' = i[1]
  <2>1. stored' = stored /\ phase[v] = "wanted" /\ phase'[v] = "bound" /\ stored[i] = "ready"
    BY <1>6, <1>10, <1>13, Zenon DEF Goes, v
  <2>2. VolumeLife!HandOut(i)
    BY <1>7, <1>8, <1>9, <1>13, <2>1, ZenonT(30) DEF VolumeLife!HandOut, VolumeLife!Move,
      VolumeLife!Resize, stored, place, size, v
  <2> QED
    BY <1>2, <2>2, Zenon DEF VolumeLife!Next
<1>14. ASSUME Place(v) = i[1], Place(v)' = i[1],
              \/ Goes(i, "released", "gone", "none", "none") /\ Size(v)' = Size(v)
              \/ Goes(i, "released", "released", "ready", "none") /\ Size(v)' = 0
              \/ \E p \in {"bound", "released"} :
                   Goes(i, p, p, "ready", "ready") /\ Size(v)' > Size(v)
       PROVE  VolumeLife!Next
  <2>1. VolumeLife!Here(v) = i /\ place' = place
    BY <1>2, <1>7, <1>11, <1>14, Zenon DEF VolumeLife!Here, place
  <2>2. CASE Goes(i, "released", "gone", "none", "none") /\ Size(v)' = Size(v)
    <3>1. /\ stored' = stored /\ size' = size /\ stored[i] = "none"
          /\ phase[v] = "released" /\ phase'[v] = "gone"
      BY <1>6, <1>10, <1>11, <2>2, Zenon DEF Goes, v
    <3>2. VolumeLife!Delete(v)
      BY <1>9, <2>1, <3>1, ZenonT(30) DEF VolumeLife!Delete, VolumeLife!Move, stored, place, size
    <3> QED
      BY <1>2, <3>2, Zenon DEF VolumeLife!Next
  <2>3. CASE Goes(i, "released", "released", "ready", "none") /\ Size(v)' = 0
    <3>1. /\ phase' = phase /\ phase[v] = "released"
          /\ stored[i] = "ready" /\ stored' = [stored EXCEPT ![i] = "none"]
          /\ size' = [size EXCEPT ![v] = 0]
      BY <1>6, <1>8, <1>11, <2>3, Zenon DEF Goes, v
    <3>2. VolumeLife!Destroy(v)
      BY <2>1, <3>1, ZenonT(30) DEF VolumeLife!Destroy, VolumeLife!Turn, stored, place, size
    <3> QED
      BY <1>2, <3>2, Zenon DEF VolumeLife!Next
  <2>4. ASSUME NEW p \in {"bound", "released"}, Goes(i, p, p, "ready", "ready"),
               Size(v)' > Size(v)
        PROVE  VolumeLife!Next
    <3>1. /\ phase' = phase /\ phase[v] \in {"bound", "released"}
          /\ stored[i] = "ready" /\ stored' = stored
          /\ size'[v] > size[v] /\ size'[v] \in Nat /\ size' = [size EXCEPT ![v] = size'[v]]
      BY <1>6, <1>8, <1>10, <1>11, <2>4, Zenon DEF Goes, v
    <3>2. VolumeLife!Grow(v)
      BY <2>1, <3>1, ZenonT(30) DEF VolumeLife!Grow, VolumeLife!Resize, stored, place, size
    <3> QED
      BY <1>2, <3>2, Zenon DEF VolumeLife!Next
  <2> QED
    BY <1>14, <2>2, <2>3, <2>4, Zenon
<1> QED
  BY <1>12, <1>13, <1>14, Zenon DEF Life, v

\* So is a step in which Kubernetes gives a volume up or releases it.
LEMMA LeavesRefines ==
  ASSUME Mapped, Mapped', NEW v \in Volumes, Leaves(v)
  PROVE  VolumeLife!Next
<1> DEFINE stored == [j \in Instances |-> Stored(j)]
           place == [w \in Volumes |-> IF HadPV(w) THEN home[w] ELSE None]
           size == [w \in Volumes |-> IF HadPV(w) THEN cap[Home(w)] ELSE 0]
<1>1. /\ stored = HaveAll /\ stored' = HaveAll' /\ size = SizeAll /\ size' = SizeAll'
      /\ place = PlaceAll /\ place' = PlaceAll'
      /\ phase = [w \in Volumes |-> phase[w]] /\ phase' = [w \in Volumes |-> phase'[w]]
  BY Zenon DEF Mapped
<1> HIDE DEF stored, place, size
<1>2. \A w \in Volumes :
        Place(w)' = Place(w) /\ Size(w)' = Size(w) /\ (w # v => phase'[w] = phase[w])
  BY Zenon DEF Leaves, SameLife
<1>3. \A j \in Instances : Have(j)' = Have(j)
  BY Zenon DEF Leaves, SameStorage, Have
<1>4. stored' = stored /\ place' = place /\ size' = size
  BY <1>1, <1>2, <1>3, Zenon DEF HaveAll, PlaceAll, SizeAll
<1>5. phase' = [phase EXCEPT ![v] = phase'[v]]
  BY <1>1, <1>2, Zenon
<1>6. VolumeLife!GiveUp(v) \/ VolumeLife!Release(v)
  BY <1>4, <1>5, ZenonT(30) DEF Leaves, VolumeLife!GiveUp, VolumeLife!Release, VolumeLife!Move,
    stored, place, size
<1> QED
  BY <1>6, Zenon DEF VolumeLife!Next

\* A step that changes nothing of any volume changes nothing at all.
LEMMA QuietRefines ==
  ASSUME Mapped, Mapped', Quiet
  PROVE  UNCHANGED VolumeLife!vars
<1>1. \A w \in Volumes : Place(w)' = Place(w) /\ Size(w)' = Size(w) /\ phase'[w] = phase[w]
  BY Zenon DEF Quiet, SameLife
<1>2. \A j \in Instances : Have(j)' = Have(j)
  BY Zenon DEF Quiet, SameStorage, Have
<1>3. HaveAll' = HaveAll /\ PlaceAll' = PlaceAll /\ SizeAll' = SizeAll
  BY <1>1, <1>2, Zenon DEF HaveAll, PlaceAll, SizeAll
<1>4. phase' = phase
  BY <1>1, Zenon DEF Mapped
<1> QED
  BY <1>3, <1>4, Zenon DEF Mapped, VolumeLife!vars

\* What the volumes and instances are at the start.
LEMMA InitLife ==
  ASSUME AllInit
  PROVE  /\ \A v \in Volumes : IF v \in static THEN phase[v] = "bound" /\ home[v] \in Zones
                               ELSE phase[v] = "wanted" /\ home[v] = None
         /\ \A i \in Instances : creates[i] = 0
                                 /\ inst[i] = IF i[1] = home[i[2]] THEN "ACTIVE" ELSE "none"
<1>1. ASSUME NEW v \in static PROVE want[v] \in Requests /\ Valid(want[v]) /\ v \in Volumes
  BY <1>1, Zenon DEF AllInit, Init
<1>2. \A v \in static : pickZone(want[v]) \in Zones
  BY <1>1, PickZoneFact, Zenon
<1>3. ASSUME NEW v \in Volumes
      PROVE  IF v \in static THEN phase[v] = "bound" /\ home[v] \in Zones
             ELSE phase[v] = "wanted" /\ home[v] = None
  BY <1>2, Zenon DEF AllInit, Init
<1>4. ASSUME NEW i \in Instances
      PROVE  creates[i] = 0 /\ inst[i] = IF i[1] = home[i[2]] THEN "ACTIVE" ELSE "none"
  BY Zenon DEF AllInit, Init
<1> QED
  BY <1>3, <1>4, Zenon

\* Whatever calls, retries, lost answers, operations and restarts do, the two
\* controllers implement the life of a volume that Kubernetes relies on.
THEOREM VolumeRefinement == AllSpec => ImplementsVolume
<1>1. AllInit => VolumeLife!Init
  <2> SUFFICES ASSUME AllInit PROVE VolumeLife!Init
    BY Zenon
  <2> DEFINE stored == [j \in Instances |-> Stored(j)]
             place == [w \in Volumes |-> IF HadPV(w) THEN home[w] ELSE None]
             size == [w \in Volumes |-> IF HadPV(w) THEN cap[Home(w)] ELSE 0]
  <2>1. Mapped
    BY InitInv, MapFact, Zenon
  <2>2. stored = HaveAll /\ place = PlaceAll /\ size = SizeAll /\ \A v \in Volumes : Size(v) \in Nat
    BY <2>1, Zenon DEF Mapped
  <2> HIDE DEF stored, place, size
  <2>3. ASSUME NEW v \in Volumes
        PROVE  /\ phase[v] \in {"wanted", "bound"}
               /\ phase[v] = "bound" => Place(v) = home[v] /\ home[v] \in Zones
               /\ phase[v] = "wanted" => Place(v) = None /\ home[v] = None /\ Size(v) = 0
    BY InitLife, Zenon DEF Place, Size, HadPV
  <2>4. phase \in [Volumes -> {"wanted", "bound"}]
    BY Zenon DEF AllInit, Init
  <2>5. /\ place \in [Volumes -> Zones \cup {None}]
        /\ \A v \in Volumes : place[v] = Place(v) /\ place[v] = home[v]
        /\ \A v \in Volumes : phase[v] = "bound" <=> place[v] # None
    BY <2>2, <2>3, ControllerAssumption, ZenonT(30) DEF PlaceAll
  <2>6. ASSUME NEW i \in Instances
        PROVE  Have(i) = IF i = VolumeLife!Here(i[2]) THEN "ready" ELSE "never"
    <3>1. i = <<i[1], i[2]>> /\ i[2] \in Volumes
      BY InstanceFact, Zenon
    <3>2. VolumeLife!Here(i[2]) = <<home[i[2]], i[2]>>
      BY <2>5, <3>1, Zenon DEF VolumeLife!Here, place
    <3>3. i = VolumeLife!Here(i[2]) <=> i[1] = home[i[2]]
      <4>1. ASSUME NEW a, NEW b, i = <<a, b>> PROVE i[1] = a
        BY <4>1, Zenon
      <4>2. i[1] = home[i[2]] => i = <<home[i[2]], i[2]>>
        BY <3>1, Zenon
      <4> QED
        BY <3>2, <4>1, <4>2, Zenon
    <3> QED
      BY <3>3, InitLife, Zenon DEF Have
  <2>7. stored = [i \in Zones \X Volumes |->
                    IF i = VolumeLife!Here(i[2]) THEN "ready" ELSE "never"]
    BY <2>2, <2>6, Zenon DEF HaveAll, Instances
  <2>8. size \in [Volumes -> Nat] /\ \A v \in Volumes : phase[v] = "wanted" => size[v] = 0
    BY <2>2, <2>3, Zenon DEF SizeAll
  <2> QED
    BY <2>4, <2>5, <2>7, <2>8, ZenonT(30) DEF VolumeLife!Init, stored, place, size
<1>2. ControllerInv /\ ControllerInv' /\ [AllNext]_allvars
        => [VolumeLife!Next]_(VolumeLife!vars)
  BY MapFact, MapFactPrime, NextGood, LifeRefines, LeavesRefines, QuietRefines, Zenon
    DEF GoodStep, Good
<1> QED
  BY <1>1, <1>2, ControllerInvariance, PTL DEF AllSpec, ImplementsVolume, VolumeLife!Spec

-----------------------------------------------------------------------------
(* Volumes whose calls all lead to one zone.                               *)

\* Every call of CreateVolume for a volume leads to the zone the first one led to.
SameZone == [][\A v \in Volumes : home[v] = None \/ home'[v] = home[v]]_allvars

\* A volume has nothing, and never had anything, but where it is led to.
OnlyHome == \A i \in Instances : Led(i) \/ (creates[i] = 0 /\ inst[i] = "none")

\* A volume has one creation in all zones together, no instance in any zone once it
\* was reported deleted, and, once its claim is deleted, one only if the last answer
\* of CreateVolume was AlreadyExists or an error of the service passed on.
OneInstanceOfVolume ==
  \A i, j \in Instances : i[2] = j[2] =>
    /\ creates[i] # 0 /\ creates[j] # 0 => i = j
    /\ phase[i[2]] = "gone" => inst[i] = "none"
    /\ phase[i[2]] = "abandoned" /\ inst[i] # "none" => heard[i[2]] \in {"mismatch", "error"}

\* Nothing is created elsewhere as long as the topology of the requests leads all
\* calls for a volume to one zone.
LEMMA NothingElsewhere == AllSpec /\ SameZone => []OnlyHome
<1>1. AllInit => OnlyHome
  BY InitLife, Zenon DEF OnlyHome, Led
<1>2. ASSUME ControllerInv, ControllerInv', OnlyHome, [AllNext]_allvars,
             \A v \in Volumes : home[v] = None \/ home'[v] = home[v]
      PROVE  OnlyHome'
  <2>1. ASSUME NEW i \in Instances, ~Led(i)' PROVE creates'[i] = 0 /\ inst'[i] = "none"
    <3>1. i[1] \in Zones /\ i[2] \in Volumes
      BY InstanceFact, Zenon
    <3>2. ~Led(i)
      BY <1>2, <2>1, <3>1, ControllerAssumption, Zenon DEF Led
    <3>3. creates'[i] = 0
      BY <1>2, <3>2, NextGrows, Zenon DEF Founds, OnlyHome
    <3>4. InstanceInv(i)'
      BY <1>2, Zenon DEF ControllerInv, CallsInv
    <3> QED
      BY <2>1, <3>3, <3>4, Zenon DEF InstanceInv, CreationInv, Used
  <2> QED
    BY <2>1, Zenon DEF OnlyHome
<1>3. ASSUME OnlyHome, UNCHANGED allvars PROVE OnlyHome'
  BY <1>3, Zenon DEF OnlyHome, Led, allvars, vars, kube, cloud
<1> QED
  BY <1>1, <1>2, <1>3, ControllerInvariance, PTL DEF AllSpec, SameZone

\* When the topology of the requests leads all calls for a volume to one zone,
\* CreateVolume creates one instance for it at most, and DeleteVolume leaves none
\* behind in any zone.  A CreateVolume that ends the provisioning may leave this one
\* behind: after AlreadyExists or a service error passed on, and after nothing else.
THEOREM OneZoneOneInstance == AllSpec /\ SameZone => []OneInstanceOfVolume
<1>1. ASSUME OnlyHome, GoneIsDeleted, LeftBehindOnlyAfterError
      PROVE  OneInstanceOfVolume
  <2>1. ASSUME NEW i \in Instances, Led(i)
        PROVE  i = Home(i[2]) /\ home[i[2]] # None /\ i[2] \in Volumes
    <3>1. i = <<i[1], i[2]>> /\ i[1] \in Zones /\ i[2] \in Volumes
      BY InstanceFact, Zenon
    <3> QED
      BY <2>1, <3>1, ControllerAssumption, Zenon DEF Led, Home
  <2>2. ASSUME NEW i \in Instances, NEW j \in Instances, i[2] = j[2],
               creates[i] # 0, creates[j] # 0
        PROVE  i = j
    BY <1>1, <2>1, <2>2, Zenon DEF OnlyHome
  <2>3. ASSUME NEW i \in Instances,
               \/ phase[i[2]] = "gone"
               \/ phase[i[2]] = "abandoned" /\ heard[i[2]] \notin {"mismatch", "error"}
        PROVE  inst[i] = "none"
    <3>1. CASE Led(i)
      BY <1>1, <2>1, <2>3, <3>1, Zenon DEF GoneIsDeleted, LeftBehindOnlyAfterError, LeftBehind
    <3> QED
      BY <1>1, <3>1, Zenon DEF OnlyHome
  <2> QED
    BY <2>2, <2>3, Zenon DEF OneInstanceOfVolume
<1> QED
  BY <1>1, NothingElsewhere, GoneVolumesAreDeleted, LeftBehindOnlyAfterErrors, PTL

-----------------------------------------------------------------------------
(* Labels.                                                                 *)

\* How the controller service and the Lustre service change the labels of an
\* instance and the writes of labels on their way.
LabelsGoOn(i) ==
  /\ \/ labels'[i] = labels[i]
     \/ \E u \in updates[i] : "labels" \in u.mask /\ labels'[i] = u.labels
  /\ \A u \in updates'[i] : u \in updates[i] \/ "labels" \notin u.mask

\* The service applies what an update writes, or nothing.
LEMMA FinishUpdateLabels ==
  ASSUME CloudTypeOK, NEW j \in Instances, FinishUpdate(j), NEW i \in Instances
  PROVE  LabelsGoOn(i)
<1>1. PICK u \in updates[j] :
        /\ updates' = [updates EXCEPT ![j] = @ \ {u}]
        /\ \/ UNCHANGED labels
           \/ "labels" \in u.mask /\ labels' = [labels EXCEPT ![j] = u.labels]
  BY Zenon DEF FinishUpdate
<1>2. \A x \in updates'[i] : x \in updates[i]
  BY <1>1, Zenon DEF CloudTypeOK
<1>3. labels'[i] = labels[i] \/ (i = j /\ "labels" \in u.mask /\ labels'[i] = u.labels)
  BY <1>1, Zenon DEF CloudTypeOK
<1> QED
  BY <1>1, <1>2, <1>3, Zenon DEF LabelsGoOn

\* An expansion does not write labels.
LEMMA ExpandSendLabels ==
  ASSUME CloudTypeOK, NEW h \in Handlers, ExpandSend(h), NEW i \in Instances
  PROVE  LabelsGoOn(i)
<1> DEFINE x == Update({"capacity_gib"}, RequestGib(req[h]), {})
<1>1. /\ UNCHANGED labels
      /\ \/ UNCHANGED updates
         \/ updates' = [updates EXCEPT ![At(h)] = @ \cup {x}]
  BY Zenon DEF ExpandSend, ReturnOnly, Fails, cloud
<1>2. "labels" \notin x.mask
  BY Zenon DEF Update
<1> HIDE DEF x
<1>3. \A u \in updates'[i] : u \in updates[i] \/ u = x
  BY <1>1 DEF CloudTypeOK
<1> QED
  BY <1>1, <1>2, <1>3, Zenon DEF LabelsGoOn

\* An instance that goes on existing keeps its labels or gets those of a write.
LEMMA WorkLabels ==
  ASSUME CallsInv, Work, NEW i \in Instances, inst[i] # "none", inst'[i] # "none"
  PROVE  LabelsGoOn(i)
<1>1. CloudTypeOK
  BY TypeParts, Zenon DEF CallsInv
<1>2. ASSUME UNCHANGED <<labels, updates>> PROVE LabelsGoOn(i)
  BY <1>2, Zenon DEF LabelsGoOn
<1>3. ASSUME NEW h \in Handlers, Step(h), ~ExpandSend(h) PROVE LabelsGoOn(i)
  <2>1. ASSUME \/ CreateFails(h) \/ OperationFailed(h) \/ ReturnOnly(h) \/ Fails(h)
               \/ UNCHANGED cloud
        PROVE  LabelsGoOn(i)
    BY <1>2, <2>1, Zenon DEF CreateFails, OperationFailed, ReturnOnly, Fails, cloud
  <2>2. CASE CreateSend(h)
    <3>1. CASE CreateFails(h)
      BY <2>1, <3>1, Zenon
    <3>2. CASE ~CreateFails(h)
      <4>1. Busy(h) /\ pc[h] = "cSend"
        BY <2>2, Zenon DEF CreateSend, Busy
      <4>2. inst[At(h)] = "none"
        BY <4>1, CallFact, Zenon DEF HandlerInv
      <4>3. \E l : labels' = [labels EXCEPT ![At(h)] = l]
        BY <2>2, <3>2, Zenon DEF CreateSend
      <4>4. UNCHANGED updates
        BY <2>2, <3>2, Zenon DEF CreateSend
      <4>5. labels'[i] = labels[i]
        BY <1>1, <4>2, <4>3, Zenon DEF CloudTypeOK
      <4> QED
        BY <4>4, <4>5, Zenon DEF LabelsGoOn
    <3> QED
      BY <3>1, <3>2, Zenon
  <2>3. CASE CreateGet(h) \/ CreateOp(h) \/ CreateList(h) \/ CreateWait(h)
    BY <2>1, <2>3, Zenon DEF CreateGet, CreateOp, CreateList, CreateWait, CreateSucceeds, cloud
  <2>4. CASE DeleteGet(h) \/ DeleteSend(h) \/ DeleteWait(h)
    BY <1>2, <2>1, <2>4, Zenon DEF DeleteGet, DeleteSend, DeleteWait, DeleteSucceeds, cloud
  <2>5. CASE ExpandGet(h) \/ ExpandOp(h) \/ ExpandWait(h)
    BY <2>1, <2>5, Zenon DEF ExpandGet, ExpandOp, ExpandWait, cloud
  <2> QED
    BY <1>3, <2>2, <2>3, <2>4, <2>5, Zenon DEF Step
<1>4. ASSUME NEW j \in Instances, Service(j) PROVE LabelsGoOn(i)
  <2>1. CASE FailCreate(j) \/ FinishDelete(j)
    <3>1. /\ inst' = [inst EXCEPT ![j] = "none"]
          /\ labels' = [labels EXCEPT ![j] = {}]
          /\ updates' = [updates EXCEPT ![j] = {}]
      BY <2>1, Zenon DEF FailCreate, FinishDelete, Vanish
    <3>2. i # j
      BY <1>1, <3>1, Zenon DEF CloudTypeOK
    <3>3. labels'[i] = labels[i] /\ updates'[i] = updates[i]
      BY <1>1, <3>1, <3>2, Zenon DEF CloudTypeOK
    <3> QED
      BY <3>3, Zenon DEF LabelsGoOn
  <2>2. CASE FinishCreate(j) \/ Suspend(j) \/ Resume(j) \/ FailDelete(j) \/ OperatorDeletes(j)
    BY <1>2, <2>2, Zenon DEF FinishCreate, Suspend, Resume, FailDelete, OperatorDeletes, Becomes
  <2> QED
    BY <1>1, <1>4, <2>1, <2>2, FinishUpdateLabels, Zenon DEF Service
<1>5. ASSUME NEW h \in Handlers, NEW v \in Volumes,
             \/ DeleteVolume(h, v) \/ ControllerExpandVolume(h, v)
             \/ \E r \in Requests : CreateVolume(h, v, r)
      PROVE  UNCHANGED <<labels, updates>>
  BY <1>5, Zenon DEF DeleteVolume, ControllerExpandVolume, CreateVolume, Start, cloud
<1>6. ASSUME NEW v \in Volumes, Raise(v) \/ Release(v) \/ GiveUp(v)
      PROVE  UNCHANGED <<labels, updates>>
  BY <1>6, Zenon DEF Raise, Release, GiveUp, Moves, cloud
<1> QED
  BY <1>1, <1>2, <1>3, <1>4, <1>5, <1>6, ExpandSendLabels, Zenon DEF Work

\* An instance appears only for a volume that was not yet handed out.
LEMMA AppearFact ==
  ASSUME ControllerInv, ControllerInv', [AllNext]_allvars,
         NEW i \in Instances, inst[i] = "none", inst'[i] # "none"
  PROVE  updates'[i] = {} /\ \A v \in Volumes : HadPV(v) => Home(v) # i
<1>1. CallsInv /\ CallsInv'
  BY Zenon DEF ControllerInv
<1>2. Life(i)
  <2>1. ~SameStorage(i)
    BY Zenon DEF SameStorage
  <2> QED
    BY <2>1, NextGood, Zenon DEF GoodStep, Good, Quiet, Leaves, Alone
<1>3. phase[i[2]] = "wanted" /\ phase'[i[2]] = "wanted"
  <2>1. Have(i) \in {"never", "none"} /\ Have(i)' \in {"making", "ready"}
    BY Zenon DEF Have
  <2> QED
    BY <1>2, <2>1, Zenon DEF Life, Goes, SameLife
<1>4. ~HadPV(i[2]) /\ ~Used(i)'
  BY <1>3, Zenon DEF HadPV, Used
<1>5. updates'[i] = {}
  BY <1>1, <1>4, Zenon DEF CallsInv, InstanceInv, UpdateInv
<1> QED
  BY <1>1, <1>4, <1>5, HomeFact, Zenon

\* The ID of a volume that was handed out does not change.
LEMMA HomeStays ==
  ASSUME ControllerInv, ControllerInv', [AllNext]_allvars, NEW w \in Volumes, HadPV(w), HadPV(w)'
  PROVE  Home(w)' = Home(w)
<1>1. Place(w)' = Place(w)
  <2>1. ASSUME NEW i \in Instances, Alone(i), Good(i) PROVE Place(w)' = Place(w)
    <3>1. CASE w # i[2]
      BY <2>1, <3>1, Zenon DEF Alone, SameLife
    <3>2. CASE w = i[2]
      BY <2>1, <3>2, Zenon DEF Good, Life, Goes, SameLife, HadPV
    <3> QED
      BY <3>1, <3>2, Zenon
  <2>2. ASSUME NEW v \in Volumes, Leaves(v) PROVE Place(w)' = Place(w)
    BY <2>2, Zenon DEF Leaves, SameLife
  <2> QED
    BY <2>1, <2>2, NextGood, Zenon DEF GoodStep, Quiet, SameLife
<1> QED
  BY <1>1, Zenon DEF Place, Home

\* The steps of the controller service keep what is to keep.
LEMMA ControllerWorkLabels ==
  ASSUME ControllerInv, ControllerInv', LabelInv, ControllerWork
  PROVE  LabelInv'
<1>1. CallsInv /\ Work /\ [AllNext]_allvars
  BY Zenon DEF ControllerInv, ControllerWork, AllNext
<1>2. UNCHANGED <<at, pv, write>>
  BY Zenon DEF ControllerWork, worker
<1>3. ASSUME NEW i \in Instances
      PROVE  keep'[i] = IF inst'[i] = "none" THEN {}
                        ELSE IF inst[i] = "none" THEN labels'[i] ELSE keep[i]
  BY Zenon DEF ControllerWork, KeepLabels
<1>4. ASSUME NEW i \in Instances
      PROVE  /\ inst'[i] = "none" => keep'[i] = {}
             /\ inst'[i] # "none" => keep'[i] \subseteq labels'[i]
             /\ \A u \in updates'[i] : "labels" \in u.mask => keep'[i] \subseteq u.labels
  <2>1. CASE inst'[i] = "none"
    BY <1>3, <2>1, Zenon
  <2>2. CASE inst'[i] # "none" /\ inst[i] = "none"
    <3>1. updates'[i] = {}
      BY <1>1, <2>2, AppearFact, Zenon
    <3> QED
      BY <1>3, <2>2, <3>1, Zenon
  <2>3. CASE inst'[i] # "none" /\ inst[i] # "none"
    <3>1. LabelsGoOn(i)
      BY <1>1, <2>3, WorkLabels, Zenon
    <3>2. keep'[i] = keep[i]
      BY <1>3, <2>3, Zenon
    <3> QED
      BY <2>3, <3>1, <3>2, Zenon DEF LabelsGoOn, LabelInv
  <2> QED
    BY <2>1, <2>2, <2>3, Zenon
<1>5. ASSUME at' = "update" PROVE keep'[Home(pv)'] \subseteq write'
  <2>1. at = "update" /\ pv \in Volumes /\ HadPV(pv) /\ HadPV(pv)'
    BY <1>2, <1>5, ZenonT(30) DEF ControllerInv, WorkerInv
  <2>2. Home(pv) \in Instances /\ Home(pv)' = Home(pv)
    <3>1. Home(pv) \in Instances
      BY <1>1, <2>1, HomeFact, Zenon
    <3>2. \A w \in Volumes : HadPV(w) /\ HadPV(w)' => Home(w)' = Home(w)
      BY <1>1, HomeStays, Zenon
    <3> QED
      BY <1>2, <2>1, <3>1, <3>2, Zenon DEF Home, HadPV
  <2>3. keep[Home(pv)] \subseteq write
    BY <2>1, Zenon DEF LabelInv
  <2>4. inst[Home(pv)] = "none" => inst'[Home(pv)] = "none"
    BY <1>1, <2>1, <2>2, AppearFact, Zenon
  <2>5. keep'[Home(pv)] = {} \/ keep'[Home(pv)] = keep[Home(pv)]
    BY <1>3, <2>2, <2>4, Zenon
  <2> QED
    BY <1>2, <2>2, <2>3, <2>5, Zenon
<1> QED
  BY <1>4, <1>5, Zenon DEF LabelInv

\* So do the steps of the label controller: what it writes it has read since.
LEMMA WorkerLabels ==
  ASSUME ControllerInv, ControllerInv', LabelInv, Worker \/ LoseLease \/ Resync
  PROVE  LabelInv'
<1>1. /\ UNCHANGED <<inst, labels, keep, home>>
      /\ at' = "update" => (GetInstance /\ at = "get") \/ UNCHANGED <<at, pv, write>>
  BY ZenonT(30) DEF Worker, Reconcile, GetInstance, UpdateInstance, WaitUpdate, LoseLease, Resync,
    Done, Retry, Unchanged, FaultOnly, worker, vars, kube, cloud
<1>2. at \in {"get", "update"} => Home(pv) \in Instances
  BY HomeFact, Zenon DEF ControllerInv, WorkerInv
<1>3. \/ UNCHANGED updates
      \/ /\ at = "update"
         /\ updates' = [updates EXCEPT ![Home(pv)] = @ \cup {Update({"labels"}, 0, write)}]
  BY Zenon DEF Worker, Reconcile, GetInstance, UpdateInstance, WaitUpdate, LoseLease, Resync,
    Unchanged, FaultOnly, vars, cloud
<1>4. ASSUME NEW i \in Instances, NEW u \in updates'[i], "labels" \in u.mask
      PROVE  keep[i] \subseteq u.labels
  <2>1. CASE u \in updates[i]
    BY <1>4, <2>1, Zenon DEF LabelInv
  <2>2. CASE u \notin updates[i]
    <3>1. CloudTypeOK
      BY TypeParts, Zenon DEF ControllerInv, CallsInv
    <3>2. at = "update" /\ i = Home(pv) /\ u = Update({"labels"}, 0, write)
      BY <1>3, <1>4, <2>2, <3>1, SMTT(30) DEF CloudTypeOK
    <3>3. u.labels = write
      BY <3>2, Zenon DEF Update
    <3> QED
      BY <3>2, <3>3, Zenon DEF LabelInv
  <2> QED
    BY <2>1, <2>2, Zenon
<1>5. ASSUME at' = "update" PROVE keep'[Home(pv)'] \subseteq write'
  <2>1. CASE UNCHANGED <<at, pv, write>>
    BY <1>1, <1>5, <2>1, Zenon DEF LabelInv, Home
  <2>2. CASE GetInstance /\ at = "get"
    <3>1. /\ inst[Home(pv)] # "none" /\ write' = labels[Home(pv)] \cup {"managed-by"}
          /\ UNCHANGED pv
      BY <1>5, <2>2, Zenon DEF GetInstance, Done, Retry
    <3>2. keep[Home(pv)] \subseteq labels[Home(pv)]
      BY <1>2, <2>2, <3>1, Zenon DEF LabelInv
    <3> QED
      BY <1>1, <3>1, <3>2, Zenon DEF Home
  <2> QED
    BY <1>1, <1>5, <2>1, <2>2, Zenon
<1> QED
  BY <1>1, <1>4, <1>5, ZenonT(30) DEF LabelInv

\* A label a user sets is to keep unless a write of labels is on its way.
LEMMA UserLabelsKept ==
  ASSUME ControllerInv, LabelInv, NEW j \in Instances, UserLabels(j)
  PROVE  LabelInv'
<1>1. CloudTypeOK /\ WorkerTypeOK
  BY InvParts, TypeParts, Zenon DEF CallsInv
<1>2. UNCHANGED <<inst, updates, home, at, pv, write>>
  BY Zenon DEF UserLabels, kube, worker
<1>3. ASSUME NEW i \in Instances
      PROVE  /\ labels[i] \subseteq labels'[i]
             /\ \/ keep'[i] = keep[i]
                \/ /\ i = j /\ ~Stale(j) /\ inst[j] = "ACTIVE"
                   /\ keep'[i] = keep[i] \cup {"user"} /\ "user" \in labels'[i]
  BY <1>1, Zenon DEF UserLabels, CloudTypeOK, WorkerTypeOK
<1>4. ASSUME NEW i \in Instances
      PROVE  /\ inst'[i] = "none" => keep'[i] = {}
             /\ inst'[i] # "none" => keep'[i] \subseteq labels'[i]
             /\ \A u \in updates'[i] : "labels" \in u.mask => keep'[i] \subseteq u.labels
  <2>1. CASE keep'[i] = keep[i]
    BY <1>2, <1>3, <2>1, ZenonT(30) DEF LabelInv
  <2>2. CASE keep'[i] # keep[i]
    <3>1. \A u \in updates[i] : "labels" \notin u.mask
      BY <1>3, <2>2, Zenon DEF Stale
    <3> QED
      BY <1>2, <1>3, <2>2, <3>1, SMTT(30) DEF LabelInv
  <2> QED
    BY <2>1, <2>2, Zenon
<1>5. ASSUME at' = "update" PROVE keep'[Home(pv)'] \subseteq write'
  <2>1. Home(pv) \in Instances /\ at = "update"
    BY <1>2, <1>5, HomeFact, Zenon DEF ControllerInv, WorkerInv
  <2>2. keep'[Home(pv)] = keep[Home(pv)]
    BY <1>3, <2>1, Zenon DEF Stale
  <2> QED
    BY <1>2, <2>1, <2>2, ZenonT(30) DEF LabelInv, Home
<1> QED
  BY <1>4, <1>5, Zenon DEF LabelInv

\* Neither the label controller nor an expansion removes a label, except one that a
\* user sets while a write of labels read earlier is on its way.
THEOREM LabelsAreKept == AllSpec => []LabelsKept
<1>1. AllInit => LabelInv
  BY Zenon DEF AllInit, Init, LabelInv
<1>2. ControllerInv /\ ControllerInv' /\ LabelInv /\ [AllNext]_allvars => LabelInv'
  <2> SUFFICES ASSUME ControllerInv, ControllerInv', LabelInv, [AllNext]_allvars
               PROVE  LabelInv'
    BY Zenon
  <2>1. CASE ProcessRestart
    <3>1. UNCHANGED <<inst, labels, updates, keep>> /\ at' = "idle"
      BY <2>1, Zenon DEF ProcessRestart, Restart, cloud
    <3> QED
      BY <3>1, Zenon DEF LabelInv
  <2>2. CASE UNCHANGED allvars
    <3>1. UNCHANGED <<inst, labels, updates, keep, at, pv, write, home>>
      BY <2>2, Zenon DEF allvars, vars, cloud, kube, worker
    <3> QED
      BY <3>1, Zenon DEF LabelInv, Home
  <2> QED
    BY <2>1, <2>2, ControllerWorkLabels, WorkerLabels, UserLabelsKept, ZenonT(30) DEF AllNext
<1>3. LabelInv => LabelsKept
  BY Zenon DEF LabelInv, LabelsKept
<1> QED
  BY <1>1, <1>2, <1>3, ControllerInvariance, PTL DEF AllSpec
=============================================================================
