-------------------------- MODULE ControllerFrames --------------------------
(***************************************************************************)
(* What the invariant of ControllerInvariant says of a volume, an instance *)
(* and a call, and which parts of it survive a step that leaves something  *)
(* alone.                                                                  *)
(*                                                                         *)
(* A step of a call changes its own volume at most (Only), of that mostly  *)
(* the instance the volume is led to (About), and then returns or goes on  *)
(* (Proceeds).  CallStep shows that such a step preserves the invariant,   *)
(* so a lemma about an action has to look at one instance and one call,    *)
(* whatever the others are doing.                                          *)
(*                                                                         *)
(* Seen from an instance, a step is a step of its volume's life            *)
(* (GoodStep).  For the steps of calls this follows from the invariant     *)
(* before and after them.                                                  *)
(***************************************************************************)
EXTENDS ControllerInvariant, TLAPS

-----------------------------------------------------------------------------
(* Constants.                                                              *)

\* What division with rounding down gives.
LEMMA DivFact ==
  ASSUME NEW a \in Nat, NEW g \in Nat \ {0}
  PROVE  a \div g \in Nat /\ g * (a \div g) <= a /\ a < g * (a \div g) + g
<1>1. a \div g \in Nat
  OBVIOUS
<1>2. a = g * (a \div g) + (a % g)
  OBVIOUS
<1>3. a % g \in Nat /\ a % g < g
  OBVIOUS
<1> DEFINE q == a \div g
<1> HIDE DEF q
<1>4. q \in Nat /\ a = g * q + (a % g)
  BY <1>1, <1>2, Zenon DEF q
<1>5. g * q <= a /\ a < g * q + g
  BY <1>3, <1>4
<1> QED
  BY <1>1, <1>5, Zenon DEF q

\* A factor is monotone: what is not larger has not more multiples below.
LEMMA FactorFact ==
  ASSUME NEW p \in Nat, NEW q \in Nat, NEW g \in Nat \ {0}, p > q
  PROVE  g * p >= g * q + g
<1>1. g * p = g * q + g * (p - q - 1) + g
  OBVIOUS
<1>2. p - q - 1 \in Nat
  OBVIOUS
<1>3. g * (p - q - 1) \in Nat /\ g * q \in Nat
  BY <1>2
<1> QED
  BY <1>1, <1>3

\* pickZone gives a zone for every valid request.
LEMMA PickZoneFact ==
  ASSUME NEW r \in Requests, Valid(r)
  PROVE  pickZone(r) \in Zones
<1>1. CASE r.top = None
  BY <1>1, ControllerAssumption, Zenon DEF pickZone
<1>2. CASE r.top # None
  <2> DEFINE s == r.top.preferred \o r.top.requisite
  <2>1. r.top \in Topologies
    BY <1>2, ControllerAssumption, Zenon
  <2>2. r.top.preferred \in Seq(Zones \cup {None}) /\ r.top.requisite \in Seq(Zones \cup {None})
    BY <2>1, Zenon DEF Topologies
  <2>3. s \in Seq(Zones \cup {None})
    BY <2>2
  <2>4. s # <<>> /\ None \notin ElementsOf(s)
    BY <1>2, Zenon DEF Valid, ValidTopology
  <2>5. pickZone(r) = Head(s)
    BY <1>2, Zenon DEF pickZone
  <2> HIDE DEF s
  <2>6. 1 \in DOMAIN s /\ Head(s) = s[1] /\ s[1] \in Zones \cup {None}
    BY <2>3, <2>4
  <2>7. s[1] \in ElementsOf(s)
    BY <2>6, Zenon DEF ElementsOf
  <2> QED
    BY <2>4, <2>5, <2>6, <2>7, Zenon
<1> QED
  BY <1>1, <1>2, Zenon

\* Rounding down to GiB keeps the order and loses less than a GiB.
LEMMA GibFact ==
  ASSUME NEW a \in Nat, NEW b \in Nat
  PROVE  /\ BytesToGib(a) \in Nat
         /\ a <= b => BytesToGib(a) <= BytesToGib(b)
         /\ BytesToGib(a) * Gib <= a
         /\ BytesToGib(a) * Gib > a - Gib
<1> DEFINE p == BytesToGib(a)  q == BytesToGib(b)
<1>1. p \in Nat /\ Gib * p <= a /\ a < Gib * p + Gib
  BY ControllerAssumption, DivFact, Zenon DEF BytesToGib
<1>2. q \in Nat /\ Gib * q <= b /\ b < Gib * q + Gib
  BY ControllerAssumption, DivFact, Zenon DEF BytesToGib
<1> HIDE DEF p, q
<1>3. ASSUME a <= b, p > q PROVE FALSE
  <2>1. Gib * p >= Gib * q + Gib
    BY <1>1, <1>2, <1>3, ControllerAssumption, FactorFact, Zenon
  <2>2. Gib * p \in Nat /\ Gib * q \in Nat
    BY <1>1, <1>2, ControllerAssumption
  <2> QED
    BY <1>1, <1>2, <1>3, <2>1, <2>2, ControllerAssumption
<1>4. p * Gib = Gib * p /\ Gib * p \in Nat
  BY <1>1, ControllerAssumption
<1>5. a <= b => p <= q
  BY <1>1, <1>2, <1>3
<1>6. p * Gib <= a /\ p * Gib > a - Gib
  BY <1>1, <1>4, ControllerAssumption
<1> QED
  BY <1>1, <1>5, <1>6, Zenon DEF p, q

\* The capacity a request asks for.
LEMMA RequestFact ==
  ASSUME NEW r \in Requests
  PROVE  /\ getRequestCapacity(r) \in Nat
         /\ RequestGib(r) \in Nat /\ RequestGib(r) \in Gibs
<1>1. r.required \in Nat
  BY ControllerAssumption, Zenon
<1>2. getRequestCapacity(r) \in Nat
  BY <1>1, ControllerAssumption, Zenon DEF getRequestCapacity
<1> QED
  BY <1>2, GibFact, Zenon DEF RequestGib, Gibs

\* Capacities are numbers.
LEMMA GibsFact == Gibs \cup {0} \subseteq Nat
<1>1. \A r \in Requests : RequestGib(r) \in Nat
  BY RequestFact, Zenon
<1>2. Gibs \subseteq Nat
  BY <1>1, Zenon DEF Gibs
<1>3. 0 \in Nat
  BY Zenon
<1> QED
  BY <1>2, <1>3, Zenon

\* An instance has a zone and a volume.
LEMMA InstanceFact ==
  ASSUME NEW i \in Instances
  PROVE  i[1] \in Zones /\ i[2] \in Volumes /\ i = <<i[1], i[2]>>
BY DEF Instances

\* Two instances of a volume are in different zones.
LEMMA ZonesDiffer ==
  ASSUME NEW i \in Instances, NEW j \in Instances, i[2] = j[2], i # j
  PROVE  i[1] # j[1]
BY InstanceFact, Zenon

-----------------------------------------------------------------------------
(* The parts of the state, and what a step leaves alone.                   *)

\* The types of the variables, by the part of the system they belong to.
KubeTypeOK ==
  /\ phase \in [Volumes -> {"wanted", "abandoned", "bound", "released", "gone"}]
  /\ want \in [Volumes -> Requests \cup {None}]
  /\ home \in [Volumes -> Zones \cup {None}]
  /\ heard \in [Volumes -> {"nothing", "again", "final", "mismatch", "error"}]
  /\ static \subseteq Volumes

CloudTypeOK ==
  /\ inst \in [Instances -> {"none", "CREATING", "ACTIVE", "REPAIRING", "DELETING"}]
  /\ cap \in [Instances -> Gibs \cup {0}]
  /\ fs \in [Instances -> FSNames \cup {None}]
  /\ labels \in [Instances -> SUBSET Labels]
  /\ createOp \in [Instances -> {"none", "running", "done", "failed"}]
  /\ updates \in [Instances -> SUBSET [mask : SUBSET {"capacity_gib", "labels"},
                                       cap : Gibs \cup {0}, labels : SUBSET Labels]]
  /\ creates \in [Instances -> Nat]

CallTypeOK ==
  /\ locks \subseteq Keys
  /\ pc \in [Handlers -> {"idle"} \cup CreatePCs \cup DeletePCs \cup ExpandPCs]
  /\ vol \in [Handlers -> Volumes \cup {None}]
  /\ zone \in [Handlers -> Zones \cup {None}]
  /\ req \in [Handlers -> Requests \cup {None}]
  /\ pick \in [Handlers -> FSNames \cup {None}]

FaultTypeOK == faults \in 0 .. MaxFaults

\* The parts make up TypeOK.
LEMMA TypeParts == TypeOK <=> KubeTypeOK /\ CloudTypeOK /\ CallTypeOK /\ FaultTypeOK
BY Zenon DEF TypeOK, KubeTypeOK, CloudTypeOK, CallTypeOK, FaultTypeOK

\* So they do after a step.
LEMMA TypePartsPrime ==
  TypeOK' <=> KubeTypeOK' /\ CloudTypeOK' /\ CallTypeOK' /\ FaultTypeOK'
BY Zenon DEF TypeOK, KubeTypeOK, CloudTypeOK, CallTypeOK, FaultTypeOK

\* A step that may be a failure.
MayFail == UNCHANGED faults \/ Fault

\* Parts that do not change keep their type.
LEMMA TypeFrame ==
  ASSUME TypeOK
  PROVE  /\ UNCHANGED kube => KubeTypeOK'
         /\ UNCHANGED cloud => CloudTypeOK'
         /\ UNCHANGED <<locks, calls>> => CallTypeOK'
         /\ MayFail => FaultTypeOK'
<1> USE TypeParts
<1>1. UNCHANGED kube => KubeTypeOK'
  BY Zenon DEF KubeTypeOK, kube
<1>2. UNCHANGED cloud => CloudTypeOK'
  BY Zenon DEF CloudTypeOK, cloud
<1>3. UNCHANGED <<locks, calls>> => CallTypeOK'
  BY Zenon DEF CallTypeOK, calls
<1>4. MayFail => FaultTypeOK'
  BY ControllerAssumption DEF FaultTypeOK, MayFail, Fault
<1> QED
  BY <1>1, <1>2, <1>3, <1>4, Zenon

\* A step has nothing to do with what Kubernetes does with volume w, with what
\* there is of instance j, or with the call of handler g.
SameKube(w) ==
  /\ phase'[w] = phase[w] /\ want'[w] = want[w]
  /\ home'[w] = home[w] /\ heard'[w] = heard[w]

SameCloud(j) ==
  /\ inst'[j] = inst[j] /\ cap'[j] = cap[j] /\ createOp'[j] = createOp[j]
  /\ updates'[j] = updates[j] /\ creates'[j] = creates[j]

SameCall(g) ==
  /\ pc'[g] = pc[g] /\ vol'[g] = vol[g] /\ zone'[g] = zone[g]
  /\ req'[g] = req[g] /\ pick'[g] = pick[g]
  /\ Busy(g) /\ KeyOf(g) \in locks => KeyOf(g) \in locks'

\* Where a volume is led to, and whether it was handed out, is up to Kubernetes.
LEMMA LedFrame ==
  ASSUME NEW i, UNCHANGED <<phase, home>>
  PROVE  (Led(i)' <=> Led(i)) /\ (Used(i)' <=> Used(i))
BY Zenon DEF Led, Used, HadPV

\* What is true of a volume stays true when nothing of it changes.
LEMMA KubeFrame ==
  ASSUME NEW w \in Volumes, KubeInv(w), SameKube(w), static' = static
  PROVE  KubeInv(w)'
BY Zenon DEF KubeInv, SameKube, HadPV

\* What is true of an instance stays true when nothing of it changes and neither
\* does its volume.
LEMMA InstanceFrame ==
  ASSUME NEW j \in Instances, InstanceInv(j), SameCloud(j), SameKube(j[2]), static' = static
  PROVE  InstanceInv(j)'
<1>1. (Led(j)' <=> Led(j)) /\ (Used(j)' <=> Used(j))
  BY Zenon DEF Led, Used, HadPV, SameKube
<1>2. CreationInv(j)'
  BY <1>1, Zenon DEF InstanceInv, CreationInv, SameCloud
<1>3. PhaseInv(j)'
  BY <1>1, Zenon DEF InstanceInv, PhaseInv, SameCloud, SameKube
<1>4. UpdateInv(j)'
  BY <1>1, Zenon DEF InstanceInv, UpdateInv, SameCloud, SameKube, Resizes
<1> QED
  BY <1>2, <1>3, <1>4, Zenon DEF InstanceInv

\* So it does, whatever happens to the volume, when the volume is led elsewhere.
LEMMA LeftFrame ==
  ASSUME NEW j \in Instances, InstanceInv(j), SameCloud(j), static' = static,
         ~Led(j), ~Led(j)'
  PROVE  InstanceInv(j)'
<1>1. ~Used(j) /\ ~Used(j)'
  BY Zenon DEF Used
<1>2. CreationInv(j)'
  BY <1>1, Zenon DEF InstanceInv, CreationInv, SameCloud
<1>3. PhaseInv(j)'
  BY <1>1, Zenon DEF InstanceInv, PhaseInv, SameCloud
<1>4. updates[j] = {} /\ updates'[j] = {}
  BY <1>1, Zenon DEF InstanceInv, UpdateInv, SameCloud
<1>5. UpdateInv(j)'
  BY <1>1, <1>4, Zenon DEF InstanceInv, UpdateInv, SameCloud
<1> QED
  BY <1>2, <1>3, <1>5, Zenon DEF InstanceInv

\* What is true of a call stays true when nothing changes of it, of its volume and
\* of its instance.
LEMMA HandlerFrame ==
  ASSUME NEW g \in Handlers, HandlerInv(g), SameCall(g),
         Busy(g) => SameKube(vol[g]) /\ SameCloud(At(g))
  PROVE  HandlerInv(g)'
<1>1. CASE ~Busy(g)
  BY <1>1, Zenon DEF HandlerInv, SameCall, Busy, CreatePCs, DeletePCs, ExpandPCs
<1>2. CASE Busy(g)
  <2>1. At(g)' = At(g) /\ KeyOf(g)' = KeyOf(g) /\ Busy(g)' /\ At(g)[1] = zone[g] /\ At(g)[2] = vol[g]
    BY <1>2, Zenon DEF SameCall, Busy, KeyOf, At
  <2>2. Led(At(g))' <=> Led(At(g))
    BY <1>2, <2>1, Zenon DEF Led, SameKube
  <2> QED
    BY <1>2, <2>1, <2>2, ZenonT(30) DEF HandlerInv, SameCall, SameKube, SameCloud, Resizes
<1> QED
  BY <1>1, <1>2, Zenon

\* A step that concerns volume v only.
Only(v) ==
  /\ KubeTypeOK' /\ CloudTypeOK' /\ MayFail
  /\ UNCHANGED static
  /\ \A w \in Volumes : w # v => SameKube(w)
  /\ \A j \in Instances : j[2] # v => SameCloud(j)
  /\ KubeInv(v)'
  /\ \A j \in Instances : j[2] = v => InstanceInv(j)'

\* A step that concerns instance i only, and its volume if it is led there.
About(i) ==
  /\ KubeTypeOK' /\ CloudTypeOK' /\ MayFail
  /\ UNCHANGED static
  /\ \A w \in Volumes : w # i[2] => SameKube(w)
  /\ \A j \in Instances : j # i => SameCloud(j)
  /\ SameKube(i[2]) \/ (Led(i) /\ Led(i)')
  /\ KubeInv(i[2])' /\ InstanceInv(i)'

\* The other instances of the volume stay as they are.
LEMMA AboutFact ==
  ASSUME CallsInv, NEW i \in Instances, About(i)
  PROVE  Only(i[2])
<1>1. ASSUME NEW j \in Instances, j[2] = i[2] PROVE InstanceInv(j)'
  <2>1. CASE j = i
    BY <2>1, Zenon DEF About
  <2>2. CASE j # i
    <3>1. InstanceInv(j) /\ SameCloud(j) /\ static' = static
      BY <2>2, Zenon DEF CallsInv, About
    <3>2. CASE SameKube(i[2])
      BY <1>1, <3>1, <3>2, InstanceFrame, Zenon
    <3>3. CASE Led(i) /\ Led(i)'
      <4>1. ~Led(j) /\ ~Led(j)'
        BY <1>1, <2>2, <3>3, ZonesDiffer, Zenon DEF Led
      <4> QED
        BY <3>1, <4>1, LeftFrame, Zenon
    <3> QED
      BY <3>2, <3>3, Zenon DEF About
  <2> QED
    BY <2>1, <2>2, Zenon
<1>2. \A j \in Instances : j[2] # i[2] => SameCloud(j)
  BY Zenon DEF About
<1> QED
  BY <1>1, <1>2, Zenon DEF About, Only

\* A step about one volume preserves what is true of all volumes and instances.
LEMMA OnlyFact ==
  ASSUME CallsInv, NEW v \in Volumes, Only(v)
  PROVE  (\A w \in Volumes : KubeInv(w)') /\ (\A j \in Instances : InstanceInv(j)')
<1>1. ASSUME NEW w \in Volumes PROVE KubeInv(w)'
  BY KubeFrame, Zenon DEF CallsInv, Only
<1>2. ASSUME NEW j \in Instances PROVE InstanceInv(j)'
  <2>1. CASE j[2] = v
    BY <2>1, Zenon DEF Only
  <2>2. CASE j[2] # v
    <3>1. j[2] \in Volumes
      BY InstanceFact, Zenon
    <3>2. InstanceInv(j) /\ SameCloud(j) /\ SameKube(j[2]) /\ static' = static
      BY <2>2, <3>1, Zenon DEF CallsInv, Only
    <3> QED
      BY <3>2, InstanceFrame, Zenon
  <2> QED
    BY <2>1, <2>2, Zenon
<1> QED
  BY <1>1, <1>2, Zenon

\* What is known of a running call.
LEMMA CallFact ==
  ASSUME CallsInv, NEW h \in Handlers, Busy(h)
  PROVE  /\ vol[h] \in Volumes /\ At(h) \in Instances
         /\ At(h)[1] = zone[h] /\ At(h)[2] = vol[h] /\ Led(At(h)) /\ Home(vol[h]) = At(h)
         /\ KubeInv(vol[h]) /\ InstanceInv(At(h)) /\ HandlerInv(h)
         /\ phase[vol[h]] # "abandoned"
         /\ \A g \in Handlers : g # h => (Busy(g) => vol[g] # vol[h])
<1>1. HandlerInv(h) /\ vol[h] \in Volumes /\ zone[h] \in Zones /\ Led(At(h))
  BY Zenon DEF CallsInv, HandlerInv
<1>2. At(h) \in Instances /\ At(h)[1] = zone[h] /\ At(h)[2] = vol[h]
  BY <1>1, Zenon DEF At, Instances
<1>3. Home(vol[h]) = At(h)
  BY <1>1, <1>2, Zenon DEF Home, At, Led
<1>4. KubeInv(vol[h]) /\ InstanceInv(At(h))
  BY <1>1, <1>2, Zenon DEF CallsInv
<1>5. \A g \in Handlers : g # h => (Busy(g) => vol[g] # vol[h])
  BY Zenon DEF CallsInv, OneCallPerVolume
<1>6. phase[vol[h]] # "abandoned"
  <2>1. pc[h] \in CreatePCs \cup DeletePCs \cup ExpandPCs
    BY Zenon DEF CallsInv, TypeOK, Busy
  <2> QED
    BY <1>1, <2>1, Zenon DEF HandlerInv
<1> QED
  BY <1>1, <1>2, <1>3, <1>4, <1>5, <1>6, Zenon

\* A step about another volume leaves a call alone.
LEMMA OtherCall ==
  ASSUME CallsInv, NEW v \in Volumes, Only(v), NEW g \in Handlers, SameCall(g),
         Busy(g) => vol[g] # v
  PROVE  HandlerInv(g)'
<1>1. Busy(g) => vol[g] \in Volumes /\ At(g) \in Instances /\ At(g)[2] = vol[g]
  BY CallFact, Zenon
<1>2. Busy(g) => SameKube(vol[g]) /\ SameCloud(At(g))
  BY <1>1, Zenon DEF Only
<1> QED
  BY <1>2, HandlerFrame, Zenon DEF CallsInv

\* A step of handler h that concerns volume v only.
LEMMA HandlerStep ==
  ASSUME CallsInv, NEW h \in Handlers, NEW v \in Volumes, Only(v), CallTypeOK',
         \A g \in Handlers : g # h => SameCall(g) /\ (Busy(g) => vol[g] # v),
         Busy(h)' => vol'[h] = v,
         HandlerInv(h)'
  PROVE  CallsInv'
<1>1. (\A w \in Volumes : KubeInv(w)') /\ (\A j \in Instances : InstanceInv(j)')
  BY OnlyFact, Zenon
<1>2. \A g \in Handlers : HandlerInv(g)'
  BY OtherCall, Zenon
<1>3. OneCallPerVolume'
  BY DEF CallsInv, OneCallPerVolume, SameCall, Busy
<1>4. TypeOK'
  BY TypeFrame, TypePartsPrime, Zenon DEF CallsInv, Only
<1> QED
  BY <1>1, <1>2, <1>3, <1>4, Zenon DEF CallsInv

\* A step of Kubernetes that concerns volume v only.
LEMMA VolumeStep ==
  ASSUME CallsInv, NEW v \in Volumes, Only(v), UNCHANGED <<locks, calls>>,
         \A g \in Handlers : Busy(g) /\ vol[g] = v => HandlerInv(g)'
  PROVE  CallsInv'
<1>1. (\A w \in Volumes : KubeInv(w)') /\ (\A j \in Instances : InstanceInv(j)')
  BY OnlyFact, Zenon
<1>2. \A g \in Handlers : SameCall(g)
  BY Zenon DEF SameCall, calls, KeyOf, At
<1>3. \A g \in Handlers : HandlerInv(g)'
  BY <1>2, OtherCall, Zenon
<1>4. OneCallPerVolume'
  BY Zenon DEF CallsInv, OneCallPerVolume, Busy, calls
<1>5. TypeOK'
  BY TypeFrame, TypePartsPrime, Zenon DEF CallsInv, Only
<1> QED
  BY <1>1, <1>3, <1>4, <1>5, Zenon DEF CallsInv

\* A step of the service that concerns instance i only.
LEMMA InstanceStep ==
  ASSUME CallsInv, NEW i \in Instances, About(i), UNCHANGED <<kube, locks, calls>>,
         \A g \in Handlers : Busy(g) /\ At(g) = i => HandlerInv(g)'
  PROVE  CallsInv'
<1>1. i[2] \in Volumes /\ Only(i[2])
  BY InstanceFact, AboutFact, Zenon
<1>2. ASSUME NEW g \in Handlers, Busy(g), At(g) # i PROVE HandlerInv(g)'
  <2>1. vol[g] \in Volumes /\ At(g) \in Instances
    BY <1>2, CallFact, Zenon
  <2>2. SameKube(vol[g]) /\ SameCloud(At(g))
    BY <1>2, <2>1, Zenon DEF About, SameKube, kube
  <2>3. SameCall(g)
    BY Zenon DEF SameCall, calls, KeyOf, At
  <2> QED
    BY <2>2, <2>3, HandlerFrame, Zenon DEF CallsInv
<1> QED
  BY <1>1, <1>2, VolumeStep, Zenon

-----------------------------------------------------------------------------
(* How a call starts, goes on and returns.                                 *)

\* A create operation that is done has left an active instance of the size asked
\* for.
LEMMA DoneFact ==
  ASSUME CallsInv, NEW h \in Handlers, Busy(h), pc[h] = "cWait", createOp[At(h)] = "done"
  PROVE  inst[At(h)] \in {"ACTIVE", "REPAIRING"} /\ cap[At(h)] = RequestGib(req[h])
<1>1. PICK i \in Instances : i = At(h) /\ i[2] = vol[h] /\ InstanceInv(i) /\ HandlerInv(h)
  BY CallFact, Zenon
<1>2. ~Used(i)
  BY <1>1, Zenon DEF HandlerInv, CreatePCs, Used, HadPV
<1>3. inst[i] # "none" /\ inst[i] # "DELETING"
  BY <1>1, <1>2, Zenon DEF InstanceInv, PhaseInv
<1>4. inst[i] # "CREATING"
  BY <1>1, Zenon DEF InstanceInv, CreationInv
<1>5. inst[i] \in {"none", "CREATING", "ACTIVE", "REPAIRING", "DELETING"}
  BY <1>1, Zenon DEF CallsInv, TypeOK
<1>6. cap[i] = RequestGib(req[h])
  BY <1>1, <1>3, Zenon DEF HandlerInv
<1> QED
  BY <1>1, <1>3, <1>4, <1>5, <1>6, Zenon

\* A call that returns forgets its arguments and releases its own lock only.
LEMMA ReturnFact ==
  ASSUME CallsInv, NEW h \in Handlers, Busy(h), Return(h)
  PROVE  /\ \A g \in Handlers : g # h => SameCall(g)
         /\ pc'[h] = "idle" /\ HandlerInv(h)' /\ CallTypeOK'
<1>1. CallTypeOK
  BY TypeParts, Zenon DEF CallsInv
<1>2. pc'[h] = "idle" /\ HandlerInv(h)'
  BY <1>1, Zenon DEF CallTypeOK, Return, Forget, HandlerInv, Busy, CreatePCs, DeletePCs,
    ExpandPCs
<1>3. CallTypeOK'
  BY <1>1, Zenon DEF CallTypeOK, Return, Forget
<1>4. ASSUME NEW g \in Handlers, g # h PROVE SameCall(g)
  <2>1. Busy(g) => KeyOf(g) # KeyOf(h)
    BY <1>4, CallFact, Zenon DEF KeyOf, At
  <2> QED
    BY <1>1, <1>4, <2>1, Zenon DEF CallTypeOK, Return, Forget, SameCall
<1> QED
  BY <1>2, <1>3, <1>4, Zenon

\* A call goes on to l, perhaps with a file system name.
GoesOn(h, l) ==
  /\ pc' = [pc EXCEPT ![h] = l] /\ UNCHANGED <<locks, vol, zone, req>>
  /\ UNCHANGED pick \/ \E f \in FSNames : pick' = [pick EXCEPT ![h] = f]

\* A call returns, or it goes on with what it has found out.
Proceeds(h) ==
  \/ Return(h)
  \/ HandlerInv(h)' /\ \E l \in CreatePCs \cup DeletePCs \cup ExpandPCs : GoesOn(h, l)

\* A step of a call that may change its volume.
LEMMA CallStep ==
  ASSUME CallsInv, NEW h \in Handlers, Busy(h), NEW i \in Instances, i = At(h),
         Proceeds(h), About(i)
  PROVE  CallsInv'
<1>1. PICK v \in Volumes :
         /\ v = vol[h] /\ i[2] = v
         /\ \A g \in Handlers : g # h => (Busy(g) => vol[g] # v)
  BY CallFact, Zenon
<1>2. CallTypeOK
  BY TypeParts, Zenon DEF CallsInv
<1>3. Only(v)
  BY <1>1, AboutFact, Zenon
<1>4. CASE Return(h)
  BY <1>1, <1>3, <1>4, ReturnFact, HandlerStep, Zenon DEF Busy
<1>5. ASSUME NEW l \in CreatePCs \cup DeletePCs \cup ExpandPCs, GoesOn(h, l), HandlerInv(h)'
      PROVE  CallsInv'
  <2>1. CallTypeOK' /\ vol'[h] = v
    BY <1>1, <1>2, <1>5, ZenonT(30) DEF CallTypeOK, GoesOn
  <2>2. \A g \in Handlers : g # h => SameCall(g)
    BY <1>2, <1>5, Zenon DEF CallTypeOK, GoesOn, SameCall, KeyOf, At
  <2> QED
    BY <1>1, <1>3, <1>5, <2>1, <2>2, HandlerStep, Zenon
<1> QED
  BY <1>4, <1>5, Zenon DEF Proceeds

\* The answer of a call tells Kubernetes nothing, or it is one of CreateVolume; a
\* final one is given only when there is no instance.
Answers(h) ==
  \/ UNCHANGED heard
  \/ \E a \in {"again", "final", "mismatch", "error"} :
       /\ heard' = [heard EXCEPT ![vol[h]] = a]
       /\ a = "final" => inst[At(h)] = "none"

\* A call returns and the instances stay as they are.
LEMMA ReturnStep ==
  ASSUME CallsInv, NEW h \in Handlers, Busy(h), Return(h), Answers(h), MayFail,
         UNCHANGED <<phase, want, home, static>>, UNCHANGED cloud
  PROVE  CallsInv'
<1>1. PICK i \in Instances, v \in Volumes :
         /\ v = vol[h] /\ i = At(h) /\ i[2] = v /\ Led(i)
         /\ KubeInv(v) /\ InstanceInv(i) /\ phase[v] # "abandoned"
  BY CallFact, Zenon
<1>2. heard \in [Volumes -> {"nothing", "again", "final", "mismatch", "error"}]
  BY Zenon DEF CallsInv, TypeOK
<1>3. \/ UNCHANGED heard
      \/ \E a \in {"again", "final", "mismatch", "error"} :
           heard' = [heard EXCEPT ![v] = a] /\ (a = "final" => inst[i] = "none")
  BY <1>1, Zenon DEF Answers
<1>4. heard' \in [Volumes -> {"nothing", "again", "final", "mismatch", "error"}]
  BY <1>2, <1>3, Zenon
<1>5. KubeTypeOK'
  BY <1>4, Zenon DEF CallsInv, TypeOK, KubeTypeOK
<1>6. CloudTypeOK'
  BY TypeFrame, Zenon DEF CallsInv
<1>7. \A w \in Volumes : w # v => SameKube(w)
  BY <1>2, <1>3, Zenon DEF SameKube
<1>8. \A j \in Instances : SameCloud(j)
  BY Zenon DEF SameCloud, cloud
<1>9. KubeInv(v)'
  BY <1>1, Zenon DEF KubeInv, HadPV
<1>10. InstanceInv(i)'
  <2>1. (Led(i)' <=> Led(i)) /\ (Used(i)' <=> Used(i))
    BY Zenon DEF Led, Used, HadPV
  <2>2. CreationInv(i)' /\ UpdateInv(i)'
    BY <1>1, <2>1, Zenon DEF InstanceInv, CreationInv, UpdateInv, Resizes, cloud
  <2>3. PhaseInv(i)'
    <3>1. heard'[v] \in {"nothing", "final"} =>
            heard[v] \in {"nothing", "final"} \/ inst[i] = "none"
      BY <1>1, <1>2, <1>3, Zenon
    <3> QED
      BY <1>1, <2>1, <3>1, Zenon DEF InstanceInv, PhaseInv, cloud
  <2> QED
    BY <2>2, <2>3, Zenon DEF InstanceInv
<1>11. About(i)
  BY <1>1, <1>5, <1>6, <1>7, <1>8, <1>9, <1>10, Zenon DEF About, Led
<1> QED
  BY <1>1, <1>11, CallStep, Zenon DEF Proceeds

\* The answers of CreateVolume that report an error.
LEMMA AnswerStep ==
  ASSUME CallsInv, NEW h \in Handlers, Busy(h), NEW c,
         NEW verdict \in {"final", "mismatch", "error"}, Answer(h, c, verdict), UNCHANGED cloud, MayFail,
         ~Retried(c) /\ verdict = "final" => inst[At(h)] = "none"
  PROVE  CallsInv'
<1>1. Answers(h)
  BY Zenon DEF Answer, Answers
<1> QED
  BY <1>1, ReturnStep, Zenon DEF Answer

\* An error of the service is passed on.
LEMMA PassOnStep ==
  ASSUME CallsInv, NEW h \in Handlers, Busy(h), NEW e \in Errors, PassOn(h, e),
         UNCHANGED cloud, MayFail
  PROVE  CallsInv'
<1>1. Retried(codeForError(e)) \/ e = "other"
  BY Zenon DEF Errors, Retried, codeForError
<1> DEFINE c == codeForError(e)
           w == IF e = "other" THEN "error" ELSE "final"
<1>2. w \in {"final", "mismatch", "error"} /\ (Retried(c) \/ w = "error")
  BY <1>1, Zenon
<1>3. Answer(h, c, w)
  BY Zenon DEF PassOn
<1> HIDE DEF c, w
<1> QED
  BY <1>2, <1>3, AnswerStep, Zenon

\* A call that returns without more.
LEMMA FailsStep ==
  ASSUME CallsInv, NEW h \in Handlers, Busy(h),
         ReturnOnly(h) \/ Fails(h) \/ CreateFails(h)
  PROVE  CallsInv'
<1>1. CASE ReturnOnly(h) \/ Fails(h)
  BY <1>1, ReturnStep, Zenon DEF ReturnOnly, Fails, Answers, MayFail, kube
<1>2. CASE CreateFails(h)
  BY <1>2, PassOnStep, Zenon DEF CreateFails, MayFail
<1> QED
  BY <1>1, <1>2, Zenon

\* A call goes on and has changed nothing.
LEMMA GoesOnStep ==
  ASSUME CallsInv, NEW h \in Handlers, Busy(h),
         NEW l \in CreatePCs \cup DeletePCs \cup ExpandPCs, GoesOn(h, l),
         UNCHANGED <<kube, cloud, faults>>, HandlerInv(h)'
  PROVE  CallsInv'
<1>1. PICK i \in Instances : i = At(h) /\ i[2] \in Volumes /\ KubeInv(i[2]) /\ InstanceInv(i)
  BY CallFact, Zenon
<1>2. KubeTypeOK' /\ CloudTypeOK' /\ static' = static
  BY TypeFrame, Zenon DEF CallsInv, kube
<1>3. (\A w \in Volumes : SameKube(w)) /\ (\A j \in Instances : SameCloud(j))
  BY Zenon DEF SameKube, SameCloud, kube, cloud
<1>4. KubeInv(i[2])' /\ InstanceInv(i)'
  BY <1>1, <1>2, <1>3, KubeFrame, InstanceFrame, Zenon
<1>5. About(i)
  BY <1>1, <1>2, <1>3, <1>4, Zenon DEF About, MayFail
<1> QED
  BY <1>1, <1>5, CallStep, Zenon DEF Proceeds

-----------------------------------------------------------------------------
(* CreateVolume.                                                           *)

\* A volume is returned only with its instance, of the size asked for.
LEMMA CreateSucceedsStep ==
  ASSUME CallsInv, NEW h \in Handlers, pc[h] \in CreatePCs, CreateSucceeds(h),
         inst[At(h)] \in {"ACTIVE", "REPAIRING"}, cap[At(h)] = RequestGib(req[h])
  PROVE  CallsInv'
<1>1. Busy(h)
  BY Zenon DEF Busy, CreatePCs
<1>2. PICK i \in Instances, v \in Volumes :
         /\ v = vol[h] /\ i = At(h) /\ i[1] = zone[h] /\ i[2] = v /\ Led(i)
         /\ KubeInv(v) /\ InstanceInv(i) /\ HandlerInv(h)
  BY <1>1, CallFact, Zenon
<1>3. /\ phase[v] = "wanted" /\ req[h] \in Requests /\ Valid(req[h]) /\ zone[h] \in Zones
      /\ inst[i] \in {"ACTIVE", "REPAIRING"} /\ cap[i] = RequestGib(req[h])
  BY <1>1, <1>2, Zenon DEF HandlerInv
<1>4. TypeOK /\ KubeTypeOK /\ CloudTypeOK
  BY TypeParts, Zenon DEF CallsInv
<1>5. KubeTypeOK'
  BY <1>2, <1>3, <1>4, Zenon DEF KubeTypeOK, CreateSucceeds
<1>6. CloudTypeOK' /\ static' = static
  BY <1>4, TypeFrame, Zenon DEF CreateSucceeds
<1>7. \A w \in Volumes : w # v => SameKube(w)
  BY <1>2, <1>4, Zenon DEF SameKube, CreateSucceeds, KubeTypeOK
<1>8. \A j \in Instances : SameCloud(j)
  BY Zenon DEF SameCloud, CreateSucceeds, cloud
<1>9. /\ phase'[v] = "bound" /\ want'[v] = req[h] /\ home'[v] = zone[h]
      /\ UNCHANGED <<heard, static, cloud>>
  BY <1>2, <1>3, <1>4, Zenon DEF CreateSucceeds, KubeTypeOK
<1>10. KubeInv(v)'
  BY <1>3, <1>9, Zenon DEF KubeInv, HadPV
<1>11. Led(i)' /\ Used(i)' /\ ~Used(i)
  BY <1>2, <1>3, <1>9, Zenon DEF Led, Used, HadPV
<1>12. InstanceInv(i)'
  <2>1. createOp[i] = "done" /\ v \notin static /\ updates[i] = {}
    BY <1>2, <1>3, <1>4, <1>11, Zenon DEF InstanceInv, CreationInv, UpdateInv, KubeInv,
      CloudTypeOK
  <2>2. CreationInv(i)'
    BY <1>2, <1>9, <2>1, Zenon DEF InstanceInv, CreationInv, cloud
  <2>3. PhaseInv(i)'
    BY <1>2, <1>3, <1>9, <1>11, <2>1, Zenon DEF PhaseInv, cloud
  <2>4. UpdateInv(i)'
    BY <1>2, <1>3, <1>9, <1>11, <2>1, RequestFact DEF UpdateInv, cloud
  <2> QED
    BY <2>2, <2>3, <2>4, Zenon DEF InstanceInv
<1>13. About(i)
  BY <1>2, <1>5, <1>6, <1>7, <1>8, <1>10, <1>11, <1>12, Zenon DEF About, MayFail, CreateSucceeds
<1> QED
  BY <1>1, <1>2, <1>13, CallStep, Zenon DEF CreateSucceeds, Proceeds

\* A call starts when no other call for its volume is running.  One of CreateVolume
\* leads a volume that was not handed out to a zone.
LEMMA StartStep ==
  ASSUME CallsInv, NEW h \in Handlers, NEW v \in Volumes, NEW l \in {"cGet", "dGet", "eGet"},
         NEW z \in Zones, NEW r \in Requests \cup {None}, NEW k \in Keys,
         Start(h, l, v, z, r), TryAcquire(k),
         \A g \in Handlers : Busy(g) /\ vol[g] = v => KeyOf(g) = k,
         UNCHANGED <<phase, want, static>>,
         \/ UNCHANGED <<home, heard>>
         \/ /\ phase[v] = "wanted" /\ home' = [home EXCEPT ![v] = z]
            /\ heard' = [heard EXCEPT ![v] = "again"],
         HandlerInv(h)'
  PROVE  CallsInv'
<1>1. TypeOK /\ KubeTypeOK /\ CallTypeOK
  BY TypeParts, Zenon DEF CallsInv
<1>2. \A g \in Handlers : Busy(g) => vol[g] # v
  BY Zenon DEF CallsInv, HandlerInv, TryAcquire
<1>3. \A g \in Handlers : g # h => SameCall(g)
  BY <1>1, Zenon DEF Start, TryAcquire, SameCall, CallTypeOK
<1>4. CallTypeOK' /\ vol'[h] = v
  BY <1>1, Zenon DEF CallTypeOK, Start, TryAcquire, CreatePCs, DeletePCs, ExpandPCs
<1>5. KubeTypeOK'
  BY <1>1, ZenonT(30) DEF KubeTypeOK
<1>6. CloudTypeOK' /\ MayFail
  BY <1>1, TypeFrame, Zenon DEF Start, MayFail
<1>7. \A w \in Volumes : w # v => SameKube(w)
  BY <1>1, Zenon DEF SameKube, KubeTypeOK
<1>8. \A j \in Instances : SameCloud(j)
  BY Zenon DEF SameCloud, Start, cloud
<1>9. SameKube(v) \/ (phase[v] = "wanted" /\ phase'[v] = "wanted" /\ heard'[v] = "again")
  BY <1>1, Zenon DEF SameKube, KubeTypeOK
<1>10. KubeInv(v) /\ static' = static
  BY Zenon DEF CallsInv
<1>11. KubeInv(v)'
  BY <1>9, <1>10, KubeFrame, Zenon DEF KubeInv, HadPV
<1>12. ASSUME NEW j \in Instances, j[2] = v PROVE InstanceInv(j)'
  <2>1. InstanceInv(j) /\ SameCloud(j)
    BY <1>8, Zenon DEF CallsInv
  <2>2. CASE SameKube(v)
    BY <1>10, <1>12, <2>1, <2>2, InstanceFrame, Zenon
  <2>3. CASE phase[v] = "wanted" /\ phase'[v] = "wanted" /\ heard'[v] = "again"
    <3>1. ~Used(j) /\ ~Used(j)'
      BY <1>12, <2>3, Zenon DEF Used, HadPV
    <3>2. CreationInv(j)'
      BY <1>10, <2>1, <3>1, Zenon DEF InstanceInv, CreationInv, SameCloud
    <3>3. PhaseInv(j)'
      BY <1>12, <2>1, <2>3, <3>1, Zenon DEF InstanceInv, PhaseInv, SameCloud
    <3>4. updates[j] = {} /\ updates'[j] = {}
      BY <2>1, <3>1, Zenon DEF InstanceInv, UpdateInv, SameCloud
    <3>5. UpdateInv(j)'
      BY <2>1, <3>1, <3>4, Zenon DEF InstanceInv, UpdateInv, SameCloud
    <3> QED
      BY <3>2, <3>3, <3>5, Zenon DEF InstanceInv
  <2> QED
    BY <1>9, <2>2, <2>3, Zenon
<1>13. Only(v)
  BY <1>5, <1>6, <1>7, <1>8, <1>10, <1>11, <1>12, Zenon DEF Only
<1> QED
  BY <1>2, <1>3, <1>4, <1>13, HandlerStep, Zenon

-----------------------------------------------------------------------------
(* A step as seen from one instance.                                       *)

\* What there is of the storage for a volume in a zone; where the volume has its
\* own, and its capacity.
Have(i) ==
  IF inst[i] = "none" THEN IF creates[i] = 0 THEN "never" ELSE "none"
  ELSE IF inst[i] = "CREATING" THEN "making" ELSE "ready"

Place(v) == IF HadPV(v) THEN home[v] ELSE None

Size(v) == IF HadPV(v) THEN cap[Home(v)] ELSE 0

\* Nothing that matters to the life of a volume changes, or nothing of an instance.
SameLife(w) == phase'[w] = phase[w] /\ Place(w)' = Place(w) /\ Size(w)' = Size(w)

SameStorage(j) == inst'[j] = inst[j] /\ cap'[j] = cap[j] /\ creates'[j] = creates[j]

\* Nothing changes but the instance and its volume.
Alone(i) ==
  /\ \A w \in Volumes : w # i[2] => SameLife(w)
  /\ \A j \in Instances : j # i => SameStorage(j)

\* The volume goes from one phase and storage to another.
Goes(i, p, q, s, t) ==
  phase[i[2]] = p /\ phase'[i[2]] = q /\ Have(i) = s /\ Have(i)' = t

\* The steps of a volume's life in which storage has a part.
Life(i) ==
  \/ /\ SameLife(i[2])
     /\ \/ Have(i)' = Have(i)
        \/ phase[i[2]] = "wanted" /\ Have(i) = "never" /\ Have(i)' = "making"
        \/ Have(i) = "making" /\ Have(i)' \in {"ready", "none"}
  \/ Goes(i, "wanted", "bound", "ready", "ready") /\ Place(i[2])' = i[1]
  \/ /\ Place(i[2]) = i[1] /\ Place(i[2])' = i[1]
     /\ \/ Goes(i, "released", "gone", "none", "none") /\ Size(i[2])' = Size(i[2])
        \/ Goes(i, "released", "released", "ready", "none") /\ Size(i[2])' = 0
        \/ \E p \in {"bound", "released"} :
             Goes(i, p, p, "ready", "ready") /\ Size(i[2])' > Size(i[2])

\* The instance does not shrink, and it is created only for a volume that is led
\* to it; the step is a good one.
Grows(i) == inst'[i] # "none" => cap'[i] >= cap[i]

Founds(i) == creates'[i] = creates[i] \/ Led(i)

Good(i) == Life(i) /\ Grows(i) /\ Founds(i) /\ CapacityAnswers(i[2])

\* Nothing of any volume changes.
Quiet == (\A w \in Volumes : SameLife(w)) /\ (\A j \in Instances : SameStorage(j))

\* Kubernetes gives a volume up or releases it.
Leaves(v) ==
  /\ \A w \in Volumes : w # v => SameLife(w)
  /\ \A j \in Instances : SameStorage(j)
  /\ Place(v)' = Place(v) /\ Size(v)' = Size(v)
  /\ \/ phase[v] = "wanted" /\ phase'[v] = "abandoned"
     \/ phase[v] = "bound" /\ phase'[v] = "released"

\* A step leaves all volumes and instances alone but one, and is a good step for it.
GoodStep ==
  Quiet \/ (\E v \in Volumes : Leaves(v)) \/ (\E i \in Instances : Alone(i) /\ Good(i))

\* What makes a step a good one.
LEMMA GoodFact ==
  ASSUME NEW i \in Instances, Alone(i), Life(i), Grows(i), Founds(i), CapacityAnswers(i[2])
  PROVE  GoodStep
BY Zenon DEF GoodStep, Good

\* A volume that was handed out has an instance in its ID.
LEMMA HomeFact ==
  ASSUME CallsInv, NEW w \in Volumes, HadPV(w)
  PROVE  /\ Home(w) \in Instances /\ Home(w)[1] = home[w] /\ Home(w)[2] = w
         /\ home[w] \in Zones /\ Led(Home(w))
<1>1. home[w] \in Zones
  BY Zenon DEF CallsInv, KubeInv
<1> QED
  BY <1>1, Zenon DEF Home, Instances, Led

\* The life of a volume goes by its phase, zone and capacity.
LEMMA LifeFrame ==
  ASSUME NEW w \in Volumes, phase'[w] = phase[w], HadPV(w) => home'[w] = home[w],
         HadPV(w) => cap'[Home(w)] = cap[Home(w)]
  PROVE  SameLife(w)
<1>1. CASE HadPV(w)
  <2>1. Home(w)' = Home(w) /\ HadPV(w)'
    BY <1>1, Zenon DEF Home, HadPV
  <2> QED
    BY <1>1, <2>1, Zenon DEF SameLife, Place, Size
<1>2. CASE ~HadPV(w)
  <2>1. ~HadPV(w)'
    BY <1>2, Zenon DEF HadPV
  <2> QED
    BY <1>2, <2>1, Zenon DEF SameLife, Place, Size
<1> QED
  BY <1>1, <1>2, Zenon

\* A step that changes neither phases nor instances is quiet.
LEMMA UnchangedIsQuiet ==
  ASSUME UNCHANGED <<phase, home, inst, cap, creates>>
  PROVE  Quiet
BY LifeFrame, Zenon DEF Quiet, SameStorage

\* A step about one instance leaves the volumes alone, but perhaps the one that was
\* handed out with it.
LEMMA AloneFact ==
  ASSUME CallsInv, NEW i \in Instances, UNCHANGED <<phase, home>>,
         \A j \in Instances : j # i => SameStorage(j)
  PROVE  Alone(i) /\ (~Used(i) => SameLife(i[2]))
<1>1. ASSUME NEW w \in Volumes, HadPV(w), Home(w) # i PROVE cap'[Home(w)] = cap[Home(w)]
  BY <1>1, HomeFact, Zenon DEF SameStorage
<1>2. ASSUME NEW w \in Volumes, w # i[2] PROVE SameLife(w)
  <2>1. HadPV(w) => Home(w) # i
    BY <1>2, HomeFact, Zenon
  <2> QED
    BY <1>1, <2>1, LifeFrame, Zenon
<1>3. ASSUME ~Used(i) PROVE SameLife(i[2])
  <2>1. i[2] \in Volumes /\ (HadPV(i[2]) => Home(i[2]) # i)
    BY <1>3, InstanceFact, HomeFact, Zenon DEF Used
  <2> QED
    BY <1>1, <2>1, LifeFrame, Zenon
<1> QED
  BY <1>2, <1>3, Zenon DEF Alone

\* The capacities of instances are numbers.
LEMMA CapFact ==
  ASSUME CallsInv, CallsInv', NEW i \in Instances
  PROVE  cap[i] \in Nat /\ cap'[i] \in Nat
<1>1. cap[i] \in Gibs \cup {0} /\ cap'[i] \in Gibs \cup {0}
  BY DEF CallsInv, TypeOK
<1> QED
  BY <1>1, GibsFact, Zenon

\* An instance whose capacity does not change does not shrink.
LEMMA SameGrows ==
  ASSUME CallsInv, CallsInv', NEW i \in Instances, cap'[i] = cap[i]
  PROVE  Grows(i)
BY CapFact DEF Grows

-----------------------------------------------------------------------------
(* The calls as steps of one volume.                                       *)

\* CreateVolume hands out what was asked for.
LEMMA CreateSucceedsGood ==
  ASSUME CallsInv, CallsInv', NEW h \in Handlers, pc[h] \in CreatePCs, CreateSucceeds(h),
         inst[At(h)] \in {"ACTIVE", "REPAIRING"}, cap[At(h)] = RequestGib(req[h])
  PROVE  GoodStep
<1>1. Busy(h)
  BY Zenon DEF Busy, CreatePCs
<1>2. PICK i \in Instances, v \in Volumes :
         /\ v = vol[h] /\ i = At(h) /\ i[1] = zone[h] /\ i[2] = v /\ HandlerInv(h)
  BY <1>1, CallFact, Zenon
<1>3. /\ phase[v] = "wanted" /\ req[h] \in Requests /\ Valid(req[h])
      /\ inst[i] \in {"ACTIVE", "REPAIRING"} /\ cap[i] = RequestGib(req[h])
  BY <1>1, <1>2, Zenon DEF HandlerInv
<1>4. KubeTypeOK
  BY TypeParts, Zenon DEF CallsInv
<1>5. /\ UNCHANGED <<inst, cap, creates>>
      /\ phase'[v] = "bound" /\ want'[v] = req[h] /\ home'[v] = i[1]
      /\ \A w \in Volumes : w # v => phase'[w] = phase[w] /\ home'[w] = home[w]
  BY <1>2, <1>3, <1>4, Zenon DEF CreateSucceeds, KubeTypeOK, cloud
<1>6. Alone(i)
  BY <1>2, <1>5, LifeFrame, Zenon DEF Alone, SameStorage
<1>7. Life(i)
  <2>1. Have(i) = "ready" /\ Have(i)' = "ready"
    BY <1>3, <1>5, Zenon DEF Have
  <2>2. Place(v)' = i[1]
    BY <1>5, Zenon DEF Place, HadPV
  <2> QED
    BY <1>2, <1>3, <1>5, <2>1, <2>2, Zenon DEF Life, Goes
<1>8. Grows(i) /\ Founds(i)
  BY <1>5, SameGrows, Zenon DEF Founds
<1>9. CapacityAnswers(v)
  <2>1. <<home'[v], v>> = i /\ cap[i] = BytesToGib(getRequestCapacity(req[h]))
    BY <1>2, <1>3, <1>5, InstanceFact, Zenon DEF RequestGib
  <2>2. getRequestCapacity(req[h]) \in Nat
    BY <1>3, RequestFact, Zenon
  <2>3. /\ cap[i] * Gib <= getRequestCapacity(req[h])
        /\ cap[i] * Gib > getRequestCapacity(req[h]) - Gib
    BY <2>1, <2>2, GibFact, Zenon
  <2>4. req[h].limit > 0 => getRequestCapacity(req[h]) <= req[h].limit
    BY <1>3, ControllerAssumption, Zenon DEF Valid, ValidRange, getRequestCapacity
  <2>5. req[h].limit \in Nat /\ cap[i] * Gib \in Int /\ Gib \in Nat
    BY <1>3, CapFact, ControllerAssumption
  <2> DEFINE c == cap[i] * Gib
             r == getRequestCapacity(req[h])
             l == req[h].limit
  <2>6. r < c + Gib /\ (l > 0 => c <= l)
    <3>1. r \in Nat /\ c \in Int /\ l \in Nat /\ c <= r /\ c > r - Gib /\ (l > 0 => r <= l)
      BY <2>2, <2>3, <2>4, <2>5, Zenon
    <3> HIDE DEF c, r, l
    <3> QED
      BY <2>5, <3>1, SMTT(30)
  <2> QED
    BY <1>5, <2>1, <2>3, <2>6, Zenon DEF CapacityAnswers
<1> QED
  BY <1>2, <1>6, <1>7, <1>8, <1>9, GoodFact, Zenon

\* DeleteVolume reports success when the storage is gone.
LEMMA DeleteSucceedsGood ==
  ASSUME CallsInv, CallsInv', NEW h \in Handlers, pc[h] \in DeletePCs, inst[At(h)] = "none",
         DeleteSucceeds(h)
  PROVE  GoodStep
<1>1. Busy(h)
  BY Zenon DEF Busy, DeletePCs
<1>2. PICK i \in Instances, v \in Volumes :
         /\ v = vol[h] /\ i = At(h) /\ i[2] = v /\ Led(i)
         /\ KubeInv(v) /\ InstanceInv(i) /\ HandlerInv(h)
  BY <1>1, CallFact, Zenon
<1>3. phase[v] = "released" /\ inst[i] = "none" /\ i[1] = home[v]
  BY <1>2, Zenon DEF HandlerInv, Led
<1>4. Used(i) /\ v \notin static
  BY <1>2, <1>3, Zenon DEF Used, HadPV, KubeInv
<1>5. creates[i] # 0
  BY <1>2, <1>4, Zenon DEF InstanceInv, CreationInv, PhaseInv
<1>6. KubeTypeOK
  BY TypeParts, Zenon DEF CallsInv
<1>7. /\ UNCHANGED <<inst, cap, creates, home>> /\ phase'[v] = "gone"
      /\ \A w \in Volumes : w # v => phase'[w] = phase[w]
  BY <1>2, <1>6, Zenon DEF DeleteSucceeds, KubeTypeOK, cloud
<1>8. Alone(i)
  BY <1>2, <1>7, LifeFrame, Zenon DEF Alone, SameStorage
<1>9. Life(i)
  <2>1. Have(i) = "none" /\ Have(i)' = "none"
    BY <1>3, <1>5, <1>7, Zenon DEF Have
  <2>2. Place(v) = i[1] /\ Place(v)' = i[1] /\ Size(v)' = Size(v)
    BY <1>3, <1>7, Zenon DEF Place, Size, HadPV, Home
  <2> QED
    BY <1>2, <1>3, <1>7, <2>1, <2>2, Zenon DEF Life, Goes
<1>10. Grows(i) /\ Founds(i) /\ CapacityAnswers(v)
  BY <1>3, <1>7, SameGrows, Zenon DEF Founds, CapacityAnswers
<1> QED
  BY <1>2, <1>8, <1>9, <1>10, GoodFact, Zenon

\* CreateInstance makes storage in a zone where the volume never had any.
LEMMA CreateSendGood ==
  ASSUME CallsInv, CallsInv', NEW h \in Handlers, CreateSend(h)
  PROVE  GoodStep
<1>1. pc[h] = "cSend" /\ Busy(h)
  BY Zenon DEF CreateSend, Busy
<1>2. CASE CreateFails(h)
  BY <1>2, UnchangedIsQuiet, Zenon DEF CreateFails, PassOn, Answer, GoodStep, cloud
<1>3. CASE ~CreateFails(h)
  <2>1. PICK i \in Instances, v \in Volumes :
           /\ v = vol[h] /\ i = At(h) /\ i[2] = v /\ Led(i)
           /\ InstanceInv(i) /\ HandlerInv(h)
    BY <1>1, CallFact, Zenon
  <2>2. CloudTypeOK
    BY TypeParts, Zenon DEF CallsInv
  <2>3. /\ phase[v] = "wanted" /\ inst[i] = "none" /\ createOp[i] = "none"
        /\ cap[i] = 0 /\ creates[i] = 0
    BY <1>1, <2>1, Zenon DEF HandlerInv, CreatePCs, InstanceInv, CreationInv, UpdateInv
  <2>4. /\ inst' = [inst EXCEPT ![i] = "CREATING"]
        /\ cap' = [cap EXCEPT ![i] = RequestGib(req[h])]
        /\ creates' = [creates EXCEPT ![i] = @ + 1]
        /\ UNCHANGED <<phase, home>>
    BY <1>3, <2>1, Zenon DEF CreateSend, PassOn, Answer, kube
  <2>5. \A j \in Instances : j # i => SameStorage(j)
    BY <2>2, <2>4, Zenon DEF SameStorage, CloudTypeOK
  <2>6. inst'[i] = "CREATING" /\ phase'[v] = phase[v]
    BY <2>1, <2>2, <2>4, Zenon DEF CloudTypeOK
  <2>7. Alone(i) /\ SameLife(v)
    BY <2>1, <2>3, <2>4, <2>5, AloneFact, Zenon DEF Used, HadPV
  <2>8. Life(i)
    <3>1. Have(i) = "never" /\ Have(i)' = "making"
      BY <2>3, <2>6, Zenon DEF Have
    <3> QED
      BY <2>1, <2>3, <2>7, <3>1, Zenon DEF Life
  <2>9. Grows(i)
    BY <2>3, CapFact DEF Grows
  <2>10. Founds(i) /\ CapacityAnswers(v)
    BY <2>1, <2>3, <2>6, Zenon DEF Founds, CapacityAnswers
  <2> QED
    BY <2>1, <2>7, <2>8, <2>9, <2>10, GoodFact, Zenon
<1> QED
  BY <1>2, <1>3, Zenon

\* An instance that exists and is not being created changes its state.
LEMMA InstanceGood ==
  ASSUME CallsInv, CallsInv', NEW i \in Instances,
         NEW t \in {"ACTIVE", "REPAIRING", "DELETING"},
         inst[i] \notin {"none", "CREATING"},
         inst' = [inst EXCEPT ![i] = t], UNCHANGED <<phase, home, cap, creates>>
  PROVE  GoodStep
<1>1. CloudTypeOK /\ i[2] \in Volumes
  BY TypeParts, InstanceFact, Zenon DEF CallsInv
<1>2. inst'[i] = t /\ \A j \in Instances : j # i => SameStorage(j)
  BY <1>1, Zenon DEF CloudTypeOK, SameStorage
<1>3. Alone(i) /\ SameLife(i[2])
  BY <1>1, <1>2, AloneFact, LifeFrame, Zenon
<1>4. Have(i)' = Have(i)
  BY <1>2, Zenon DEF Have
<1>5. Life(i)
  BY <1>3, <1>4, Zenon DEF Life
<1>6. Grows(i) /\ Founds(i) /\ CapacityAnswers(i[2])
  BY <1>1, SameGrows, Zenon DEF Founds, CapacityAnswers
<1> QED
  BY <1>3, <1>5, <1>6, GoodFact, Zenon

\* DeleteInstance starts the deletion of a released volume, or there is nothing left.
LEMMA DeleteSendGood ==
  ASSUME CallsInv, CallsInv', NEW h \in Handlers, DeleteSend(h)
  PROVE  GoodStep
<1>1. pc[h] = "dSend" /\ Busy(h)
  BY Zenon DEF DeleteSend, Busy
<1>2. CASE inst[At(h)] = "none" /\ DeleteSucceeds(h)
  BY <1>1, <1>2, DeleteSucceedsGood, Zenon DEF DeletePCs
<1>3. CASE Fails(h)
  BY <1>3, UnchangedIsQuiet, Zenon DEF Fails, GoodStep, kube, cloud
<1>4. CASE /\ inst[At(h)] # "none"
           /\ inst' = [inst EXCEPT ![At(h)] = "DELETING"]
           /\ UNCHANGED <<kube, cap, creates>>
  <2>1. PICK i \in Instances :
           i = At(h) /\ i[2] = vol[h] /\ Led(i) /\ KubeInv(vol[h]) /\ InstanceInv(i) /\ HandlerInv(h)
    BY <1>1, CallFact, Zenon
  <2>2. Used(i) /\ i[2] \notin static
    BY <1>1, <2>1, Zenon DEF HandlerInv, DeletePCs, Used, HadPV, KubeInv
  <2>3. inst[i] # "CREATING"
    BY <2>1, <2>2, Zenon DEF InstanceInv, CreationInv, PhaseInv
  <2> QED
    BY <1>4, <2>1, <2>3, InstanceGood, Zenon DEF kube
<1> QED
  BY <1>2, <1>3, <1>4, Zenon DEF DeleteSend

\* The steps of the calls.
LEMMA StepGood ==
  ASSUME CallsInv, CallsInv', NEW h \in Handlers, Step(h)
  PROVE  GoodStep
<1>1. ReturnOnly(h) \/ Fails(h) \/ CreateFails(h) \/ OperationFailed(h) => Quiet
  BY UnchangedIsQuiet, Zenon DEF ReturnOnly, Fails, CreateFails, OperationFailed, PassOn, Answer,
    kube,
    cloud
<1>2. UNCHANGED <<kube, cloud, faults>> => Quiet
  BY UnchangedIsQuiet, Zenon DEF kube, cloud
<1>3. ASSUME NEW c, NEW x, Answer(h, c, x), UNCHANGED <<cloud, faults>> PROVE Quiet
  BY <1>3, UnchangedIsQuiet, Zenon DEF Answer, cloud
<1>4. CASE CreateGet(h)
  <2>1. CASE inst[At(h)] = "ACTIVE" /\ CompareInstances(h) /\ CreateSucceeds(h)
    BY <1>4, <2>1, CreateSucceedsGood, Zenon DEF CreateGet, CompareInstances, CreatePCs
  <2> QED
    BY <1>1, <1>2, <1>3, <1>4, <2>1, Zenon DEF CreateGet, GoodStep
<1>5. CASE CreateOp(h)
  BY <1>1, <1>2, <1>3, <1>5, Zenon DEF CreateOp, GoodStep
<1>6. CASE CreateList(h)
  BY <1>1, <1>2, <1>6, Zenon DEF CreateList, GoodStep
<1>7. CASE CreateWait(h)
  <2>1. pc[h] = "cWait" /\ Busy(h)
    BY <1>7, Zenon DEF CreateWait, Busy
  <2>2. CASE createOp[At(h)] = "done" /\ CreateSucceeds(h)
    <3>1. inst[At(h)] \in {"ACTIVE", "REPAIRING"} /\ cap[At(h)] = RequestGib(req[h])
      BY <2>1, <2>2, DoneFact, Zenon
    <3>2. pc[h] \in CreatePCs
      BY <2>1, Zenon DEF CreatePCs
    <3> QED
      BY <2>2, <3>1, <3>2, CreateSucceedsGood, Zenon
  <2>3. PassOn(h, "context") /\ UNCHANGED <<cloud, faults>> => Quiet
    BY <1>3, Zenon DEF PassOn
  <2> QED
    BY <1>1, <1>7, <2>2, <2>3, Zenon DEF CreateWait, GoodStep
<1>8. CASE DeleteGet(h) \/ DeleteWait(h)
  <2>1. pc[h] \in DeletePCs
    BY <1>8, Zenon DEF DeleteGet, DeleteWait, DeletePCs
  <2> QED
    BY <1>1, <1>2, <1>8, <2>1, DeleteSucceedsGood, Zenon DEF DeleteGet, DeleteWait, GoodStep
<1>9. CASE ExpandGet(h) \/ ExpandOp(h) \/ ExpandSend(h) \/ ExpandWait(h)
  <2>1. UNCHANGED <<kube, inst, cap, fs, labels, createOp, creates>> => Quiet
    BY UnchangedIsQuiet, Zenon DEF kube
  <2> QED
    BY <1>1, <1>2, <1>9, <2>1, Zenon DEF ExpandGet, ExpandOp, ExpandSend, ExpandWait, GoodStep
<1> QED
  BY <1>4, <1>5, <1>6, <1>7, <1>8, <1>9, CreateSendGood, DeleteSendGood, Zenon DEF Step
=============================================================================
