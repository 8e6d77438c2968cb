------------------------ MODULE NodeServerReferences ------------------------
(***************************************************************************)
(* References, targets and what an unpublish leaves: the theorems that     *)
(* ReferenceInv (in NodeServer) carries, for every value of the constants. *)
(*                                                                         *)
(* ReferenceInv is inductive on top of IInv.  A step of a call is          *)
(* disciplined (OwnStep): it mounts its own target only and touches a key  *)
(* inside the key's critical section only, so it takes nothing from the    *)
(* other calls (OthersCallInv).  Each action is shown to be such a step, to*)
(* keep what its own call relies on, and to leave every key alone or clean *)
(* (CleanStep); OwnStepReference combines the three.                       *)
(*                                                                         *)
(* The last section shows what a step may take from a key (LossStep), and  *)
(* with it that a mounted target keeps its reference and token.            *)
(***************************************************************************)
EXTENDS NodeServerProofs

USE NodeAssumption

\* A publish that undoes its bind mount has seen a failure.
UndoInv == \A h \in Handlers : At(h, "iam_undo") => faults > 0

MountPCs == {"bind", "remount", "iam_bind", "iam_remount"}

Inside(h, k) == call[h].pc \in KeyPCs /\ call[h].key = k

\* A step mounts no target but the one h publishes.
TargetStep(h) ==
  \A t \in Targets : target[t] = "none" /\ target'[t] # "none"
                       => t = Target(h) /\ call[h].pc \in MountPCs

\* A step changes references and token only inside the key's critical section,
\* and adds a reference only in addPodReference.
RefsStep(h) ==
  \A k \in Keys :
    /\ refs'[k] # refs[k] \/ token'[k] # token[k] => Inside(h, k) \/ Inside(h, k)'
    /\ \A d \in refs'[k] : d \notin refs[k] =>
         At(h, "iam_ref") /\ d = call[h].pod /\ k = call[h].key

\* A target is gone only at the end of an unpublish without errors.
GoneStep(h) ==
  \/ gone' = gone
  \/ /\ At(h, "clean") /\ ~call[h].errs /\ call[h].todo = {}
     /\ gone' = gone \cup {Target(h)}

OwnStep(h) ==
  /\ \A g \in Handlers \ {h} : call'[g] = call[g]
  /\ UNCHANGED phase
  /\ TargetStep(h) /\ RefsStep(h) /\ GoneStep(h)

\* The sets of places are ordered by inclusion.
LEMMA PCSets ==
  /\ SectionPCs \subseteq KeyPCs /\ SectionPCs \subseteq IAMPCs /\ IAMPCs \subseteq PublishPCs
  /\ PublishPCs \subseteq TargetPCs /\ CleanPCs \subseteq TargetPCs /\ KeyPCs \subseteq TargetPCs
  /\ MountPCs \subseteq PublishPCs /\ {"iam_bind", "iam_remount"} \subseteq SectionPCs
  /\ "iam_ref" \in SectionPCs /\ "clean" \in CleanPCs
  /\ CleanPCs \cap PublishPCs = {} /\ StagePCs \cap TargetPCs = {} /\ "idle" \notin TargetPCs
BY Zenon DEF SectionPCs, IAMPCs, PublishPCs, TargetPCs, KeyPCs, CleanPCs, UnpublishPCs, MountPCs,
  StagePCs

\* A call for a pod's target has one; two calls never have the same.
LEMMA TargetFact ==
  ASSUME IInv, NEW h \in Handlers, call[h].pc \in TargetPCs
  PROVE  /\ call[h].pod \in Pods /\ call[h].vol \in Volumes
         /\ Target(h) \in Targets /\ KeyOf[Target(h)] \in Keys
         /\ \A g \in Handlers \ {h} : call[g].pc \in TargetPCs => Target(g) # Target(h)
<1>1. call[h].pod \in Pods /\ call[h].vol \in Volumes
  BY Zenon DEF IInv, WellFormed
<1>2. Target(h) \in Targets
  BY <1>1, Zenon DEF Target, Targets
<1>3. \A g \in Handlers \ {h} : call[g].pc \in TargetPCs => Target(g) # Target(h)
  BY Exclusion, Zenon DEF IInv
<1>4. QED
  BY <1>1, <1>2, <1>3, Zenon

\* Two calls are not inside the critical section of one key.
LEMMA InsideFact ==
  ASSUME IInv, NEW g \in Handlers, NEW h \in Handlers, g # h, NEW k, Inside(g, k)
  PROVE  ~Inside(h, k)
BY Exclusion, Zenon DEF IInv, Inside

\* The same after a step.
LEMMA InsideFactNext ==
  ASSUME IInv', NEW g \in Handlers, NEW h \in Handlers, g # h, NEW k, Inside(g, k)'
  PROVE  ~Inside(h, k)'
<1>1. Held(g)' \cap Held(h)' = {}
  BY Zenon DEF IInv, LocksExclusive
<1>2. QED
  BY <1>1, Zenon DEF Held, Inside

\* A pod has one key per IAM volume.
LEMMA KeyFact ==
  ASSUME NEW d \in Pods, NEW v \in IAMVolumes, NEW w \in IAMVolumes,
         KeyOf[<<d, v>>] = KeyOf[<<d, w>>]
  PROVE  v = w
BY KeyAssumption, Zenon

\* A reference that appears is one to the key of the call's own target.
LEMMA AddedFact ==
  ASSUME IInv, ReferenceInv, NEW h \in Handlers, OwnStep(h),
         NEW k \in Keys, NEW d \in refs'[k], d \notin refs[k]
  PROVE  /\ call[h].pc \in PublishPCs /\ call[h].vol \in IAMVolumes
         /\ d = call[h].pod /\ k = KeyOf[Target(h)] /\ Target(h) \in Uses
         /\ Target(h) \notin gone /\ phase[d] # "pending"
<1>1. At(h, "iam_ref") /\ d = call[h].pod /\ k = call[h].key
  BY Zenon DEF OwnStep, RefsStep
<1>2. call[h].pc \in SectionPCs /\ call[h].pc \in IAMPCs /\ call[h].pc \in PublishPCs
      /\ call[h].pc \in TargetPCs
  BY <1>1, PCSets, Zenon DEF At
<1>3. CallInv(h)
  BY Zenon DEF ReferenceInv
<1>4. QED
  BY <1>1, <1>2, <1>3, Zenon DEF CallInv

\* A step of h takes nothing from another publish or unpublish.
LEMMA OthersCallInv ==
  ASSUME IInv, IInv', ReferenceInv, NEW h \in Handlers, OwnStep(h), NEW g \in Handlers \ {h}
  PROVE  CallInv(g)'
<1> DEFINE t == Target(g)
           k == KeyOf[t]
<1>1. call'[g] = call[g] /\ Target(g)' = t /\ UNCHANGED phase
  BY Zenon DEF OwnStep, Target
<1>2. CallInv(g) /\ CallInv(h)
  BY Zenon DEF ReferenceInv
<1>3. call[g].pc \in TargetPCs => t \in Targets /\ k \in Keys /\ call[g].pod \in Pods
  BY TargetFact, Zenon
<1>4. call[g].pc \in TargetPCs /\ call[h].pc \in TargetPCs => t # Target(h)
  BY TargetFact, Zenon
<1>5. call[g].pc \in PublishPCs => t \notin gone'
  <2>1. call[g].pc \in PublishPCs => call[g].pc \in TargetPCs /\ t \notin gone
    BY <1>2, PCSets, Zenon DEF CallInv
  <2>2. At(h, "clean") => call[h].pc \in TargetPCs
    BY PCSets, Zenon DEF At
  <2>3. QED
    BY <1>4, <2>1, <2>2, Zenon DEF OwnStep, GoneStep
<1>6. call[g].pc \in SectionPCs => refs'[k] = refs[k] /\ token'[k] = token[k]
  <2>1. ASSUME call[g].pc \in SectionPCs, NEW j \in Keys, j = k
        PROVE  refs'[j] = refs[j] /\ token'[j] = token[j]
    <3>1. call[g].pc \in KeyPCs /\ call[g].key = j
      BY <1>2, <2>1, PCSets, Zenon DEF CallInv
    <3>2. Inside(g, j) /\ Inside(g, j)'
      BY <1>1, <3>1, Zenon DEF Inside
    <3>3. ~Inside(h, j) /\ ~Inside(h, j)'
      BY <3>2, InsideFact, InsideFactNext, Zenon
    <3>4. QED
      BY <3>3, Zenon DEF OwnStep, RefsStep
  <2>2. call[g].pc \in SectionPCs => k \in Keys
    BY <1>3, PCSets, Zenon
  <2>3. QED
    BY <2>1, <2>2, Zenon
<1>7. ASSUME call[g].pc \in CleanPCs
      PROVE  target'[t] = "none"
  <2>1. call[g].pc \in TargetPCs /\ t \in Targets /\ target[t] = "none"
    BY <1>2, <1>3, <1>7, PCSets, Zenon DEF CallInv
  <2>2. call[h].pc \in MountPCs => t # Target(h)
    BY <1>4, <2>1, PCSets, Zenon
  <2>3. QED
    BY <2>1, <2>2, Zenon DEF OwnStep, TargetStep
<1>8. ASSUME call[g].pc \in CleanPCs, call[g].vol \in IAMVolumes,
             call[g].pod \in refs'[k], call[g].pod \notin refs[k]
      PROVE  FALSE
  <2>1. call[g].pc \in TargetPCs /\ k \in Keys /\ call[g].pod \in Pods
    BY <1>3, <1>8, PCSets, Zenon
  <2>2. /\ call[h].pc \in PublishPCs /\ call[h].vol \in IAMVolumes
        /\ call[g].pod = call[h].pod /\ k = KeyOf[Target(h)]
    BY <1>8, <2>1, AddedFact, Zenon
  <2>3. call[g].vol = call[h].vol
    BY <1>8, <2>1, <2>2, KeyFact, Zenon DEF Target
  <2>4. t = Target(h) /\ call[h].pc \in TargetPCs
    BY <2>2, <2>3, PCSets, Zenon DEF Target
  <2>5. QED
    BY <1>4, <2>1, <2>4, Zenon
<1>9. call[g].pc \in {"iam_bind", "iam_remount"} => call[g].pc \in SectionPCs
  BY PCSets, Zenon
<1> HIDE DEF t, k
<1>10. KeyOf[Target(g)'] = k /\ Target(g) = t /\ KeyOf[Target(g)] = k
  BY <1>1, Zenon DEF t, k
<1>11. QED
  BY <1>1, <1>2, <1>5, <1>6, <1>7, <1>8, <1>9, <1>10, Zenon DEF CallInv

\* A step of h leaves what is gone unpublished, and UnpublishReturn adds only a
\* target that is.
LEMMA UnpublishCompleteStep ==
  ASSUME IInv, ReferenceInv, NEW h \in Handlers, OwnStep(h)
  PROVE  UnpublishComplete'
<1> SUFFICES ASSUME NEW t \in gone'
             PROVE  target'[t] = "none" /\ (t[2] \in IAMVolumes => t[1] \notin refs'[KeyOf[t]])
  BY Zenon DEF UnpublishComplete
<1>1. CallInv(h) /\ UnpublishComplete /\ gone \subseteq Targets
  BY Zenon DEF ReferenceInv, IInv, TypeOK
<1>2. CASE t \in gone
  <2>1. /\ t \in Targets /\ t[1] \in Pods /\ t = <<t[1], t[2]>> /\ KeyOf[t] \in Keys
        /\ target[t] = "none" /\ (t[2] \in IAMVolumes => t[1] \notin refs[KeyOf[t]])
    <3>1. t \in Targets
      BY <1>1, <1>2, Zenon
    <3>2. t[1] \in Pods /\ t = <<t[1], t[2]>> /\ KeyOf[t] \in Keys
      BY <3>1 DEF Targets
    <3>3. QED
      BY <1>1, <1>2, <3>1, <3>2, Zenon DEF UnpublishComplete
  <2>2. call[h].pc \in PublishPCs => t # Target(h)
    BY <1>1, <1>2, Zenon DEF CallInv
  <2>3. target'[t] = "none"
    BY <2>1, <2>2, PCSets, Zenon DEF OwnStep, TargetStep
  <2>4. ASSUME t[2] \in IAMVolumes, t[1] \in refs'[KeyOf[t]]
        PROVE  FALSE
    <3>1. /\ call[h].pc \in PublishPCs /\ call[h].vol \in IAMVolumes
          /\ t[1] = call[h].pod /\ KeyOf[t] = KeyOf[Target(h)]
      BY <2>1, <2>4, AddedFact, Zenon
    <3>2. t[2] = call[h].vol
      BY <2>1, <2>4, <3>1, KeyFact, Zenon DEF Target
    <3>3. QED
      BY <2>1, <2>2, <3>1, <3>2, Zenon DEF Target
  <2>5. QED
    BY <2>3, <2>4, Zenon
<1>3. CASE t \notin gone
  <2>1. At(h, "clean") /\ ~call[h].errs /\ call[h].todo = {} /\ t = Target(h)
    BY <1>3, Zenon DEF OwnStep, GoneStep
  <2>2. call[h].pc \in CleanPCs /\ call[h].pc \in TargetPCs /\ call[h].pc \notin PublishPCs
    BY <2>1, PCSets, Zenon DEF At
  <2>3. t \in Targets /\ KeyOf[t] \in Keys
    BY <2>1, <2>2, TargetFact, Zenon
  <2>4. target[t] = "none" /\ (call[h].vol \in IAMVolumes => call[h].pod \notin refs[KeyOf[t]])
    BY <1>1, <2>1, <2>2, Zenon DEF CallInv
  <2>5. target'[t] = "none"
    BY <2>2, <2>3, <2>4, PCSets, Zenon DEF OwnStep, TargetStep
  <2>6. t[1] = call[h].pod /\ t[2] = call[h].vol
    BY <2>1, Zenon DEF Target
  <2>7. t[2] \in IAMVolumes => t[1] \notin refs'[KeyOf[t]]
    BY <2>2, <2>3, <2>4, <2>6, AddedFact, Zenon
  <2>8. QED
    BY <2>5, <2>7, Zenon
<1>4. QED
  BY <1>2, <1>3, Zenon

\* A step of h adds a reference only for a pod that publishes a volume of the key.
LEMMA HolderStep ==
  ASSUME IInv, ReferenceInv, NEW h \in Handlers, OwnStep(h)
  PROVE  HolderInv'
<1> SUFFICES ASSUME NEW k \in Keys, NEW d \in refs'[k]
             PROVE  /\ phase[d] # "pending"
                    /\ \E v \in IAMVolumes : <<d, v>> \in Uses /\ KeyOf[<<d, v>>] = k
  BY Zenon DEF HolderInv, OwnStep
<1>1. CASE d \in refs[k]
  BY <1>1, Zenon DEF ReferenceInv, HolderInv
<1>2. CASE d \notin refs[k]
  BY <1>2, AddedFact, Zenon DEF Target
<1>3. QED
  BY <1>1, <1>2, Zenon

-----------------------------------------------------------------------------
(* What a step leaves of a key.                                            *)

\* A step of h outside the critical section of k changes nothing of k.
OutsideKey(h, k) ==
  /\ ~Inside(h, k) /\ ~Inside(h, k)'
  /\ refs'[k] = refs[k] /\ global'[k] = global[k] /\ token'[k] = token[k]
  /\ k \in refsDir' <=> k \in refsDir

\* Nothing has failed so far only if nothing had, and each key is left alone or
\* left clean.
CleanStep(h) ==
  faults' = 0 => faults = 0 /\ \A k \in Keys : OutsideKey(h, k) \/ CleanAt(k)'

\* Who is inside a section of k does not change for a step outside it.
LEMMA InSectionFrame ==
  ASSUME NEW h \in Handlers, \A g \in Handlers \ {h} : call'[g] = call[g], NEW k, NEW P,
         ~(call[h].pc \in P /\ call[h].key = k), ~(call'[h].pc \in P /\ call'[h].key = k)
  PROVE  InSection(k, P)' <=> InSection(k, P)
BY Zenon DEF InSection

\* A step of h that leaves each key alone or clean preserves CleanInv.
LEMMA CleanInvStep ==
  ASSUME ReferenceInv, NEW h \in Handlers, OwnStep(h), CleanStep(h)
  PROVE  CleanInv'
<1> SUFFICES ASSUME faults' = 0, NEW k \in Keys PROVE CleanAt(k)'
  BY Zenon DEF CleanInv
<1>1. OutsideKey(h, k) \/ CleanAt(k)'
  BY Zenon DEF CleanStep
<1>2. ASSUME OutsideKey(h, k) PROVE CleanAt(k)'
  <2>1. CleanAt(k)
    BY Zenon DEF ReferenceInv, CleanInv, CleanStep
  <2>2. InSection(k, KeyPCs)' <=> InSection(k, KeyPCs)
    BY <1>2, InSectionFrame, Zenon DEF OwnStep, OutsideKey, Inside
  <2>3. {"unmount_global", "rm_key"} \subseteq KeyPCs
    BY Zenon DEF KeyPCs
  <2>4. InSection(k, {"unmount_global", "rm_key"})' <=> InSection(k, {"unmount_global", "rm_key"})
    BY <1>2, <2>3, InSectionFrame, Zenon DEF OwnStep, OutsideKey, Inside
  <2>5. QED
    BY <1>2, <2>1, <2>2, <2>4, Zenon DEF CleanAt, OutsideKey
<1>3. QED
  BY <1>1, <1>2, Zenon

\* The conditions under which a step of h preserves ReferenceInv.
LEMMA OwnStepReference ==
  ASSUME IInv, IInv', ReferenceInv, NEW h \in Handlers, OwnStep(h), CallInv(h)', CleanStep(h)
  PROVE  ReferenceInv'
<1>1. \A g \in Handlers : CallInv(g)'
  BY OthersCallInv, Zenon
<1>2. UnpublishComplete' /\ HolderInv' /\ CleanInv'
  BY UnpublishCompleteStep, HolderStep, CleanInvStep, Zenon
<1>3. QED
  BY <1>1, <1>2, Zenon DEF ReferenceInv

-----------------------------------------------------------------------------
(* The steps of calls.                                                     *)

\* A call that moves on, with all its fields.
LEMMA BecomeCall ==
  ASSUME IInv, NEW h \in Handlers, NEW l, NEW k, NEW t, NEW e, Become(h, l, k, t, e)
  PROVE  /\ call'[h].pc = l /\ call'[h].pod = call[h].pod /\ call'[h].vol = call[h].vol
         /\ call'[h].key = k /\ call'[h].todo = t /\ call'[h].errs = e
         /\ Target(h)' = Target(h)
         /\ \A g \in Handlers \ {h} : call'[g] = call[g]
BY Zenon DEF IInv, TypeOK, Become, Call, Target

\* A call that moves on and keeps its key and its list.
LEMMA GotoCall ==
  ASSUME IInv, NEW h \in Handlers, NEW l, Goto(h, l)
  PROVE  /\ call'[h].pc = l /\ call'[h].pod = call[h].pod /\ call'[h].vol = call[h].vol
         /\ call'[h].key = call[h].key /\ call'[h].todo = call[h].todo /\ call'[h].errs = call[h].errs
         /\ Target(h)' = Target(h)
         /\ \A g \in Handlers \ {h} : call'[g] = call[g]
BY Zenon DEF IInv, TypeOK, Goto, Become, Call, Target

\* A call that takes another key.
LEMMA EnterCall ==
  ASSUME IInv, NEW h \in Handlers, NEW l, NEW k, Enter(h, l, k)
  PROVE  /\ call'[h].pc = l /\ call'[h].pod = call[h].pod /\ call'[h].vol = call[h].vol
         /\ call'[h].key = k /\ call'[h].todo = call[h].todo /\ call'[h].errs = call[h].errs
         /\ Target(h)' = Target(h)
         /\ \A g \in Handlers \ {h} : call'[g] = call[g]
BY Zenon DEF IInv, TypeOK, Enter, Become, Call, Target

\* A call that starts, with all its fields.
LEMMA StartCall ==
  ASSUME IInv, NEW h \in Handlers, NEW l, NEW d, NEW v, NEW s, Start(h, l, d, v, s)
  PROVE  /\ call'[h].pc = l /\ call'[h].pod = d /\ call'[h].vol = v
         /\ Target(h)' = <<d, v>>
         /\ \A g \in Handlers \ {h} : call'[g] = call[g]
BY Zenon DEF IInv, TypeOK, Start, Call, Target

\* A call that returns.
LEMMA ReturnCall ==
  ASSUME IInv, NEW h \in Handlers, Return(h)
  PROVE  /\ call'[h].pc = "idle" /\ call'[h].pc \notin TargetPCs /\ call'[h].pc \notin KeyPCs
         /\ \A g \in Handlers \ {h} : call'[g] = call[g]
BY ReturnFacts, PCSets, Zenon DEF IInv

\* CallInv says nothing of a call that has no target.
LEMMA NoTargetCallInv ==
  ASSUME NEW h \in Handlers, call'[h].pc \notin TargetPCs
  PROVE  CallInv(h)'
<1>1. call'[h].pc \notin PublishPCs /\ call'[h].pc \notin CleanPCs /\ call'[h].pc \notin IAMPCs
      /\ call'[h].pc \notin SectionPCs
  BY PCSets, Zenon
<1>2. "bind" \in PublishPCs /\ "remount" \in PublishPCs
      /\ "iam_bind" \in PublishPCs /\ "iam_remount" \in PublishPCs
  BY Zenon DEF PublishPCs, IAMPCs, SectionPCs
<1>3. QED
  BY <1>1, <1>2, Zenon DEF CallInv

\* A step with a failure leaves the failure budget touched.
LEMMA FaultCounts ==
  ASSUME IInv, \/ NoFault \/ Fault \/ Faults(1) \/ Faults(2) \/ Faults(3)
  PROVE  faults' = 0 => faults = 0 /\ ~Fault /\ ~Faults(1) /\ ~Faults(2) /\ ~Faults(3)
BY DEF IInv, TypeOK, NoFault, Fault, Faults

\* A step that changes no target and no reference.
LEMMA QuietOwnStep ==
  ASSUME NEW h \in Handlers, UNCHANGED <<target, refs, token, gone, phase>>,
         \A g \in Handlers \ {h} : call'[g] = call[g]
  PROVE  OwnStep(h)
BY Zenon DEF OwnStep, TargetStep, RefsStep, GoneStep

\* A step outside every critical section leaves all keys alone.
LEMMA FarCleanStep ==
  ASSUME NEW h \in Handlers, UNCHANGED <<refs, global, token, refsDir>>,
         call[h].pc \notin KeyPCs, call'[h].pc \notin KeyPCs, faults' = 0 => faults = 0
  PROVE  CleanStep(h)
BY Zenon DEF CleanStep, OutsideKey, Inside

\* A step that h takes at key k leaves the other keys alone.
LEMMA OneKeyCleanStep ==
  ASSUME NEW h \in Handlers, NEW k \in Keys,
         call[h].pc \in KeyPCs => call[h].key = k,
         call'[h].pc \in KeyPCs => call'[h].key = k,
         \A j \in Keys \ {k} :
           /\ refs'[j] = refs[j] /\ global'[j] = global[j] /\ token'[j] = token[j]
           /\ j \in refsDir' <=> j \in refsDir,
         faults' = 0 => faults = 0 /\ CleanAt(k)'
  PROVE  CleanStep(h)
<1>1. \A j \in Keys \ {k} : ~Inside(h, j) /\ ~Inside(h, j)'
  BY Zenon DEF Inside
<1>2. \A j \in Keys \ {k} : OutsideKey(h, j)
  BY <1>1, Zenon DEF OutsideKey
<1>3. QED
  BY <1>2, Zenon DEF CleanStep

\* A step at key k, not part of the teardown, that leaves mount, token and
\* directory alone.
LEMMA SameCleanAt ==
  ASSUME ReferenceInv, NEW h \in Handlers, NEW k \in Keys, faults = 0,
         \A g \in Handlers \ {h} : call'[g] = call[g],
         global'[k] = global[k], token'[k] = token[k], k \in refsDir' <=> k \in refsDir,
         call[h].pc \notin {"unmount_global", "rm_key"},
         call'[h].pc \notin {"unmount_global", "rm_key"},
         InSection(k, KeyPCs)' \/ refs'[k] # {} \/ k \notin refsDir'
  PROVE  CleanAt(k)'
<1>1. CleanAt(k)
  BY Zenon DEF ReferenceInv, CleanInv
<1>2. InSection(k, {"unmount_global", "rm_key"})' <=> InSection(k, {"unmount_global", "rm_key"})
  BY InSectionFrame, Zenon
<1>3. QED
  BY <1>1, <1>2, Zenon DEF CleanAt

\* A step that changes nothing the invariant speaks of.
LEMMA UnchangedReference ==
  ASSUME ReferenceInv,
         UNCHANGED <<target, global, refsDir, refs, token, call, phase, gone, faults>>
  PROVE  ReferenceInv'
<1>1. ASSUME NEW h \in Handlers PROVE CallInv(h)'
  <2>1. CallInv(h) /\ Target(h)' = Target(h)
    BY Zenon DEF ReferenceInv, Target
  <2>2. QED
    BY <2>1, Zenon DEF CallInv
<1>2. UnpublishComplete' /\ HolderInv'
  BY Zenon DEF ReferenceInv, UnpublishComplete, HolderInv
<1>3. CleanInv'
  BY Zenon DEF ReferenceInv, CleanInv, CleanAt, InSection
<1>4. QED
  BY <1>1, <1>2, <1>3, Zenon DEF ReferenceInv

\* Staging and unstaging touch no target and no reference.
LEMMA StageReference ==
  ASSUME IInv, IInv', ReferenceInv, NEW h \in Handlers, NEW v,
         \/ NodeStageVolume(h, v) \/ NodeUnstageVolume(h, v)
         \/ StageCheck(h) \/ StageMount(h) \/ UnstageUnmount(h)
  PROVE  ReferenceInv' /\ OwnStep(h)
<1>1. UNCHANGED <<target, global, refsDir, refs, token, phase, gone>>
  BY Zenon DEF NodeStageVolume, NodeUnstageVolume, StageCheck, StageMount, UnstageUnmount, mounts,
    iamDirs, kubelet
<1>2. faults' = 0 => faults = 0
  <2>1. NoFault \/ Fault
    BY Zenon DEF NodeStageVolume, NodeUnstageVolume, StageCheck, StageMount, UnstageUnmount, NoFault
  <2>2. QED
    BY <2>1, FaultCounts, Zenon
<1>3. call[h].pc \notin KeyPCs
  BY Zenon DEF NodeStageVolume, NodeUnstageVolume, StageCheck, StageMount, UnstageUnmount, At, KeyPCs
<1>4. CASE UNCHANGED <<call, faults>>
  BY <1>1, <1>4, UnchangedReference, QuietOwnStep, Zenon
<1>5. ASSUME ~UNCHANGED <<call, faults>>
      PROVE  /\ call'[h].pc \in StagePCs \cup {"idle"}
             /\ \A g \in Handlers \ {h} : call'[g] = call[g]
  <2>1. CASE NodeStageVolume(h, v)
    <3>1. Start(h, "stage_check", Nil, v, FALSE)
      BY <1>5, <2>1, Zenon DEF NodeStageVolume
    <3>2. QED
      BY <3>1, StartCall, Zenon DEF StagePCs
  <2>2. CASE NodeUnstageVolume(h, v)
    <3>1. Start(h, "unstage", Nil, v, FALSE)
      BY <2>2, Zenon DEF NodeUnstageVolume
    <3>2. QED
      BY <3>1, StartCall, Zenon DEF StagePCs
  <2>3. CASE Return(h)
    BY <2>3, ReturnCall, Zenon
  <2>4. CASE Goto(h, "stage_mount")
    BY <2>4, GotoCall, Zenon DEF StagePCs
  <2>5. \/ NodeStageVolume(h, v) \/ NodeUnstageVolume(h, v)
        \/ Return(h) \/ Goto(h, "stage_mount")
    BY Zenon DEF StageCheck, StageMount, UnstageUnmount
  <2>6. QED
    BY <2>1, <2>2, <2>3, <2>4, <2>5, Zenon
<1>6. CASE ~UNCHANGED <<call, faults>>
  <2>1. call'[h].pc \notin TargetPCs /\ call'[h].pc \notin KeyPCs
    BY <1>5, <1>6, PCSets, Zenon
  <2>2. OwnStep(h)
    BY <1>1, <1>5, <1>6, QuietOwnStep, Zenon
  <2>3. CallInv(h)' /\ CleanStep(h)
    BY <1>1, <1>2, <1>3, <2>1, NoTargetCallInv, FarCleanStep, Zenon
  <2>4. QED
    BY <2>2, <2>3, OwnStepReference, Zenon
<1>7. QED
  BY <1>4, <1>6, Zenon

\* A target that is set is that of the call.
LEMMA SetTargetFact ==
  ASSUME IInv, NEW h \in Handlers, call[h].pc \in TargetPCs, NEW m, SetTarget(h, m)
  PROVE  /\ target'[Target(h)] = m
         /\ \A t \in Targets \ {Target(h)} : target'[t] = target[t]
<1>1. Target(h) \in Targets
  BY TargetFact, Zenon
<1>2. QED
  BY <1>1, Zenon DEF IInv, TypeOK, SetTarget

\* Setting the call's target mounts it only where MountPCs says so.
LEMMA SetTargetStep ==
  ASSUME IInv, NEW h \in Handlers, call[h].pc \in TargetPCs, NEW m, SetTarget(h, m),
         m = "none" \/ m = target[Target(h)] \/ call[h].pc \in MountPCs
  PROVE  TargetStep(h)
BY SetTargetFact, Zenon DEF TargetStep

\* The entry of NodePublishVolume mounts nothing.
LEMMA NodePublishVolumeReference ==
  ASSUME IInv, IInv', ReferenceInv, NEW h \in Handlers, NEW d \in Pods, NEW v \in Volumes,
         NodePublishVolume(h, d, v)
  PROVE  ReferenceInv' /\ OwnStep(h)
<1>1. PICK l, s : Start(h, l, d, v, s) /\ l = IF v \in IAMVolumes THEN "iam_lock" ELSE "bind"
  BY Zenon DEF NodePublishVolume
<1>2. /\ call'[h].pc = l /\ call'[h].pod = d /\ call'[h].vol = v /\ Target(h)' = <<d, v>>
      /\ \A g \in Handlers \ {h} : call'[g] = call[g]
  BY <1>1, StartCall, Zenon
<1>3. /\ UNCHANGED <<global, refsDir, refs, token, phase, gone, faults>> /\ call[h].pc = "idle"
      /\ target' = [target EXCEPT ![<<d, v>>] = Examined(target[<<d, v>>])]
      /\ <<d, v>> \in Uses /\ phase[d] = "running"
  BY Zenon DEF NodePublishVolume, iamDirs, kubelet, At, Wanted
<1>4. <<d, v>> \notin gone
  <2>1. \A t \in gone : phase[t[1]] = "deleted"
    BY Zenon DEF IInv, StageInv
  <2>2. QED
    BY <1>3, <2>1, Zenon
<1>5. OwnStep(h)
  <2>1. \A t \in Targets : target[t] = "none" => target'[t] = "none"
    BY <1>3, Zenon DEF IInv, TypeOK, Examined
  <2>2. QED
    BY <1>2, <1>3, <2>1, Zenon DEF OwnStep, TargetStep, RefsStep, GoneStep
<1>6. CallInv(h)'
  <2>1. l \in PublishPCs /\ l \notin CleanPCs /\ l \notin SectionPCs
        /\ l \notin {"iam_bind", "iam_remount"} /\ (l \in IAMPCs => v \in IAMVolumes)
        /\ (l \in {"bind", "remount"} => v \notin IAMVolumes)
    BY <1>1, Zenon DEF PublishPCs, IAMPCs, SectionPCs, CleanPCs, UnpublishPCs
  <2>2. QED
    BY <1>2, <1>3, <1>4, <2>1, Zenon DEF CallInv
<1>7. CleanStep(h)
  <2>1. call[h].pc \notin KeyPCs /\ call'[h].pc \notin KeyPCs
    BY <1>1, <1>2, <1>3, Zenon DEF KeyPCs
  <2>2. QED
    BY <1>3, <2>1, FarCleanStep, Zenon
<1>8. QED
  BY <1>5, <1>6, <1>7, OwnStepReference, Zenon

\* Publishing a volume without IAM, and the change of ownership, touch only the
\* call's own target.
LEMMA PlainPublishReference ==
  ASSUME IInv, IInv', ReferenceInv, NEW h \in Handlers,
         PublishBind(h) \/ PublishRemount(h) \/ PublishOwnership(h)
  PROVE  ReferenceInv' /\ OwnStep(h)
<1>1. /\ call[h].pc \in {"bind", "remount", "chown"}
      /\ UNCHANGED <<global, refsDir, refs, token, phase, gone>>
  BY Zenon DEF PublishBind, PublishRemount, PublishOwnership, At, iamDirs, kubelet
<1>2. call[h].pc \in PublishPCs /\ call[h].pc \in TargetPCs /\ call[h].pc \notin KeyPCs
  BY <1>1, PCSets, Zenon DEF PublishPCs, KeyPCs
<1>3. faults' = 0 => faults = 0
  BY FaultCounts, Zenon DEF PublishBind, PublishRemount, PublishOwnership
<1>4. TargetStep(h)
  <2>1. UNCHANGED target => TargetStep(h)
    BY Zenon DEF TargetStep
  <2>2. CASE PublishBind(h) \/ PublishRemount(h)
    <3>1. call[h].pc \in MountPCs
      BY <2>2, Zenon DEF PublishBind, PublishRemount, At, MountPCs
    <3>2. QED
      BY <1>2, <2>1, <2>2, <3>1, SetTargetStep, Zenon DEF PublishBind, PublishRemount
  <2>3. CASE PublishOwnership(h)
    BY <1>2, <2>1, <2>3, SetTargetStep, Zenon DEF PublishOwnership
  <2>4. QED
    BY <2>2, <2>3, Zenon
<1>5. \/ Return(h)
      \/ Goto(h, "chown") /\ call[h].pc # "chown"
      \/ Goto(h, "remount") /\ call[h].pc = "bind"
  BY Zenon DEF PublishBind, PublishRemount, PublishOwnership, At
<1>6. CASE Return(h)
  <2>1. CallInv(h)' /\ CleanStep(h)
    BY <1>1, <1>2, <1>3, <1>6, ReturnCall, NoTargetCallInv, FarCleanStep, Zenon
  <2>2. OwnStep(h)
    BY <1>1, <1>4, <1>6, ReturnCall, Zenon DEF OwnStep, RefsStep, GoneStep
  <2>3. QED
    BY <2>1, <2>2, OwnStepReference, Zenon
<1>7. ASSUME NEW l \in {"chown", "remount"}, Goto(h, l), l = "remount" => call[h].pc = "bind"
      PROVE  ReferenceInv' /\ OwnStep(h)
  <2>1. /\ call'[h].pc = l /\ call'[h].pod = call[h].pod /\ call'[h].vol = call[h].vol
        /\ Target(h)' = Target(h) /\ \A g \in Handlers \ {h} : call'[g] = call[g]
    BY <1>7, GotoCall, Zenon
  <2>2. l \in PublishPCs /\ l \notin CleanPCs /\ l \notin IAMPCs /\ l \notin SectionPCs
        /\ l \notin {"iam_bind", "iam_remount"} /\ l \notin KeyPCs /\ l # "bind"
    BY Zenon DEF PublishPCs, IAMPCs, SectionPCs, CleanPCs, UnpublishPCs, KeyPCs
  <2>3. CallInv(h)
    BY Zenon DEF ReferenceInv
  <2>4. CallInv(h)'
    BY <1>1, <1>2, <1>7, <2>1, <2>2, <2>3, Zenon DEF CallInv
  <2>5. OwnStep(h) /\ CleanStep(h)
    BY <1>1, <1>2, <1>3, <1>4, <2>1, <2>2, FarCleanStep, Zenon DEF OwnStep, RefsStep, GoneStep
  <2>6. QED
    BY <2>4, <2>5, OwnStepReference, Zenon
<1>8. QED
  BY <1>5, <1>6, <1>7, Zenon

\* IAMLock enters the section of the target's key and writes the pod's token.
LEMMA IAMLockReference ==
  ASSUME IInv, IInv', ReferenceInv, NEW h \in Handlers, IAMLock(h)
  PROVE  ReferenceInv' /\ OwnStep(h)
<1> DEFINE c == KeyOf[Target(h)]
<1>1. /\ call[h].pc = "iam_lock" /\ UNCHANGED <<target, global, refs, phase, gone>>
      /\ call[h].pc \notin KeyPCs /\ call[h].pc \in IAMPCs /\ call[h].pc \in PublishPCs
      /\ call[h].pc \in TargetPCs
  BY PCSets, Zenon DEF IAMLock, At, mounts, kubelet, IAMPCs, KeyPCs
<1>2. PICK k \in Keys : k = c
  BY <1>1, TargetFact, Zenon
<1>3. call[h].pod \in Pods /\ call[h].pod # Nil
  BY <1>1, TargetFact, Zenon
<1>4. CallInv(h)
  BY Zenon DEF ReferenceInv
<1>5. \/ /\ Enter(h, "iam_mount", k) /\ NoFault /\ refsDir' = refsDir \cup {k}
         /\ token' = [token EXCEPT ![k] = call[h].pod]
      \/ Return(h) /\ NoFault /\ UNCHANGED <<refsDir, token>>
      \/ Return(h) /\ Fault /\ UNCHANGED token
  BY <1>2, Zenon DEF IAMLock
<1>6. faults' = 0 => faults = 0
  BY <1>5, FaultCounts, Zenon
<1>7. CASE Return(h) /\ UNCHANGED token
  <2>1. OwnStep(h) /\ CallInv(h)'
    BY <1>1, <1>7, ReturnCall, QuietOwnStep, NoTargetCallInv, Zenon
  <2>2. CleanStep(h)
    <3>1. CASE UNCHANGED refsDir
      BY <1>1, <1>6, <1>7, <3>1, ReturnCall, FarCleanStep, Zenon
    <3>2. CASE Fault
      BY <3>2, FaultCounts, Zenon DEF CleanStep
    <3>3. CASE Enter(h, "iam_mount", k)
      <4>1. call'[h].pc = "iam_mount"
        BY <3>3, EnterCall, ZenonT(30)
      <4>2. QED
        BY <1>7, <4>1, ReturnCall, Zenon
    <3>4. QED
      BY <1>5, <3>1, <3>2, <3>3, Zenon
  <2>3. QED
    BY <2>1, <2>2, OwnStepReference, Zenon
<1>8. CASE /\ Enter(h, "iam_mount", k) /\ NoFault /\ refsDir' = refsDir \cup {k}
           /\ token' = [token EXCEPT ![k] = call[h].pod]
  <2>1. /\ call'[h].pc = "iam_mount" /\ call'[h].pod = call[h].pod /\ call'[h].vol = call[h].vol
        /\ call'[h].key = k /\ Target(h)' = Target(h)
        /\ \A g \in Handlers \ {h} : call'[g] = call[g]
    <3>1. Enter(h, "iam_mount", k)
      BY <1>8, Zenon
    <3>2. QED
      BY <3>1, EnterCall, SMTT(30)
  <2>2. token'[k] = call[h].pod /\ \A j \in Keys \ {k} : token'[j] = token[j]
    BY <1>8, Zenon DEF IInv, TypeOK
  <2>3. "iam_mount" \in KeyPCs /\ "iam_mount" \in PublishPCs /\ "iam_mount" \notin CleanPCs
    BY Zenon DEF PublishPCs, IAMPCs, SectionPCs, CleanPCs, UnpublishPCs, KeyPCs
  <2>4. Inside(h, k)'
    BY <2>1, <2>3, Zenon DEF Inside
  <2>5. OwnStep(h)
    BY <1>1, <2>1, <2>2, <2>4, Zenon DEF OwnStep, TargetStep, RefsStep, GoneStep
  <2>6. CallInv(h)'
    BY <1>1, <1>2, <1>3, <1>4, <2>1, <2>2, <2>3, ZenonT(60) DEF CallInv
  <2>7. CleanStep(h)
    <3>1. InSection(k, KeyPCs)' /\ k \in refsDir'
      BY <1>8, <2>1, <2>3, Zenon DEF InSection
    <3>2. CleanAt(k)'
      BY <3>1, Zenon DEF CleanAt
    <3>3. QED
      BY <1>1, <1>6, <1>8, <2>1, <2>2, <3>2, OneKeyCleanStep, Zenon
  <2>8. QED
    BY <2>5, <2>6, <2>7, OwnStepReference, Zenon
<1>9. QED
  BY <1>5, <1>7, <1>8, Zenon

\* What holds of a publish inside the critical section of its key.
LEMMA SectionFact ==
  ASSUME IInv, ReferenceInv, NEW h \in Handlers, call[h].pc \in SectionPCs
  PROVE  /\ call[h].key \in Keys /\ call[h].key = KeyOf[Target(h)] /\ token[call[h].key] # Nil
         /\ call[h].pod \in Pods /\ call[h].vol \in IAMVolumes /\ Target(h) \in Uses
         /\ Target(h) \notin gone /\ phase[call[h].pod] # "pending"
         /\ call[h].pc \in TargetPCs /\ call[h].pc \in KeyPCs
         /\ (call[h].pc \in {"iam_bind", "iam_remount"} => call[h].pod \in refs[call[h].key])
<1>1. call[h].pc \in IAMPCs /\ call[h].pc \in PublishPCs /\ call[h].pc \in TargetPCs
      /\ call[h].pc \in KeyPCs
  BY PCSets, Zenon
<1>2. CallInv(h) /\ KeyOf[Target(h)] \in Keys /\ call[h].pod \in Pods
  BY <1>1, TargetFact, Zenon DEF ReferenceInv
<1>3. QED
  BY <1>1, <1>2, Zenon DEF CallInv

\* A publish that moves on inside its section.
LEMMA SectionMoves ==
  ASSUME IInv, ReferenceInv, NEW h \in Handlers, call[h].pc \in SectionPCs,
         UNCHANGED <<token, phase, gone>>, NEW l \in SectionPCs, Goto(h, l),
         l \in {"iam_bind", "iam_remount"} => call[h].pod \in refs'[call[h].key]
  PROVE  CallInv(h)'
<1>1. /\ call'[h].pc = l /\ call'[h].pod = call[h].pod /\ call'[h].vol = call[h].vol
      /\ call'[h].key = call[h].key /\ Target(h)' = Target(h)
  BY GotoCall, Zenon
<1>2. l \notin CleanPCs /\ l \notin {"bind", "remount"}
  BY Zenon DEF SectionPCs, CleanPCs, UnpublishPCs
<1>3. QED
  BY <1>1, <1>2, SectionFact, Zenon DEF CallInv

\* A publish that leaves its section for the change of ownership.
LEMMA SectionDone ==
  ASSUME IInv, ReferenceInv, NEW h \in Handlers, call[h].pc \in SectionPCs,
         UNCHANGED <<phase, gone>>, PublishDone(h)
  PROVE  CallInv(h)' /\ call'[h].pc \notin KeyPCs
<1>1. /\ call'[h].pc = "chown" /\ call'[h].pod = call[h].pod /\ call'[h].vol = call[h].vol
      /\ Target(h)' = Target(h)
  BY EnterCall, Zenon DEF PublishDone
<1>2. /\ "chown" \notin CleanPCs /\ "chown" \notin {"bind", "remount"} /\ "chown" \notin IAMPCs
      /\ "chown" \notin SectionPCs /\ "chown" \notin {"iam_bind", "iam_remount"}
      /\ "chown" \notin KeyPCs
  BY Zenon DEF SectionPCs, CleanPCs, UnpublishPCs, IAMPCs, KeyPCs
<1>3. QED
  BY <1>1, <1>2, SectionFact, Zenon DEF CallInv

\* A failure excuses what is left of a key.
LEMMA FaultCleanStep ==
  ASSUME IInv, NEW h \in Handlers, Fault \/ Faults(1) \/ Faults(2) \/ Faults(3)
  PROVE  CleanStep(h)
BY FaultCounts, Zenon DEF CleanStep

\* A step inside the critical section of a key changes that key's references.
LEMMA KeyRefsStep ==
  ASSUME NEW h \in Handlers, NEW k \in Keys, Inside(h, k) \/ Inside(h, k)',
         \A j \in Keys \ {k} : refs'[j] = refs[j] /\ token'[j] = token[j],
         \A d \in refs'[k] : d \in refs[k] \/ (At(h, "iam_ref") /\ d = call[h].pod /\ k = call[h].key)
  PROVE  RefsStep(h)
BY Zenon DEF RefsStep

\* mountGlobalIAM changes the mount of the call's key.
LEMMA IAMMountReference ==
  ASSUME IInv, IInv', ReferenceInv, NEW h \in Handlers, IAMMount(h)
  PROVE  ReferenceInv' /\ OwnStep(h)
<1>1. /\ call[h].pc = "iam_mount" /\ call[h].pc \in SectionPCs
      /\ UNCHANGED <<target, refsDir, refs, token, phase, gone>>
  BY Zenon DEF IAMMount, At, iamDirs, kubelet, SectionPCs
<1>2. PICK k \in Keys : k = call[h].key
  BY <1>1, SectionFact, Zenon
<1>3. CASE NoFault /\ SetGlobal(h, "ok") /\ Goto(h, "iam_ref")
  <2>1. /\ call'[h].pc = "iam_ref" /\ call'[h].key = k
        /\ \A g \in Handlers \ {h} : call'[g] = call[g]
    BY <1>2, <1>3, GotoCall, Zenon
  <2>2. CallInv(h)'
    BY <1>1, <1>3, SectionMoves, Zenon DEF SectionPCs
  <2>3. InSection(k, KeyPCs)' /\ k \in refsDir'
    BY <1>1, <1>2, <2>1, ZenonT(30) DEF InSection, KeyPCs, IInv, KeyInv, At
  <2>4. \A j \in Keys \ {k} : global'[j] = global[j]
    BY <1>2, <1>3, Zenon DEF SetGlobal, IInv, TypeOK
  <2>5. CleanStep(h)
    BY <1>1, <1>2, <1>3, <2>1, <2>3, <2>4, OneKeyCleanStep, ZenonT(30) DEF CleanAt, NoFault
  <2>6. OwnStep(h)
    BY <1>1, <2>1, QuietOwnStep, Zenon
  <2>7. QED
    BY <2>2, <2>5, <2>6, OwnStepReference, Zenon
<1>4. CASE Fault /\ Return(h)
  <2>1. OwnStep(h) /\ CallInv(h)'
    BY <1>1, <1>4, ReturnCall, QuietOwnStep, NoTargetCallInv, Zenon
  <2>2. QED
    BY <1>4, <2>1, FaultCleanStep, OwnStepReference, Zenon
<1>5. QED
  BY <1>3, <1>4, Zenon DEF IAMMount

\* addPodReference adds the pod to the references of the call's key.
LEMMA IAMAddReferenceReference ==
  ASSUME IInv, IInv', ReferenceInv, NEW h \in Handlers, IAMAddReference(h)
  PROVE  ReferenceInv' /\ OwnStep(h)
<1>1. /\ call[h].pc = "iam_ref" /\ call[h].pc \in SectionPCs
      /\ UNCHANGED <<target, global, refsDir, token, phase, gone>>
  BY Zenon DEF IAMAddReference, At, mounts, kubelet, SectionPCs
<1>2. PICK k \in Keys : k = call[h].key
  BY <1>1, SectionFact, Zenon
<1>3. CASE /\ NoFault /\ Goto(h, "iam_bind")
           /\ refs' = [refs EXCEPT ![k] = @ \cup {call[h].pod}]
  <2>1. /\ call'[h].pc = "iam_bind" /\ call'[h].key = k
        /\ \A g \in Handlers \ {h} : call'[g] = call[g]
    BY <1>2, <1>3, GotoCall, Zenon
  <2>2. refs'[k] = refs[k] \cup {call[h].pod} /\ \A j \in Keys \ {k} : refs'[j] = refs[j]
    BY <1>3, Zenon DEF IInv, TypeOK
  <2>3. CallInv(h)'
    BY <1>1, <1>2, <1>3, <2>2, SectionMoves, Zenon DEF SectionPCs
  <2>4. InSection(k, KeyPCs)' /\ k \in refsDir'
    BY <1>1, <1>2, <2>1, ZenonT(30) DEF InSection, KeyPCs, IInv, KeyInv, At
  <2>5. CleanStep(h)
    BY <1>1, <1>2, <1>3, <2>1, <2>2, <2>4, OneKeyCleanStep, ZenonT(30) DEF CleanAt, NoFault
  <2>6. RefsStep(h)
    BY <1>1, <1>2, <2>1, <2>2, KeyRefsStep, Zenon DEF Inside, KeyPCs, At
  <2>7. OwnStep(h)
    BY <1>1, <2>1, <2>6, Zenon DEF OwnStep, TargetStep, GoneStep
  <2>8. QED
    BY <2>3, <2>5, <2>7, OwnStepReference, Zenon
<1>4. CASE Fault /\ Return(h) /\ UNCHANGED refs
  <2>1. OwnStep(h) /\ CallInv(h)'
    BY <1>1, <1>4, ReturnCall, QuietOwnStep, NoTargetCallInv, Zenon
  <2>2. QED
    BY <1>4, <2>1, FaultCleanStep, OwnStepReference, Zenon
<1>5. QED
  BY <1>2, <1>3, <1>4, Zenon DEF IAMAddReference

\* A failed bind mount gives the reference back and mounts nothing.
LEMMA BindFailsReference ==
  ASSUME IInv, IInv', ReferenceInv, NEW h \in Handlers,
         call[h].pc \in {"iam_bind", "iam_remount"}, IAMBindFails(h),
         UNCHANGED <<global, refsDir, token, phase, gone>>
  PROVE  ReferenceInv' /\ OwnStep(h)
<1>1. call[h].pc \in SectionPCs /\ call[h].pc \in TargetPCs /\ call[h].pc \in KeyPCs
  BY PCSets, Zenon
<1>2. PICK k \in Keys : k = call[h].key
  BY <1>1, SectionFact, Zenon
<1>3. Goto(h, "iam_undo") /\ UNCHANGED target /\ CleanStep(h)
  BY FaultCleanStep, Zenon DEF IAMBindFails
<1>4. CallInv(h)'
  BY <1>1, <1>3, SectionMoves, Zenon DEF SectionPCs
<1>5. refs' = [refs EXCEPT ![k] = refs[k] \ {call[h].pod}] \/ UNCHANGED refs
  BY <1>2, Zenon DEF IAMBindFails
<1>6. refs'[k] \subseteq refs[k] /\ \A j \in Keys \ {k} : refs'[j] = refs[j]
  <2>1. refs \in [Keys -> SUBSET Pods]
    BY Zenon DEF IInv, TypeOK
  <2>2. QED
    BY <1>5, <2>1, ZenonT(30)
<1>7. RefsStep(h)
  BY <1>1, <1>2, <1>6, KeyRefsStep, Zenon DEF Inside
<1>8. OwnStep(h)
  BY <1>3, <1>7, GotoCall, Zenon DEF OwnStep, TargetStep, GoneStep
<1>9. QED
  BY <1>3, <1>4, <1>8, OwnStepReference, Zenon

\* The unmount that follows it mounts nothing; what failed excuses the rest.
LEMMA IAMUndoReference ==
  ASSUME IInv, IInv', ReferenceInv, UndoInv, NEW h \in Handlers, IAMUndo(h)
  PROVE  ReferenceInv' /\ OwnStep(h)
<1>1. /\ At(h, "iam_undo") /\ Return(h) /\ call[h].pc \in TargetPCs
      /\ UNCHANGED <<global, refsDir, refs, token, phase, gone>>
  BY Zenon DEF IAMUndo, At, iamDirs, kubelet, TargetPCs, KeyPCs
<1>2. TargetStep(h)
  BY <1>1, SetTargetStep, Zenon DEF IAMUndo, UnmountErrors
<1>3. OwnStep(h) /\ CallInv(h)'
  BY <1>1, <1>2, ReturnCall, NoTargetCallInv, Zenon DEF OwnStep, RefsStep, GoneStep
<1>4. CleanStep(h)
  <2>1. faults # 0
    BY <1>1 DEF UndoInv
  <2>2. faults' = 0 => faults = 0
    BY FaultCounts, Zenon DEF IAMUndo
  <2>3. QED
    BY <2>1, <2>2, Zenon DEF CleanStep
<1>5. QED
  BY <1>3, <1>4, OwnStepReference, Zenon

\* The two halves of the bind mount: the pod's reference is there when the call
\* leaves the section with a mount.
LEMMA IAMBindReference ==
  ASSUME IInv, IInv', ReferenceInv, NEW h \in Handlers, IAMBind(h) \/ IAMRemount(h)
  PROVE  ReferenceInv' /\ OwnStep(h)
<1>1. /\ call[h].pc \in {"iam_bind", "iam_remount"}
      /\ UNCHANGED <<global, refsDir, token, phase, gone>>
  BY Zenon DEF IAMBind, IAMRemount, At, kubelet
<1>2. /\ call[h].pc \in SectionPCs /\ call[h].pc \in TargetPCs /\ call[h].pc \in KeyPCs
      /\ call[h].pc \in MountPCs /\ call[h].pc \notin {"unmount_global", "rm_key"}
  BY <1>1, PCSets, Zenon DEF MountPCs
<1>3. PICK k \in Keys : k = call[h].key /\ call[h].pod \in refs[k]
  BY <1>1, <1>2, SectionFact, Zenon
<1>4. CASE IAMBindFails(h)
  BY <1>1, <1>4, BindFailsReference, Zenon
<1>5. ASSUME NoFault, UNCHANGED refs, PublishDone(h) \/ Goto(h, "iam_remount"),
             UNCHANGED target \/ SetTarget(h, "bind") \/ SetTarget(h, "ok")
      PROVE  ReferenceInv' /\ OwnStep(h)
  <2>1. /\ call'[h].pc \in {"chown", "iam_remount"}
        /\ (call'[h].pc = "iam_remount" => call'[h].key = k)
        /\ \A g \in Handlers \ {h} : call'[g] = call[g]
    <3>1. CASE Goto(h, "iam_remount")
      BY <1>3, <3>1, GotoCall, Zenon
    <3>2. CASE Enter(h, "chown", Nil)
      BY <3>2, EnterCall, SMTT(30)
    <3>3. QED
      BY <1>5, <3>1, <3>2, Zenon DEF PublishDone
  <2>2. CallInv(h)'
    <3>1. CASE PublishDone(h)
      BY <1>1, <1>2, <3>1, SectionDone, Zenon
    <3>2. CASE Goto(h, "iam_remount")
      BY <1>1, <1>2, <1>3, <1>5, <3>2, SectionMoves, Zenon DEF SectionPCs
    <3>3. QED
      BY <1>5, <3>1, <3>2, Zenon
  <2>3. TargetStep(h)
    BY <1>2, <1>5, SetTargetStep, Zenon DEF TargetStep
  <2>4. OwnStep(h)
    BY <1>1, <1>5, <2>1, <2>3, Zenon DEF OwnStep, RefsStep, GoneStep
  <2>5. faults = 0 => CleanAt(k)'
    <3>1. refs'[k] # {} /\ call'[h].pc \notin {"unmount_global", "rm_key"}
      BY <1>3, <1>5, <2>1, Zenon
    <3>2. QED
      BY <1>1, <1>2, <2>1, <3>1, SameCleanAt, Zenon
  <2>6. CleanStep(h)
    <3>1. "chown" \notin KeyPCs
      BY Zenon DEF KeyPCs
    <3>2. QED
      BY <1>1, <1>3, <1>5, <2>1, <2>5, <3>1, OneKeyCleanStep, Zenon DEF NoFault
  <2>7. QED
    BY <2>2, <2>4, <2>6, OwnStepReference, Zenon
<1>6. QED
  BY <1>4, <1>5, Zenon DEF IAMBind, IAMRemount

-----------------------------------------------------------------------------
(* NodeUnpublishVolume.                                                    *)

\* An unpublish that works on: what it drops from its list is no longer
\* referenced, or counted as an error.
LEMMA CleanMoves ==
  ASSUME IInv, ReferenceInv, NEW h \in Handlers, call[h].pc \in CleanPCs,
         UNCHANGED <<target, phase, gone>>, call'[h].pc \in CleanPCs,
         call'[h].pod = call[h].pod, call'[h].vol = call[h].vol,
         \A j \in Keys : refs'[j] \subseteq refs[j],
         ~call'[h].errs => /\ ~call[h].errs
                           /\ \A j \in Keys : j \in call[h].todo =>
                                j \in call'[h].todo \/ call[h].pod \notin refs'[j]
  PROVE  CallInv(h)'
<1>1. /\ call[h].pc \in TargetPCs /\ call'[h].pc \in TargetPCs /\ call'[h].pc \notin PublishPCs
      /\ call'[h].pc \notin IAMPCs /\ call'[h].pc \notin SectionPCs
      /\ call'[h].pc \notin {"iam_bind", "iam_remount"} /\ call'[h].pc \notin {"bind", "remount"}
  <2>1. {"bind", "remount"} \subseteq PublishPCs
    BY Zenon DEF PublishPCs
  <2>2. QED
    BY <2>1, PCSets, Zenon
<1>2. PICK k \in Keys : k = KeyOf[Target(h)]
  BY <1>1, TargetFact, Zenon
<1>3. Target(h)' = Target(h) /\ CallInv(h)
  BY Zenon DEF Target, ReferenceInv
<1>4. /\ Target(h) \in Uses /\ target[Target(h)] = "none"
      /\ (call[h].vol \in IAMVolumes /\ ~call[h].errs => k \in call[h].todo \/ call[h].pod \notin refs[k])
  BY <1>1, <1>2, <1>3, Zenon DEF CallInv
<1>5. call[h].vol \in IAMVolumes /\ ~call'[h].errs => k \in call'[h].todo \/ call[h].pod \notin refs'[k]
  BY <1>4, Zenon
<1>6. QED
  BY <1>1, <1>2, <1>3, <1>4, <1>5, Zenon DEF CallInv

\* The entry of NodeUnpublishVolume.
LEMMA NodeUnpublishVolumeReference ==
  ASSUME IInv, IInv', ReferenceInv, NEW h \in Handlers, NEW d \in Pods, NEW v \in Volumes,
         NodeUnpublishVolume(h, d, v)
  PROVE  ReferenceInv' /\ OwnStep(h)
<1>1. /\ Start(h, "unmount_target", d, v, FALSE) /\ <<d, v>> \in Uses /\ call[h].pc = "idle"
      /\ UNCHANGED <<target, global, refsDir, refs, token, phase, gone, faults>>
  BY Zenon DEF NodeUnpublishVolume, mounts, iamDirs, kubelet, At
<1>2. /\ call'[h].pc = "unmount_target" /\ Target(h)' = <<d, v>>
      /\ \A g \in Handlers \ {h} : call'[g] = call[g]
  BY <1>1, StartCall, ZenonT(30)
<1>3. /\ "unmount_target" \notin CleanPCs /\ "unmount_target" \notin PublishPCs
      /\ "unmount_target" \notin IAMPCs /\ "unmount_target" \notin SectionPCs
      /\ "unmount_target" \notin KeyPCs /\ "idle" \notin KeyPCs
      /\ "unmount_target" \notin {"iam_bind", "iam_remount"}
      /\ "unmount_target" \notin {"bind", "remount"}
  BY Zenon DEF SectionPCs, CleanPCs, UnpublishPCs, PublishPCs, IAMPCs, KeyPCs
<1>4. CallInv(h)'
  BY <1>1, <1>2, <1>3, Zenon DEF CallInv
<1>5. OwnStep(h) /\ CleanStep(h)
  BY <1>1, <1>2, <1>3, QuietOwnStep, FarCleanStep, Zenon
<1>6. QED
  BY <1>4, <1>5, OwnStepReference, Zenon

\* The target is unmounted and the pod's references are listed.
LEMMA UnpublishUnmountReference ==
  ASSUME IInv, IInv', ReferenceInv, NEW h \in Handlers, UnpublishUnmount(h)
  PROVE  ReferenceInv' /\ OwnStep(h)
<1>1. /\ call[h].pc = "unmount_target" /\ call[h].pc \in TargetPCs /\ call[h].pc \notin KeyPCs
      /\ UNCHANGED <<global, refsDir, refs, token, phase, gone>>
  BY Zenon DEF UnpublishUnmount, At, iamDirs, kubelet, TargetPCs, KeyPCs
<1>2. faults' = 0 => faults = 0
  BY FaultCounts, Zenon DEF UnpublishUnmount
<1>3. TargetStep(h)
  BY <1>1, SetTargetStep, Zenon DEF UnpublishUnmount, UnmountErrors
<1>4. CASE Return(h)
  <2>1. OwnStep(h) /\ CallInv(h)' /\ CleanStep(h)
    BY <1>1, <1>2, <1>3, <1>4, ReturnCall, NoTargetCallInv, FarCleanStep, Zenon
      DEF OwnStep, RefsStep, GoneStep
  <2>2. QED
    BY <2>1, OwnStepReference, Zenon
<1>5. CASE SetTarget(h, "none") /\ Become(h, "clean", Nil, Referenced(call[h].pod), FALSE)
  <2>1. /\ call'[h].pc = "clean" /\ call'[h].pod = call[h].pod /\ call'[h].vol = call[h].vol
        /\ call'[h].todo = Referenced(call[h].pod) /\ Target(h)' = Target(h)
        /\ \A g \in Handlers \ {h} : call'[g] = call[g]
    <3>1. Become(h, "clean", Nil, Referenced(call[h].pod), FALSE)
      BY <1>5, Zenon
    <3>2. QED
      BY <3>1, Zenon DEF IInv, TypeOK, Become, Call, Target
  <2>2. target'[Target(h)] = "none"
    BY <1>1, <1>5, SetTargetFact, Zenon
  <2>3. PICK k \in Keys : k = KeyOf[Target(h)]
    BY <1>1, TargetFact, Zenon
  <2>4. k \in call'[h].todo \/ call[h].pod \notin refs'[k]
    BY <1>1, <2>1, Zenon DEF Referenced
  <2>5. Target(h) \in Uses
    BY <1>1, Zenon DEF ReferenceInv, CallInv
  <2>6. /\ "clean" \notin PublishPCs /\ "clean" \notin IAMPCs /\ "clean" \notin SectionPCs
        /\ "clean" \notin {"iam_bind", "iam_remount"} /\ "clean" \notin {"bind", "remount"}
        /\ "clean" \notin KeyPCs
    BY Zenon DEF PublishPCs, IAMPCs, SectionPCs, KeyPCs
  <2>7. CallInv(h)'
    BY <2>1, <2>2, <2>3, <2>4, <2>5, <2>6, Zenon DEF CallInv
  <2>8. OwnStep(h) /\ CleanStep(h)
    BY <1>1, <1>2, <1>3, <2>1, <2>6, FarCleanStep, ZenonT(30) DEF OwnStep, RefsStep, GoneStep
  <2>9. QED
    BY <2>7, <2>8, OwnStepReference, Zenon
<1>6. QED
  BY <1>4, <1>5, Zenon DEF UnpublishUnmount

\* The end of an unpublish.
LEMMA UnpublishReturnReference ==
  ASSUME IInv, IInv', ReferenceInv, NEW h \in Handlers, UnpublishReturn(h)
  PROVE  ReferenceInv' /\ OwnStep(h)
<1>1. /\ At(h, "clean") /\ call[h].pc \notin KeyPCs /\ Return(h)
      /\ UNCHANGED <<target, global, refsDir, refs, token, phase, faults>>
  BY Zenon DEF UnpublishReturn, At, mounts, iamDirs, KeyPCs
<1>2. GoneStep(h)
  BY Zenon DEF UnpublishReturn, GoneStep
<1>3. OwnStep(h) /\ CallInv(h)' /\ CleanStep(h)
  BY <1>1, <1>2, ReturnCall, NoTargetCallInv, FarCleanStep, Zenon DEF OwnStep, TargetStep, RefsStep
<1>4. QED
  BY <1>3, OwnStepReference, Zenon

\* The next reference is removed, or its key is busy.
LEMMA CleanReferenceReference ==
  ASSUME IInv, IInv', ReferenceInv, NEW h \in Handlers, NEW k \in Keys, CleanReference(h, k)
  PROVE  ReferenceInv' /\ OwnStep(h)
<1>1. /\ call[h].pc = "clean" /\ call[h].pc \in CleanPCs /\ call[h].pc \notin KeyPCs
      /\ UNCHANGED <<target, global, refsDir, token, phase, gone>>
  BY PCSets, Zenon DEF CleanReference, At, mounts, kubelet, KeyPCs
<1>2. faults' = 0 => faults = 0
  BY FaultCounts, Zenon DEF CleanReference
<1>3. CASE /\ refs' = [refs EXCEPT ![k] = @ \ {call[h].pod}]
           /\ Become(h, "rm_refs", k, call[h].todo \ {k}, call[h].errs)
  <2>1. /\ call'[h].pc = "rm_refs" /\ call'[h].pod = call[h].pod /\ call'[h].vol = call[h].vol
        /\ call'[h].key = k /\ call'[h].todo = call[h].todo \ {k} /\ call'[h].errs = call[h].errs
        /\ \A g \in Handlers \ {h} : call'[g] = call[g]
    <3>1. Become(h, "rm_refs", k, call[h].todo \ {k}, call[h].errs)
      BY <1>3, Zenon
    <3>2. QED
      BY <3>1, BecomeCall, SMTT(30)
  <2>2. refs'[k] = refs[k] \ {call[h].pod} /\ \A j \in Keys \ {k} : refs'[j] = refs[j]
    BY <1>3, Zenon DEF IInv, TypeOK
  <2>3. /\ "rm_refs" \in CleanPCs /\ "rm_refs" \in KeyPCs
        /\ "rm_refs" \notin {"unmount_global", "rm_key"} /\ "clean" \notin {"unmount_global", "rm_key"}
    BY Zenon DEF CleanPCs, UnpublishPCs, KeyPCs
  <2>4. /\ \A j \in Keys : refs'[j] \subseteq refs[j]
        /\ \A j \in Keys : j \in call[h].todo => j \in call'[h].todo \/ call[h].pod \notin refs'[j]
    BY <2>1, <2>2, Zenon
  <2>5. CallInv(h)'
    BY <1>1, <2>1, <2>3, <2>4, CleanMoves, Zenon
  <2>6. RefsStep(h)
    BY <1>1, <2>1, <2>2, <2>3, KeyRefsStep, ZenonT(30) DEF Inside
  <2>7. OwnStep(h)
    BY <1>1, <2>1, <2>6, Zenon DEF OwnStep, TargetStep, GoneStep
  <2>8. InSection(k, KeyPCs)'
    BY <2>1, <2>3, Zenon DEF InSection
  <2>9. faults = 0 => CleanAt(k)'
    BY <1>1, <2>1, <2>3, <2>8, SameCleanAt, Zenon
  <2>10. CleanStep(h)
    BY <1>1, <1>2, <2>1, <2>2, <2>9, OneKeyCleanStep, Zenon
  <2>11. QED
    BY <2>5, <2>7, <2>10, OwnStepReference, Zenon
<1>4. CASE UNCHANGED refs /\ Become(h, "clean", Nil, call[h].todo \ {k}, TRUE)
  <2>1. /\ call'[h].pc = "clean" /\ call'[h].pod = call[h].pod /\ call'[h].vol = call[h].vol
        /\ call'[h].errs = TRUE /\ \A g \in Handlers \ {h} : call'[g] = call[g]
    BY <1>4, BecomeCall, ZenonT(30)
  <2>2. CallInv(h)'
    BY <1>1, <1>4, <2>1, CleanMoves, Zenon
  <2>3. OwnStep(h) /\ CleanStep(h)
    BY <1>1, <1>2, <1>4, <2>1, QuietOwnStep, FarCleanStep, Zenon
  <2>4. QED
    BY <2>2, <2>3, OwnStepReference, Zenon
<1>5. QED
  BY <1>3, <1>4, Zenon DEF CleanReference

\* A step of cleanUpIAMReferenceForKey moves on in the section or leaves it.
LEMMA TeardownMoves ==
  ASSUME IInv, NEW h \in Handlers,
         \/ Goto(h, "unmount_global") \/ Goto(h, "rm_key")
         \/ CleanNext(h, FALSE) \/ CleanNext(h, TRUE)
  PROVE  /\ call'[h].pod = call[h].pod /\ call'[h].vol = call[h].vol
         /\ call'[h].todo = call[h].todo /\ (~call'[h].errs => ~call[h].errs)
         /\ call'[h].pc \in {"clean", "unmount_global", "rm_key"} /\ call'[h].pc \in CleanPCs
         /\ (call'[h].pc \in KeyPCs => call'[h].key = call[h].key)
         /\ (CleanNext(h, FALSE) \/ CleanNext(h, TRUE) => call'[h].pc = "clean")
         /\ (Goto(h, "unmount_global") => call'[h].pc = "unmount_global")
         /\ (Goto(h, "rm_key") => call'[h].pc = "rm_key")
         /\ \A g \in Handlers \ {h} : call'[g] = call[g]
<1>1. "clean" \notin KeyPCs /\ {"clean", "unmount_global", "rm_key"} \subseteq CleanPCs
  BY Zenon DEF KeyPCs, CleanPCs, UnpublishPCs
<1>2. ASSUME NEW l \in {"unmount_global", "rm_key"}, Goto(h, l)
      PROVE  /\ call'[h].pod = call[h].pod /\ call'[h].vol = call[h].vol
             /\ call'[h].todo = call[h].todo /\ call'[h].errs = call[h].errs
             /\ call'[h].pc = l /\ call'[h].key = call[h].key
             /\ \A g \in Handlers \ {h} : call'[g] = call[g]
  BY <1>2, GotoCall, Zenon
<1>3. ASSUME NEW e \in BOOLEAN, CleanNext(h, e)
      PROVE  /\ call'[h].pod = call[h].pod /\ call'[h].vol = call[h].vol
             /\ call'[h].todo = call[h].todo /\ call'[h].errs = (call[h].errs \/ e)
             /\ call'[h].pc = "clean"
             /\ \A g \in Handlers \ {h} : call'[g] = call[g]
  BY <1>3, Zenon DEF IInv, TypeOK, CleanNext, Become, Call
<1>4. CASE Goto(h, "unmount_global") \/ Goto(h, "rm_key")
  BY <1>1, <1>2, <1>3, <1>4, Zenon
<1>5. CASE CleanNext(h, FALSE) \/ CleanNext(h, TRUE)
  BY <1>1, <1>2, <1>3, <1>5, Zenon
<1>6. QED
  BY <1>4, <1>5, Zenon

\* The three steps of the teardown of a key, on condition that the key is left
\* clean.
LEMMA TeardownStep ==
  ASSUME IInv, IInv', ReferenceInv, NEW h \in Handlers, NEW k \in Keys, k = call[h].key,
         call[h].pc \in {"rm_refs", "unmount_global", "rm_key"},
         UNCHANGED <<target, phase, gone>>,
         \/ Goto(h, "unmount_global") \/ Goto(h, "rm_key")
         \/ CleanNext(h, FALSE) \/ CleanNext(h, TRUE),
         refs'[k] \subseteq refs[k],
         \A j \in Keys \ {k} :
           /\ refs'[j] = refs[j] /\ global'[j] = global[j] /\ token'[j] = token[j]
           /\ j \in refsDir' <=> j \in refsDir,
         faults' = 0 => faults = 0 /\ CleanAt(k)'
  PROVE  ReferenceInv' /\ OwnStep(h)
<1>1. /\ call'[h].pod = call[h].pod /\ call'[h].vol = call[h].vol
      /\ call'[h].todo = call[h].todo /\ (~call'[h].errs => ~call[h].errs)
      /\ call'[h].pc \in CleanPCs /\ (call'[h].pc \in KeyPCs => call'[h].key = k)
      /\ \A g \in Handlers \ {h} : call'[g] = call[g]
  BY TeardownMoves, Zenon
<1>2. call[h].pc \in CleanPCs /\ call[h].pc \in KeyPCs
  BY Zenon DEF CleanPCs, UnpublishPCs, KeyPCs
<1>3. \A j \in Keys : refs'[j] \subseteq refs[j]
  BY Zenon
<1>4. CallInv(h)'
  BY <1>1, <1>2, <1>3, CleanMoves, Zenon
<1>5. RefsStep(h)
  BY <1>2, KeyRefsStep, Zenon DEF Inside
<1>6. OwnStep(h)
  BY <1>1, <1>5, Zenon DEF OwnStep, TargetStep, GoneStep
<1>7. CleanStep(h)
  BY <1>1, OneKeyCleanStep, Zenon
<1>8. QED
  BY <1>4, <1>6, <1>7, OwnStepReference, Zenon

\* The refs directory is removed when it is empty.
LEMMA RemoveRefsDirReference ==
  ASSUME IInv, IInv', ReferenceInv, NEW h \in Handlers, RemoveRefsDir(h)
  PROVE  ReferenceInv' /\ OwnStep(h)
<1>1. /\ call[h].pc = "rm_refs" /\ call[h].pc \in KeyPCs
      /\ UNCHANGED <<target, global, refs, token, phase, gone>>
  BY Zenon DEF RemoveRefsDir, At, mounts, kubelet, KeyPCs
<1>2. PICK k \in Keys : k = call[h].key
  BY <1>1, Zenon DEF IInv, WellFormed
<1>3. CASE NoFault /\ refsDir' = refsDir \ {k} /\ Goto(h, "unmount_global")
  <2>1. call'[h].pc = "unmount_global" /\ call'[h].key = k
    BY <1>2, <1>3, GotoCall, Zenon
  <2>2. InSection(k, KeyPCs)' /\ InSection(k, {"unmount_global", "rm_key"})'
    BY <2>1, Zenon DEF InSection, KeyPCs
  <2>3. CleanAt(k)'
    BY <2>2, Zenon DEF CleanAt
  <2>4. QED
    BY <1>1, <1>2, <1>3, <2>3, TeardownStep, Zenon DEF NoFault
<1>4. CASE NoFault /\ ~(k \in refsDir /\ refs[k] = {}) /\ CleanNext(h, FALSE) /\ UNCHANGED refsDir
  <2>1. call'[h].pc = "clean" /\ \A g \in Handlers \ {h} : call'[g] = call[g]
    BY <1>4, TeardownMoves, Zenon
  <2>2. /\ call[h].pc \notin {"unmount_global", "rm_key"}
        /\ call'[h].pc \notin {"unmount_global", "rm_key"}
    BY <1>1, <2>1, Zenon
  <2>3. faults = 0 => CleanAt(k)'
    BY <1>1, <1>4, <2>1, <2>2, SameCleanAt, Zenon
  <2>4. QED
    BY <1>1, <1>2, <1>4, <2>3, TeardownStep, Zenon DEF NoFault
<1>5. CASE Fault /\ CleanNext(h, TRUE) /\ UNCHANGED refsDir
  BY <1>1, <1>2, <1>5, FaultCounts, TeardownStep, Zenon
<1>6. QED
  BY <1>2, <1>3, <1>4, <1>5, Zenon DEF RemoveRefsDir

\* The global mount is taken down.
LEMMA UnmountGlobalReference ==
  ASSUME IInv, IInv', ReferenceInv, NEW h \in Handlers, UnmountGlobal(h)
  PROVE  ReferenceInv' /\ OwnStep(h)
<1>1. /\ call[h].pc = "unmount_global" /\ call[h].pc \in KeyPCs
      /\ UNCHANGED <<target, refsDir, refs, token, phase, gone>>
  BY Zenon DEF UnmountGlobal, At, iamDirs, kubelet, KeyPCs
<1>2. PICK k \in Keys : k = call[h].key
  BY <1>1, ZenonT(30) DEF IInv, WellFormed
<1>3. \A j \in Keys \ {k} : global'[j] = global[j]
  BY <1>2, Zenon DEF UnmountGlobal, SetGlobal, IInv, TypeOK
<1>4. CASE NoFault /\ Goto(h, "rm_key")
  <2>1. call'[h].pc = "rm_key" /\ call'[h].key = k
    BY <1>2, <1>4, GotoCall, Zenon
  <2>2. InSection(k, KeyPCs)' /\ InSection(k, {"unmount_global", "rm_key"})'
    BY <2>1, Zenon DEF InSection, KeyPCs
  <2>3. CleanAt(k)'
    BY <2>2, Zenon DEF CleanAt
  <2>4. QED
    BY <1>1, <1>2, <1>3, <1>4, <2>3, TeardownStep, Zenon DEF NoFault
<1>5. CASE Fault /\ CleanNext(h, TRUE)
  BY <1>1, <1>2, <1>3, <1>5, FaultCounts, TeardownStep, Zenon
<1>6. QED
  BY <1>4, <1>5, Zenon DEF UnmountGlobal

\* The folder of the key is removed: without a failure nothing of it is left.
LEMMA RemoveKeyDirReference ==
  ASSUME IInv, IInv', ReferenceInv, NEW h \in Handlers, RemoveKeyDir(h)
  PROVE  ReferenceInv' /\ OwnStep(h)
<1>1. /\ call[h].pc = "rm_key" /\ call[h].pc \in KeyPCs
      /\ UNCHANGED <<target, global, phase, gone>>
  BY Zenon DEF RemoveKeyDir, At, mounts, kubelet, KeyPCs
<1>2. PICK k \in Keys : k = call[h].key
  BY <1>1, ZenonT(30) DEF IInv, WellFormed
<1>3. global[k] = "none"
  BY <1>1, <1>2, ZenonT(30) DEF IInv, KeyInv, At
<1>4. /\ refs' = [refs EXCEPT ![k] = {}] /\ refsDir' = refsDir \ {k}
      /\ token' = token \/ token' = [token EXCEPT ![k] = Nil]
  BY <1>2, Zenon DEF RemoveKeyDir
<1>5. /\ refs'[k] = {} /\ k \notin refsDir'
      /\ \A j \in Keys \ {k} : refs'[j] = refs[j] /\ (j \in refsDir' <=> j \in refsDir)
  BY <1>4, ZenonT(30) DEF IInv, TypeOK
<1>6. \A j \in Keys \ {k} : token'[j] = token[j]
  BY <1>4, Zenon DEF IInv, TypeOK
<1>7. CASE NoFault /\ CleanNext(h, FALSE) /\ token' = [token EXCEPT ![k] = Nil]
  <2>1. token'[k] = Nil
    BY <1>7, Zenon DEF IInv, TypeOK
  <2>2. CleanAt(k)'
    BY <1>1, <1>3, <1>5, <2>1, Zenon DEF CleanAt
  <2>3. QED
    BY <1>1, <1>2, <1>5, <1>6, <1>7, <2>2, TeardownStep, ZenonT(30) DEF NoFault
<1>8. CASE Fault /\ CleanNext(h, TRUE)
  BY <1>1, <1>2, <1>5, <1>6, <1>8, FaultCounts, TeardownStep, Zenon
<1>9. QED
  BY <1>2, <1>7, <1>8, Zenon DEF RemoveKeyDir

-----------------------------------------------------------------------------
(* The environment, and the theorems.                                      *)

\* A pod that starts or is deleted is no longer pending.
LEMMA PhaseReference ==
  ASSUME IInv, ReferenceInv, NEW d \in Pods, PodStart(d) \/ PodDelete(d)
  PROVE  ReferenceInv'
<1>1. UNCHANGED <<target, global, refsDir, refs, token, call, gone, faults>>
  BY Zenon DEF PodStart, PodDelete, mounts, iamDirs
<1>2. \A e \in Pods : phase[e] # "pending" => phase'[e] # "pending"
  BY Zenon DEF PodStart, PodDelete, IInv, TypeOK
<1>3. ASSUME NEW h \in Handlers PROVE CallInv(h)'
  <2>1. CallInv(h) /\ Target(h)' = Target(h) /\ (call[h].pc \in TargetPCs => call[h].pod \in Pods)
    BY <1>1, TargetFact, Zenon DEF ReferenceInv, Target
  <2>2. call[h].pc \in PublishPCs => phase'[call[h].pod] # "pending"
    BY <1>2, <2>1, PCSets, ZenonT(30) DEF CallInv
  <2>3. QED
    BY <1>1, <2>1, <2>2, Zenon DEF CallInv
<1>4. UnpublishComplete' /\ CleanInv'
  BY <1>1, ZenonT(30) DEF ReferenceInv, UnpublishComplete, CleanInv, CleanAt, InSection
<1>5. HolderInv'
  <2>1. \A k \in Keys : refs[k] \subseteq Pods
    BY Zenon DEF IInv, TypeOK
  <2>2. QED
    BY <1>1, <1>2, <2>1, ZenonT(30) DEF ReferenceInv, HolderInv
<1>6. QED
  BY <1>3, <1>4, <1>5, Zenon DEF ReferenceInv

\* A restart, a reboot or a lost instance mounts nothing.
LEMMA BreakMountsNothing ==
  ASSUME DriverRestart \/ NodeReboot \/ \E v \in Volumes : Corrupt(v)
  PROVE  \A t \in Targets : target[t] = "none" => target'[t] = "none"
<1>1. CASE DriverRestart \/ NodeReboot
  BY <1>1, Zenon DEF DriverRestart, NodeReboot, mounts
<1>2. ASSUME NEW v \in Volumes, Corrupt(v), NEW t \in Targets, target[t] = "none"
      PROVE  target'[t] = "none"
  BY <1>2, Zenon DEF Corrupt, Corrupted
<1>3. QED
  BY <1>1, <1>2, Zenon

\* It ends calls only as a whole.
LEMMA BreakReference ==
  ASSUME IInv, ReferenceInv, DriverRestart \/ NodeReboot \/ \E v \in Volumes : Corrupt(v)
  PROVE  ReferenceInv'
<1>1. Fault /\ UNCHANGED <<refsDir, refs, token, phase, gone>>
  BY Zenon DEF DriverRestart, NodeReboot, Corrupt, iamDirs, kubelet
<1>2. faults' # 0
  BY <1>1, FaultCounts, Zenon
<1>3. \A t \in Targets : target[t] = "none" => target'[t] = "none"
  BY BreakMountsNothing, Zenon
<1>4. \A h \in Handlers : call'[h] = call[h] \/ call'[h].pc = "idle"
  <2>1. CASE DriverRestart \/ NodeReboot
    <3>1. IdleCall.pc = "idle"
      BY Zenon DEF IdleCall, Call
    <3>2. call' = [h \in Handlers |-> IdleCall]
      BY <2>1, Zenon DEF DriverRestart, NodeReboot
    <3>3. QED
      BY <3>1, <3>2, Zenon
  <2>2. CASE \E v \in Volumes : Corrupt(v)
    BY <2>2, Zenon DEF Corrupt
  <2>3. QED
    BY <2>1, <2>2, Zenon
<1>5. ASSUME NEW h \in Handlers PROVE CallInv(h)'
  <2>1. CASE call'[h].pc = "idle"
    BY <2>1, PCSets, NoTargetCallInv, Zenon
  <2>2. CASE call'[h] = call[h]
    <3>1. CallInv(h) /\ Target(h)' = Target(h)
          /\ (call[h].pc \in CleanPCs => Target(h) \in Targets)
      BY <2>2, PCSets, TargetFact, Zenon DEF ReferenceInv, Target
    <3>2. call[h].pc \in CleanPCs => target'[Target(h)] = "none"
      BY <1>3, <3>1, Zenon DEF CallInv
    <3>3. QED
      BY <1>1, <2>2, <3>1, <3>2, Zenon DEF CallInv
  <2>3. QED
    BY <1>4, <2>1, <2>2, Zenon
<1>6. UnpublishComplete'
  BY <1>1, <1>3, ZenonT(30) DEF ReferenceInv, UnpublishComplete, IInv, TypeOK
<1>7. HolderInv' /\ CleanInv'
  BY <1>1, <1>2, Zenon DEF ReferenceInv, HolderInv, CleanInv
<1>8. QED
  BY <1>5, <1>6, <1>7, Zenon DEF ReferenceInv

\* The steps of calls, those that start one included.
CallStep(h) ==
  \/ \E v \in Volumes : NodeStageVolume(h, v) \/ NodeUnstageVolume(h, v)
  \/ \E d \in Pods, v \in Volumes : NodePublishVolume(h, d, v) \/ NodeUnpublishVolume(h, d, v)
  \/ HandlerStep(h)

\* A step of a call preserves the invariant, and is disciplined.
LEMMA CallReference ==
  ASSUME IInv, IInv', ReferenceInv, UndoInv, NEW h \in Handlers, CallStep(h)
  PROVE  ReferenceInv' /\ OwnStep(h)
<1>1. ASSUME NEW v \in Volumes, NodeStageVolume(h, v) \/ NodeUnstageVolume(h, v)
      PROVE  ReferenceInv' /\ OwnStep(h)
  BY <1>1, StageReference, Zenon
<1>2. ASSUME NEW d \in Pods, NEW v \in Volumes,
             NodePublishVolume(h, d, v) \/ NodeUnpublishVolume(h, d, v)
      PROVE  ReferenceInv' /\ OwnStep(h)
  BY <1>2, NodePublishVolumeReference, NodeUnpublishVolumeReference, Zenon
<1>3. CASE StageCheck(h) \/ StageMount(h) \/ UnstageUnmount(h)
  BY <1>3, StageReference, Zenon
<1>4. CASE PublishBind(h) \/ PublishRemount(h) \/ PublishOwnership(h)
  BY <1>4, PlainPublishReference, Zenon
<1>5. CASE \/ IAMLock(h) \/ IAMMount(h) \/ IAMAddReference(h)
           \/ IAMBind(h) \/ IAMRemount(h) \/ IAMUndo(h)
  BY <1>5, IAMLockReference, IAMMountReference, IAMAddReferenceReference, IAMBindReference,
     IAMUndoReference, Zenon
<1>6. CASE UnpublishUnmount(h) \/ UnpublishReturn(h) \/ \E k \in Keys : CleanReference(h, k)
  BY <1>6, UnpublishUnmountReference, UnpublishReturnReference, CleanReferenceReference, Zenon
<1>7. CASE RemoveRefsDir(h) \/ UnmountGlobal(h) \/ RemoveKeyDir(h)
  BY <1>7, RemoveRefsDirReference, UnmountGlobalReference, RemoveKeyDirReference, Zenon
<1>8. QED
  BY <1>1, <1>2, <1>3, <1>4, <1>5, <1>6, <1>7, Zenon DEF CallStep, HandlerStep

\* Every step is one of a call, of the environment, or leaves all of it alone.
LEMMA NextCases ==
  ASSUME [Next]_vars
  PROVE  \/ \E h \in Handlers : CallStep(h)
         \/ \E d \in Pods : PodStart(d) \/ PodDelete(d)
         \/ DriverRestart \/ NodeReboot \/ \E v \in Volumes : Corrupt(v)
         \/ UNCHANGED <<target, global, refsDir, refs, token, call, phase, gone, faults>>
<1>1. CASE \E v \in Volumes : StageIAM(v)
  BY <1>1, Zenon DEF StageIAM, mounts, iamDirs
<1>2. CASE UNCHANGED vars
  BY <1>2, Zenon DEF vars, mounts, iamDirs, kubelet
<1>3. CASE \E h \in Handlers, v \in Volumes : NodeStageVolume(h, v) \/ NodeUnstageVolume(h, v)
  BY <1>3, Zenon DEF CallStep
<1>4. CASE \E h \in Handlers, d \in Pods, v \in Volumes :
             NodePublishVolume(h, d, v) \/ NodeUnpublishVolume(h, d, v)
  BY <1>4, Zenon DEF CallStep
<1>5. CASE \E h \in Handlers : HandlerStep(h)
  BY <1>5, Zenon DEF CallStep
<1>6. CASE Environment
  BY <1>6, Zenon DEF Environment
<1>7. QED
  BY <1>1, <1>2, <1>3, <1>4, <1>5, <1>6, Zenon DEF Next

\* Failures only add up.
LEMMA FaultsGrow ==
  ASSUME IInv, [Next]_vars
  PROVE  faults <= faults'
<1>1. (NoFault \/ Fault \/ Faults(1) \/ Faults(2) \/ Faults(3)) => faults <= faults'
  BY SMTT(60) DEF NoFault, Fault, Faults, IInv, TypeOK
<1>2. ASSUME NEW h \in Handlers, CallStep(h)
      PROVE  NoFault \/ Fault \/ Faults(1) \/ Faults(2) \/ Faults(3)
  <2>1. CASE \/ \E v \in Volumes : NodeStageVolume(h, v) \/ NodeUnstageVolume(h, v)
             \/ \E d \in Pods, v \in Volumes :
                  NodePublishVolume(h, d, v) \/ NodeUnpublishVolume(h, d, v)
    BY <2>1, Zenon DEF NodeStageVolume, NodeUnstageVolume, NodePublishVolume,
      NodeUnpublishVolume, NoFault
  <2>2. CASE StageCheck(h) \/ StageMount(h) \/ UnstageUnmount(h)
    BY <2>2, Zenon DEF StageCheck, StageMount, UnstageUnmount, NoFault
  <2>3. CASE PublishBind(h) \/ PublishRemount(h) \/ PublishOwnership(h)
    BY <2>3, Zenon DEF PublishBind, PublishRemount, PublishOwnership
  <2>4. CASE \/ IAMLock(h) \/ IAMMount(h) \/ IAMAddReference(h)
             \/ IAMBind(h) \/ IAMRemount(h) \/ IAMUndo(h)
    BY <2>4, Zenon DEF IAMLock, IAMMount, IAMAddReference, IAMBind, IAMRemount, IAMBindFails,
      IAMUndo
  <2>5. CASE UnpublishUnmount(h) \/ UnpublishReturn(h) \/ \E k \in Keys : CleanReference(h, k)
    BY <2>5, Zenon DEF UnpublishUnmount, UnpublishReturn, CleanReference, NoFault
  <2>6. CASE RemoveRefsDir(h) \/ UnmountGlobal(h) \/ RemoveKeyDir(h)
    BY <2>6, Zenon DEF RemoveRefsDir, UnmountGlobal, RemoveKeyDir
  <2>7. QED
    BY <1>2, <2>1, <2>2, <2>3, <2>4, <2>5, <2>6, Zenon DEF CallStep, HandlerStep
<1>3. (\E d \in Pods : PodStart(d) \/ PodDelete(d)) => NoFault
  BY Zenon DEF PodStart, PodDelete, NoFault
<1>4. DriverRestart \/ NodeReboot \/ (\E v \in Volumes : Corrupt(v)) => Fault
  BY Zenon DEF DriverRestart, NodeReboot, Corrupt
<1>5. UNCHANGED <<target, global, refsDir, refs, token, call, phase, gone, faults>> => NoFault
  BY Zenon DEF NoFault
<1>6. QED
  BY <1>1, <1>2, <1>3, <1>4, <1>5, NextCases, Zenon

\* A call undoes its bind mount only after that has failed.
LEMMA UndoEntry ==
  ASSUME IInv, NEW h \in Handlers, CallStep(h)
  PROVE  call'[h].pc # "iam_undo" \/ Faults(1) \/ Faults(2)
<1>1. ASSUME NEW l, NEW k, NEW t, NEW e, Become(h, l, k, t, e), l # "iam_undo"
      PROVE  call'[h].pc # "iam_undo"
  BY <1>1, BecomeCall, Zenon
<1>2. ASSUME NEW l, NEW d, NEW v, NEW s, Start(h, l, d, v, s), l # "iam_undo"
      PROVE  call'[h].pc # "iam_undo"
  BY <1>2, StartCall, Zenon
<1>3. CASE Return(h)
  BY <1>3, ReturnCall, Zenon
<1>4. ASSUME NEW v \in Volumes, NodeStageVolume(h, v) \/ NodeUnstageVolume(h, v)
      PROVE  call'[h].pc # "iam_undo"
  BY <1>2, <1>4, Zenon DEF NodeStageVolume, NodeUnstageVolume, At
<1>5. ASSUME NEW d \in Pods, NEW v \in Volumes,
             NodePublishVolume(h, d, v) \/ NodeUnpublishVolume(h, d, v)
      PROVE  call'[h].pc # "iam_undo"
  BY <1>2, <1>5, Zenon DEF NodePublishVolume, NodeUnpublishVolume
<1>6. CASE StageCheck(h) \/ StageMount(h) \/ UnstageUnmount(h)
  BY <1>1, <1>3, <1>6, Zenon DEF StageCheck, StageMount, UnstageUnmount, Goto
<1>7. CASE PublishBind(h) \/ PublishRemount(h) \/ PublishOwnership(h)
  BY <1>1, <1>3, <1>7, Zenon DEF PublishBind, PublishRemount, PublishOwnership, Goto
<1>8. CASE IAMLock(h) \/ IAMMount(h) \/ IAMAddReference(h) \/ IAMUndo(h)
  BY <1>1, <1>3, <1>8, Zenon DEF IAMLock, IAMMount, IAMAddReference, IAMUndo, Goto, Enter
<1>9. CASE IAMBind(h) \/ IAMRemount(h)
  BY <1>1, <1>9, Zenon DEF IAMBind, IAMRemount, IAMBindFails, PublishDone, Goto, Enter
<1>10. CASE UnpublishUnmount(h) \/ UnpublishReturn(h) \/ \E k \in Keys : CleanReference(h, k)
  BY <1>1, <1>3, <1>10, Zenon DEF UnpublishUnmount, UnpublishReturn, CleanReference
<1>11. CASE RemoveRefsDir(h) \/ UnmountGlobal(h) \/ RemoveKeyDir(h)
  BY <1>1, <1>11, Zenon DEF RemoveRefsDir, UnmountGlobal, RemoveKeyDir, CleanNext, Goto
<1>12. QED
  BY <1>4, <1>5, <1>6, <1>7, <1>8, <1>9, <1>10, <1>11, Zenon DEF CallStep, HandlerStep

\* No step forgets a failure that a call undoes something for.
LEMMA NextUndo ==
  ASSUME IInv, IInv', ReferenceInv, UndoInv, [Next]_vars
  PROVE  UndoInv'
<1> SUFFICES ASSUME NEW g \in Handlers, call'[g].pc = "iam_undo"
             PROVE  faults' > 0
  BY Zenon DEF UndoInv, At
<1>1. faults \in Nat /\ faults' \in Nat /\ faults <= faults'
  <2>1. faults <= faults'
    BY FaultsGrow, Zenon
  <2>2. QED
    BY <2>1 DEF IInv, TypeOK
<1>2. CASE call'[g].pc = call[g].pc
  <2>1. faults > 0
    BY <1>2, Zenon DEF UndoInv, At
  <2>2. QED
    BY <1>1, <2>1
<1>3. CASE Faults(1) \/ Faults(2)
  BY <1>1, <1>3 DEF Faults
<1>4. ASSUME NEW h \in Handlers, CallStep(h)
      PROVE  Faults(1) \/ Faults(2) \/ call'[g].pc = call[g].pc
  <2>1. CASE g = h
    BY <1>4, <2>1, UndoEntry, Zenon
  <2>2. CASE g # h
    BY <1>4, <2>2, CallReference, Zenon DEF OwnStep
  <2>3. QED
    BY <2>1, <2>2, Zenon
<1>5. CASE \E d \in Pods : PodStart(d) \/ PodDelete(d)
  BY <1>2, <1>5, Zenon DEF PodStart, PodDelete
<1>6. CASE DriverRestart \/ NodeReboot \/ \E v \in Volumes : Corrupt(v)
  BY <1>3, <1>6, Zenon DEF DriverRestart, NodeReboot, Corrupt, Fault
<1>7. QED
  BY <1>2, <1>3, <1>4, <1>5, <1>6, NextCases, Zenon

\* Before the first call there is nothing to clean up.
LEMMA InitReference == Init => ReferenceInv
<1> SUFFICES ASSUME Init PROVE ReferenceInv
  BY Zenon
<1>1. /\ \A h \in Handlers : call[h].pc = "idle"
      /\ \A k \in Keys : refs[k] = {} /\ global[k] = "none" /\ token[k] = Nil
      /\ gone = {} /\ refsDir = {}
  BY Zenon DEF Init, IdleCall, Call
<1>2. ASSUME NEW h \in Handlers PROVE CallInv(h)
  <2>1. /\ call[h].pc \notin TargetPCs /\ call[h].pc \notin PublishPCs /\ call[h].pc \notin IAMPCs
        /\ call[h].pc \notin SectionPCs /\ call[h].pc \notin CleanPCs
        /\ call[h].pc \notin {"bind", "remount"} /\ call[h].pc \notin {"iam_bind", "iam_remount"}
    BY <1>1, PCSets, Zenon
  <2>2. QED
    BY <2>1, Zenon DEF CallInv
<1>3. UnpublishComplete /\ HolderInv /\ CleanInv
  BY <1>1, Zenon DEF UnpublishComplete, HolderInv, CleanInv, CleanAt
<1>4. QED
  BY <1>2, <1>3, Zenon DEF ReferenceInv

\* Every step preserves the invariant.
LEMMA NextReference == IInv /\ IInv' /\ ReferenceInv /\ UndoInv /\ [Next]_vars => ReferenceInv'
<1> SUFFICES ASSUME IInv, IInv', ReferenceInv, UndoInv, [Next]_vars PROVE ReferenceInv'
  BY Zenon
<1>1. ASSUME NEW h \in Handlers, CallStep(h) PROVE ReferenceInv'
  BY <1>1, CallReference, Zenon
<1>2. ASSUME NEW d \in Pods, PodStart(d) \/ PodDelete(d) PROVE ReferenceInv'
  BY <1>2, PhaseReference, Zenon
<1>3. QED
  BY <1>1, <1>2, NextCases, BreakReference, UnchangedReference, Zenon

\* What a running publish or unpublish may rely on about references, targets and
\* keys, and that a publish undoes a bind mount only after a failure, holds for any
\* number of pods, volumes, keys, handlers and failures.
THEOREM ReferenceInvariance == Spec => [](ReferenceInv /\ UndoInv)
<1>1. Init => ReferenceInv /\ UndoInv
  <2>1. Init => \A h \in Handlers : call[h].pc = "idle"
    <3>1. IdleCall.pc = "idle"
      BY Zenon DEF IdleCall, Call
    <3>2. QED
      BY <3>1, Zenon DEF Init
  <2>2. QED
    BY <2>1, InitReference, Zenon DEF UndoInv, At
<1>2. IInv /\ IInv' /\ ReferenceInv /\ UndoInv /\ [Next]_vars => ReferenceInv' /\ UndoInv'
  BY NextReference, NextUndo, Zenon
<1>3. QED
  BY <1>1, <1>2, Invariance, PTL DEF Spec

\* Once NodeUnpublishVolume has succeeded for a target, no call mounts the target
\* again or refers to its key again.
THEOREM UnpublishIsComplete == Spec => []UnpublishComplete
<1>1. ReferenceInv => UnpublishComplete
  BY Zenon DEF ReferenceInv
<1>2. QED
  BY ReferenceInvariance, <1>1, PTL

\* As long as nothing has failed, the last unpublish of a key leaves neither a
\* global mount nor a folder with a token, whatever calls ran concurrently.
THEOREM TeardownIsClean == Spec => []CleanTeardown
<1>1. ReferenceInv => CleanTeardown
  <2> SUFFICES ASSUME ReferenceInv, faults = 0, NEW k \in Keys, Abandoned(k)
               PROVE  global[k] = "none" /\ token[k] = Nil /\ k \notin refsDir
    BY Zenon DEF CleanTeardown, NoLeakedGlobalMount
  <2>1. CleanAt(k) /\ HolderInv /\ UnpublishComplete
    BY Zenon DEF ReferenceInv, CleanInv
  <2>2. ~InSection(k, KeyPCs) /\ ~InSection(k, {"unmount_global", "rm_key"})
    <3>1. "idle" \notin KeyPCs
      BY Zenon DEF KeyPCs
    <3>2. QED
      BY <3>1, Zenon DEF Abandoned, InSection, At
  <2>3. refs[k] = {}
    <3> SUFFICES ASSUME NEW d \in refs[k] PROVE FALSE
      BY Zenon
    <3>1. PICK v \in IAMVolumes : <<d, v>> \in Uses /\ KeyOf[<<d, v>>] = k
      BY <2>1, Zenon DEF HolderInv
    <3>2. PICK t \in Uses : t = <<d, v>> /\ t[1] = d /\ t[2] = v
      BY <3>1, Zenon
    <3>3. phase[d] # "pending"
      BY <2>1, Zenon DEF HolderInv
    <3>4. t \in gone
      BY <3>1, <3>2, <3>3, Zenon DEF Abandoned
    <3>5. QED
      BY <2>1, <3>1, <3>2, <3>4, Zenon DEF UnpublishComplete
  <2>4. QED
    BY <2>1, <2>2, <2>3, Zenon DEF CleanAt
<1>2. QED
  BY ReferenceInvariance, <1>1, PTL

-----------------------------------------------------------------------------
(* Bound targets keep their reference.                                     *)

\* What a step may take from a key: unpublish gives back the references of its
\* pod, a failed bind mount its own before it undoes the mount, and the token goes
\* with the last reference.
LossStep(h) ==
  \A k \in Keys :
    /\ \A d \in refs[k] : d \notin refs'[k] =>
         /\ d = call[h].pod
         /\ \/ At(h, "clean")
            \/ /\ call[h].pc \in {"iam_bind", "iam_remount"}
               /\ At(h, "iam_undo")' /\ Target(h)' = Target(h)
    /\ token'[k] = Nil => token[k] = Nil \/ refs[k] = {}

\* A step that leaves references and tokens alone takes nothing.
LEMMA QuietLossStep ==
  ASSUME NEW h \in Handlers, UNCHANGED <<refs, token>>
  PROVE  LossStep(h)
BY Zenon DEF LossStep

\* A failed bind mount takes the reference of a target that it goes on to unmount.
LEMMA BindFailsLoss ==
  ASSUME IInv, NEW h \in Handlers, call[h].pc \in {"iam_bind", "iam_remount"}, IAMBindFails(h),
         UNCHANGED token
  PROVE  LossStep(h)
<1>1. call[h].pc \in KeyPCs
  BY PCSets, Zenon
<1>2. PICK j \in Keys : j = call[h].key
  BY <1>1, Zenon DEF IInv, WellFormed
<1>3. UNCHANGED refs \/ refs' = [refs EXCEPT ![j] = refs[j] \ {call[h].pod}]
  BY <1>2, Zenon DEF IAMBindFails
<1>4. \A k \in Keys : \A d \in refs[k] : d \notin refs'[k] => d = call[h].pod
  <2>1. refs \in [Keys -> SUBSET Pods]
    BY Zenon DEF IInv, TypeOK
  <2>2. QED
    BY <1>3, <2>1, ZenonT(30)
<1>5. At(h, "iam_undo")' /\ Target(h)' = Target(h)
  BY GotoCall, Zenon DEF IAMBindFails, At
<1>6. QED
  BY <1>4, <1>5, Zenon DEF LossStep

\* The steps of publishIAMVolume that add to a key.
LEMMA IAMAddsLoss ==
  ASSUME IInv, NEW h \in Handlers, IAMLock(h) \/ IAMMount(h) \/ IAMAddReference(h)
  PROVE  LossStep(h)
<1>1. CASE IAMLock(h)
  <2>1. UNCHANGED refs /\ call[h].pc \in TargetPCs
    BY <1>1, Zenon DEF IAMLock, At, TargetPCs
  <2>2. PICK k \in Keys : k = KeyOf[Target(h)]
    BY <2>1, TargetFact, Zenon
  <2>3. UNCHANGED token \/ token' = [token EXCEPT ![k] = call[h].pod]
    BY <1>1, <2>2, Zenon DEF IAMLock
  <2>4. call[h].pod # Nil /\ token \in [Keys -> Pods \cup {Nil}]
    <3>1. call[h].pod \in Pods /\ Nil \notin Pods
      BY <2>1, TargetFact, Zenon
    <3>2. token \in [Keys -> Pods \cup {Nil}]
      BY Zenon DEF IInv, TypeOK
    <3>3. QED
      BY <3>1, <3>2, Zenon
  <2>5. \A j \in Keys : token'[j] = Nil => token[j] = Nil
    BY <2>3, <2>4, Zenon
  <2>6. QED
    BY <2>1, <2>5, Zenon DEF LossStep
<1>2. CASE IAMMount(h)
  BY <1>2, QuietLossStep, Zenon DEF IAMMount, iamDirs
<1>3. CASE IAMAddReference(h)
  <2>1. UNCHANGED token /\ call[h].pc \in KeyPCs
    BY <1>3, Zenon DEF IAMAddReference, At, KeyPCs
  <2>2. PICK k \in Keys : k = call[h].key
    BY <2>1, Zenon DEF IInv, WellFormed
  <2>3. UNCHANGED refs \/ refs' = [refs EXCEPT ![k] = refs[k] \cup {call[h].pod}]
    BY <1>3, <2>2, Zenon DEF IAMAddReference
  <2>4. \A j \in Keys : refs[j] \subseteq refs'[j]
    <3>1. refs \in [Keys -> SUBSET Pods]
      BY Zenon DEF IInv, TypeOK
    <3>2. QED
      BY <2>3, <3>1, Zenon
  <2>5. QED
    BY <2>1, <2>4, Zenon DEF LossStep
<1>4. QED
  BY <1>1, <1>2, <1>3, Zenon

\* The steps of an unpublish at a key.
LEMMA CleanLoss ==
  ASSUME IInv, NEW h \in Handlers,
         \/ \E k \in Keys : CleanReference(h, k)
         \/ RemoveRefsDir(h) \/ UnmountGlobal(h) \/ RemoveKeyDir(h)
  PROVE  LossStep(h)
<1>1. ASSUME NEW k \in Keys, CleanReference(h, k) PROVE LossStep(h)
  <2>1. UNCHANGED token /\ At(h, "clean")
    BY <1>1, Zenon DEF CleanReference
  <2>2. UNCHANGED refs \/ refs' = [refs EXCEPT ![k] = refs[k] \ {call[h].pod}]
    BY <1>1, Zenon DEF CleanReference
  <2>3. \A j \in Keys : \A d \in refs[j] : d \notin refs'[j] => d = call[h].pod
    <3>1. refs \in [Keys -> SUBSET Pods]
      BY Zenon DEF IInv, TypeOK
    <3>2. QED
      BY <2>2, <3>1, Zenon
  <2>4. QED
    BY <2>1, <2>3, Zenon DEF LossStep
<1>2. CASE RemoveRefsDir(h) \/ UnmountGlobal(h)
  BY <1>2, QuietLossStep, Zenon DEF RemoveRefsDir, UnmountGlobal, iamDirs
<1>3. CASE RemoveKeyDir(h)
  <2>1. At(h, "rm_key") /\ call[h].pc \in KeyPCs
    BY <1>3, Zenon DEF RemoveKeyDir, At, KeyPCs
  <2>2. PICK k \in Keys : k = call[h].key
    BY <2>1, ZenonT(30) DEF IInv, WellFormed
  <2>3. refs[k] = {}
    BY <2>1, <2>2, ZenonT(30) DEF IInv, KeyInv
  <2>4. /\ refs' = [refs EXCEPT ![k] = {}]
        /\ UNCHANGED token \/ token' = [token EXCEPT ![k] = Nil]
    BY <1>3, <2>2, Zenon DEF RemoveKeyDir
  <2>5. \A j \in Keys : refs'[j] = refs[j]
    BY <2>3, <2>4, ZenonT(30) DEF IInv, TypeOK
  <2>6. \A j \in Keys : token'[j] = Nil => token[j] = Nil \/ j = k
    BY <2>4, Zenon DEF IInv, TypeOK
  <2>7. QED
    BY <2>3, <2>5, <2>6, Zenon DEF LossStep
<1>4. QED
  BY <1>1, <1>2, <1>3, Zenon

\* Every step of a call takes from a key only what LossStep allows.
LEMMA CallLoss ==
  ASSUME IInv, NEW h \in Handlers, CallStep(h)
  PROVE  LossStep(h)
<1>1. CASE \/ \E v \in Volumes : NodeStageVolume(h, v) \/ NodeUnstageVolume(h, v)
           \/ \E d \in Pods, v \in Volumes :
                NodePublishVolume(h, d, v) \/ NodeUnpublishVolume(h, d, v)
  BY <1>1, QuietLossStep, Zenon DEF NodeStageVolume, NodeUnstageVolume, NodePublishVolume,
    NodeUnpublishVolume, iamDirs
<1>2. CASE StageCheck(h) \/ StageMount(h) \/ UnstageUnmount(h)
  BY <1>2, QuietLossStep, Zenon DEF StageCheck, StageMount, UnstageUnmount, iamDirs
<1>3. CASE \/ PublishBind(h) \/ PublishRemount(h) \/ PublishOwnership(h)
           \/ IAMUndo(h) \/ UnpublishUnmount(h) \/ UnpublishReturn(h)
  BY <1>3, QuietLossStep, Zenon DEF PublishBind, PublishRemount, PublishOwnership,
    IAMUndo, UnpublishUnmount, UnpublishReturn, iamDirs
<1>4. CASE IAMLock(h) \/ IAMMount(h) \/ IAMAddReference(h)
  BY <1>4, IAMAddsLoss, Zenon
<1>5. CASE IAMBind(h) \/ IAMRemount(h)
  <2>1. call[h].pc \in {"iam_bind", "iam_remount"} /\ UNCHANGED token
    BY <1>5, Zenon DEF IAMBind, IAMRemount, At
  <2>2. UNCHANGED refs \/ IAMBindFails(h)
    BY <1>5, Zenon DEF IAMBind, IAMRemount
  <2>3. QED
    BY <2>1, <2>2, QuietLossStep, BindFailsLoss, Zenon
<1>6. CASE \/ \E k \in Keys : CleanReference(h, k)
           \/ RemoveRefsDir(h) \/ UnmountGlobal(h) \/ RemoveKeyDir(h)
  BY <1>6, CleanLoss, Zenon
<1>7. QED
  BY <1>1, <1>2, <1>3, <1>4, <1>5, <1>6, Zenon DEF CallStep, HandlerStep

\* A pod with an IAM volume uses no other volume.
OneVolume == \A t, u \in Uses : t[1] = u[1] /\ t[2] \in IAMVolumes => t = u

\* A call that undoes its bind mount does nothing else.
LEMMA UndoOnly ==
  ASSUME NEW h \in Handlers, CallStep(h), At(h, "iam_undo")
  PROVE  IAMUndo(h)
<1>1. CASE \/ \E v \in Volumes : NodeStageVolume(h, v) \/ NodeUnstageVolume(h, v)
           \/ \E d \in Pods, v \in Volumes :
                NodePublishVolume(h, d, v) \/ NodeUnpublishVolume(h, d, v)
  BY <1>1, Zenon DEF NodeStageVolume, NodeUnstageVolume, NodePublishVolume,
    NodeUnpublishVolume, At
<1>2. CASE HandlerStep(h)
  <2>1. ~StageCheck(h) /\ ~StageMount(h) /\ ~UnstageUnmount(h)
    BY Zenon DEF StageCheck, StageMount, UnstageUnmount, At
  <2>2. ~PublishBind(h) /\ ~PublishRemount(h) /\ ~PublishOwnership(h)
    BY Zenon DEF PublishBind, PublishRemount, PublishOwnership, At
  <2>3. ~IAMLock(h) /\ ~IAMMount(h) /\ ~IAMAddReference(h) /\ ~IAMBind(h) /\ ~IAMRemount(h)
    BY Zenon DEF IAMLock, IAMMount, IAMAddReference, IAMBind, IAMRemount, At
  <2>4. ~UnpublishUnmount(h) /\ ~UnpublishReturn(h) /\ \A k \in Keys : ~CleanReference(h, k)
    BY Zenon DEF UnpublishUnmount, UnpublishReturn, CleanReference, At
  <2>5. ~RemoveRefsDir(h) /\ ~UnmountGlobal(h) /\ ~RemoveKeyDir(h)
    BY Zenon DEF RemoveRefsDir, UnmountGlobal, RemoveKeyDir, At
  <2>6. QED
    BY <1>2, <2>1, <2>2, <2>3, <2>4, <2>5, Zenon DEF HandlerStep
<1>3. QED
  BY <1>1, <1>2, Zenon DEF CallStep

\* A target that is being unmounted stays so, is unmounted, or a second thing fails.
LEMMA UndoingStep ==
  ASSUME IInv, IInv', UndoInv, NEW h \in Handlers, CallStep(h), OwnStep(h),
         NEW t \in Uses, Undoing(t)
  PROVE  Undoing(t)' \/ target'[t] = "none" \/ ~(faults' < 2)
<1>1. PICK g \in Handlers : At(g, "iam_undo") /\ Target(g) = t
  BY Zenon DEF Undoing
<1>2. CASE g # h
  <2>1. call'[g] = call[g]
    BY <1>2, Zenon DEF OwnStep
  <2>2. QED
    BY <1>1, <2>1, Zenon DEF Undoing, At, Target
<1>3. CASE g = h
  <2>1. IAMUndo(h) /\ call[h].pc \in TargetPCs
    BY <1>1, <1>3, UndoOnly, Zenon DEF At, TargetPCs, KeyPCs
  <2>2. SetTarget(h, "none") => target'[t] = "none"
    BY <1>1, <1>3, <2>1, SetTargetFact, Zenon
  <2>3. faults > 0
    BY <1>1, Zenon DEF UndoInv
  <2>4. Fault => ~(faults' < 2)
    BY <2>3 DEF Fault, Faults, IInv, TypeOK
  <2>5. QED
    BY <2>1, <2>2, <2>4, Zenon DEF IAMUndo
<1>4. QED
  BY <1>2, <1>3, Zenon

\* A step of a call keeps the reference and the token of what stays mounted.
LEMMA BoundStep ==
  ASSUME OneVolume, IInv, IInv', ReferenceInv, ReferenceInv', UndoInv, BoundKeepsReference,
         NEW h \in Handlers, CallStep(h), OwnStep(h), LossStep(h),
         faults' < 2 => faults < 2
  PROVE  BoundKeepsReference'
<1> SUFFICES ASSUME faults' < 2, NEW t \in Uses, t[2] \in IAMVolumes, target'[t] # "none"
             PROVE  (t[1] \in refs'[KeyOf[t]] \/ Undoing(t)') /\ token'[KeyOf[t]] # Nil
  BY Zenon DEF BoundKeepsReference
<1>1. t \in Targets /\ t[1] \in Pods /\ t = <<t[1], t[2]>>
  <2>1. t \in Targets
    BY Zenon
  <2>2. QED
    BY <2>1 DEF Targets
<1>2. PICK k \in Keys : k = KeyOf[t]
  BY <1>1, Zenon
<1>3. CallInv(h)
  BY Zenon DEF ReferenceInv
<1>4. Target(h)[1] = call[h].pod /\ Target(h)[2] = call[h].vol
  BY Zenon DEF Target
<1>5. CASE Undoing(t)'
  <2>1. PICK g \in Handlers : call'[g].pc = "iam_undo" /\ Target(g)' = t
    BY <1>5, Zenon DEF Undoing, At
  <2>2. CallInv(g)' /\ call'[g].pc \in SectionPCs
    BY <2>1, Zenon DEF ReferenceInv, SectionPCs
  <2>3. token'[k] # Nil
    BY <1>2, <2>1, <2>2, Zenon DEF CallInv
  <2>4. QED
    BY <1>2, <1>5, <2>3, Zenon
<1>6. CASE ~Undoing(t)'
  <2>1. ~Undoing(t)
    BY <1>6, UndoingStep, Zenon
  <2>2. target[t] = "none" => t = Target(h) /\ call[h].pc \in {"iam_bind", "iam_remount"}
    <3>1. target[t] = "none" => t = Target(h) /\ call[h].pc \in MountPCs
      BY <1>1, Zenon DEF OwnStep, TargetStep
    <3>2. t = Target(h) => call[h].pc \notin {"bind", "remount"}
      BY <1>3, <1>4, Zenon DEF CallInv
    <3>3. QED
      BY <3>1, <3>2, Zenon DEF MountPCs
  <2>3. t[1] \in refs[k] /\ token[k] # Nil
    <3>1. CASE target[t] # "none"
      BY <1>2, <2>1, <3>1, Zenon DEF BoundKeepsReference
    <3>2. CASE target[t] = "none"
      <4>1. call[h].pc \in SectionPCs /\ t = Target(h) /\ call[h].pc \in {"iam_bind", "iam_remount"}
        BY <2>2, <3>2, PCSets, Zenon
      <4>2. QED
        BY <1>2, <1>3, <1>4, <4>1, Zenon DEF CallInv
    <3>3. QED
      BY <3>1, <3>2, Zenon
  <2>4. token'[k] # Nil
    BY <2>3, Zenon DEF LossStep
  <2>5. ASSUME t[1] \notin refs'[k] PROVE FALSE
    <3>1. /\ t[1] = call[h].pod
          /\ \/ At(h, "clean")
             \/ /\ call[h].pc \in {"iam_bind", "iam_remount"}
                /\ At(h, "iam_undo")' /\ Target(h)' = Target(h)
      BY <2>3, <2>5, Zenon DEF LossStep
    <3>2. call[h].pc \in TargetPCs /\ (At(h, "clean") => call[h].pc \in CleanPCs)
      BY <3>1, PCSets, Zenon DEF At
    <3>3. Target(h) = t
      BY <1>3, <1>4, <3>1, <3>2, ZenonT(30) DEF CallInv, OneVolume
    <3>4. At(h, "clean")
      BY <1>6, <3>1, <3>3, Zenon DEF Undoing
    <3>5. target[t] = "none"
      BY <1>3, <3>2, <3>3, <3>4, Zenon DEF CallInv
    <3>6. QED
      BY <2>2, <3>4, <3>5, Zenon DEF At
  <2>6. QED
    BY <1>2, <2>4, <2>5, Zenon
<1>7. QED
  BY <1>5, <1>6, Zenon

\* Every step does.
LEMMA NextBound ==
  ASSUME OneVolume, IInv, IInv', ReferenceInv, ReferenceInv', UndoInv, BoundKeepsReference,
         [Next]_vars
  PROVE  BoundKeepsReference'
<1>1. faults' < 2 => faults < 2
  <2>1. faults <= faults'
    BY FaultsGrow, Zenon
  <2>2. QED
    BY <2>1 DEF IInv, TypeOK
<1>2. ASSUME NEW h \in Handlers, CallStep(h) PROVE BoundKeepsReference'
  BY <1>1, <1>2, CallReference, CallLoss, BoundStep, ZenonT(30)
<1>3. ASSUME UNCHANGED <<refs, token>>, \A t \in Targets : target[t] = "none" => target'[t] = "none",
             \A t \in Uses : Undoing(t) => Undoing(t)' \/ ~(faults' < 2)
      PROVE  BoundKeepsReference'
  BY <1>1, <1>3, Zenon DEF BoundKeepsReference
<1>4. UNCHANGED call => \A t \in Uses : Undoing(t) => Undoing(t)'
  BY Zenon DEF Undoing, At, Target
<1>5. CASE \/ \E d \in Pods : PodStart(d) \/ PodDelete(d)
           \/ UNCHANGED <<target, global, refsDir, refs, token, call, phase, gone, faults>>
  BY <1>3, <1>4, <1>5, Zenon DEF PodStart, PodDelete, mounts, iamDirs
<1>6. CASE DriverRestart \/ NodeReboot \/ \E v \in Volumes : Corrupt(v)
  <2>1. UNCHANGED <<refs, token>> /\ Fault
    BY <1>6, Zenon DEF DriverRestart, NodeReboot, Corrupt, iamDirs
  <2>2. ASSUME NEW t \in Uses, Undoing(t)
        PROVE  ~(faults' < 2)
    <3>1. faults > 0
      BY <2>2, Zenon DEF Undoing, UndoInv
    <3>2. QED
      BY <2>1, <3>1 DEF Fault, Faults, IInv, TypeOK
  <2>3. QED
    BY <1>3, <1>6, <2>1, <2>2, BreakMountsNothing, ZenonT(30)
<1>7. QED
  BY <1>2, <1>5, <1>6, NextCases, Zenon

\* As long as an IAM target is mounted and at most one thing has failed, the
\* pod's reference (or, while a failed publish undoes its mount, the key's lock)
\* and the token of its key are there, provided a pod with an IAM volume uses no
\* other volume: unpublish removes every reference of its pod.
THEOREM BoundReference ==
  ASSUME OneVolume
  PROVE  Spec => []BoundKeepsReference
<1>1. Init => BoundKeepsReference
  BY Zenon DEF Init, BoundKeepsReference
<1>2. IInv /\ IInv' /\ ReferenceInv /\ ReferenceInv' /\ UndoInv /\ BoundKeepsReference
        /\ [Next]_vars => BoundKeepsReference'
  BY NextBound, Zenon
<1>3. QED
  BY <1>1, <1>2, Invariance, ReferenceInvariance, PTL DEF Spec
=============================================================================
