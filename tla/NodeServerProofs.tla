-------------------------- MODULE NodeServerProofs --------------------------
(***************************************************************************)
(* The safety theorems about NodeServer, for every value of its constants. *)
(* IInv (in NodeServer) is inductive.  The first lemmas say what the       *)
(* bookkeeping operators do to a call and its locks, and which parts of    *)
(* IInv survive a step that leaves something alone; then comes one lemma   *)
(* per action.  The theorems follow from IInv.                             *)
(*                                                                         *)
(* With IInv, the global mounts of IAM volumes implement shared mounts.  Of*)
(* the node service's steps those of publishIAMVolume and                  *)
(* cleanUpIAMReferenceForKey change a global mount or its references; what *)
(* IInv says of the handler inside the key's critical section makes each of*)
(* them a step of SharedMount.                                             *)
(***************************************************************************)
EXTENDS GlobalMounts, NodeServer, TLAPS

USE NodeAssumption

-----------------------------------------------------------------------------
(* How the bookkeeping operators change a handler's call.                  *)

\* A call that starts has the given arguments; the others are untouched.
LEMMA StartFacts ==
  ASSUME TypeOK, NEW h \in Handlers, NEW l \in PCs, NEW d \in Pods \cup {Nil},
         NEW v \in Volumes \cup {Nil}, NEW s \in BOOLEAN, Start(h, l, d, v, s)
  PROVE  /\ call' \in [Handlers -> Calls]
         /\ call'[h].pc = l /\ call'[h].pod = d /\ call'[h].vol = v
         /\ call'[h].key = Nil
         /\ \A g \in Handlers \ {h} : call'[g] = call[g]
BY Zenon DEF TypeOK, Start, Call, Calls

\* A call that moves on keeps its pod and volume; the others are untouched.
LEMMA BecomeFacts ==
  ASSUME TypeOK, NEW h \in Handlers, NEW l \in PCs, NEW k \in Keys \cup {Nil},
         NEW t \in SUBSET Keys, NEW e \in BOOLEAN, Become(h, l, k, t, e)
  PROVE  /\ call' \in [Handlers -> Calls]
         /\ call'[h].pc = l /\ call'[h].pod = call[h].pod
         /\ call'[h].vol = call[h].vol /\ call'[h].key = k
         /\ \A g \in Handlers \ {h} : call'[g] = call[g]
BY Zenon DEF TypeOK, Become, Call, Calls

\* Goto changes nothing of a call but where it is.
LEMMA GotoFacts ==
  ASSUME TypeOK, NEW h \in Handlers, NEW l \in PCs, Goto(h, l)
  PROVE  /\ call' \in [Handlers -> Calls]
         /\ call'[h].pc = l /\ call'[h].pod = call[h].pod
         /\ call'[h].vol = call[h].vol /\ call'[h].key = call[h].key
         /\ \A g \in Handlers \ {h} : call'[g] = call[g]
BY Zenon DEF TypeOK, Goto, Become, Call, Calls

\* A call that returns is idle; the other calls are untouched.
LEMMA ReturnFacts ==
  ASSUME TypeOK, NEW h \in Handlers, Return(h)
  PROVE  /\ call' \in [Handlers -> Calls]
         /\ call'[h].pc = "idle"
         /\ locks' = locks \ Held(h)
         /\ \A g \in Handlers \ {h} : call'[g] = call[g]
BY Zenon DEF TypeOK, Return, Call, Calls, IdleCall, PCs

\* The failure budget is respected whether or not a step fails.
LEMMA FaultType ==
  ASSUME TypeOK, NoFault \/ Fault
  PROVE  faults' \in 0 .. MaxFaults
BY DEF TypeOK, NoFault, Fault, Faults

\* What a failing unmountPath leaves behind is a mount state.
LEMMA UnmountErrorsType ==
  ASSUME NEW m \in MountStates
  PROVE  UnmountErrors(m) \subseteq MountStates
BY Zenon DEF UnmountErrors, MountStates

\* A step of one call keeps volumeLocks exact if it trades the locks the call was
\* entitled to for those it is entitled to afterwards and takes nobody else's.
LEMMA LockStep ==
  ASSUME LocksExclusive, NEW h \in Handlers,
         \A g \in Handlers \ {h} : call'[g] = call[g],
         locks' = (locks \ Held(h)) \cup Held(h)',
         Held(h)' \cap (locks \ Held(h)) = {}
  PROVE  LocksExclusive'
<1>1. \A g \in Handlers \ {h} : Held(g)' = Held(g)
  BY Zenon DEF Held
<1>2. \A g \in Handlers \ {h} : Held(g) \subseteq locks \ Held(h)
  BY Zenon DEF LocksExclusive
<1> HIDE DEF Held
<1>3. \A g \in Handlers : /\ Held(g)' \subseteq locks'
                          /\ \A f \in Handlers \ {g} : Held(f)' \cap Held(g)' = {}
  BY <1>1, <1>2 DEF LocksExclusive
<1>4. \A l \in locks \ Held(h) : \E g \in Handlers \ {h} : l \in Held(g)
  BY Zenon DEF LocksExclusive
<1>5. \A l \in locks' : \E g \in Handlers : l \in Held(g)'
  BY <1>1, <1>4
<1>6. QED
  BY <1>3, <1>5, Zenon DEF LocksExclusive

\* A step that changes neither calls nor locks keeps volumeLocks exact.
LEMMA LockFrame ==
  ASSUME LocksExclusive, UNCHANGED <<call, locks>>
  PROVE  LocksExclusive'
<1>1. \A h \in Handlers : Held(h)' = Held(h)
  BY Zenon DEF Held
<1> HIDE DEF Held
<1>2. QED
  BY <1>1 DEF LocksExclusive

\* The keys of staging paths, target paths and global mounts never collide in
\* volumeLocks, and different paths have different keys.
LEMMA LockNames ==
  /\ \A v, d, w : StageLock(v) # TargetLock(d, w)
  /\ \A v, k : StageLock(v) # KeyLock(k)
  /\ \A d, w, k : TargetLock(d, w) # KeyLock(k)
  /\ \A v, w : StageLock(v) = StageLock(w) => v = w
  /\ \A k, j : KeyLock(k) = KeyLock(j) => k = j
  /\ \A d, v, e, w : TargetLock(d, v) = TargetLock(e, w) => d = e /\ v = w
BY Zenon DEF StageLock, TargetLock, KeyLock

\* Two calls inside critical sections of one kind work on different volumes,
\* targets or keys.
LEMMA Exclusion ==
  ASSUME LocksExclusive, NEW g \in Handlers, NEW h \in Handlers, g # h
  PROVE  /\ call[g].pc \in StagePCs /\ call[h].pc \in StagePCs
              => call[g].vol # call[h].vol
         /\ call[g].pc \in TargetPCs /\ call[h].pc \in TargetPCs
              => Target(g) # Target(h)
         /\ call[g].pc \in KeyPCs /\ call[h].pc \in KeyPCs
              => call[g].key # call[h].key
<1>1. Held(g) \cap Held(h) = {}
  BY Zenon DEF LocksExclusive
<1>2. call[g].pc \in StagePCs /\ call[h].pc \in StagePCs
        => call[g].vol # call[h].vol
  BY <1>1, Zenon DEF Held
<1>3. call[g].pc \in TargetPCs /\ call[h].pc \in TargetPCs
        => Target(g) # Target(h)
  BY <1>1, Zenon DEF Held, Target
<1>4. call[g].pc \in KeyPCs /\ call[h].pc \in KeyPCs
        => call[g].key # call[h].key
  BY <1>1, Zenon DEF Held
<1>5. QED
  BY <1>2, <1>3, <1>4, Zenon

\* The deferred Release calls of a returning call keep volumeLocks exact.
LEMMA LockReturn ==
  ASSUME TypeOK, LocksExclusive, NEW h \in Handlers, Return(h)
  PROVE  LocksExclusive'
<1>1. Held(h)' = {}
  BY ReturnFacts, Zenon DEF Held, StagePCs, TargetPCs, KeyPCs
<1>2. QED
  BY <1>1, ReturnFacts, LockStep, Zenon

\* The TryAcquire at the entry of an RPC keeps volumeLocks exact.
LEMMA LockStart ==
  ASSUME TypeOK, LocksExclusive, NEW h \in Handlers, NEW l \in PCs,
         NEW d \in Pods \cup {Nil}, NEW v \in Volumes \cup {Nil}, NEW s \in BOOLEAN,
         At(h, "idle"), Start(h, l, d, v, s),
         \/ l \in StagePCs /\ TryAcquire(StageLock(v))
         \/ l \in TargetPCs \ KeyPCs /\ TryAcquire(TargetLock(d, v))
  PROVE  LocksExclusive'
<1>1. Held(h) = {}
  BY Zenon DEF Held, At, StagePCs, TargetPCs, KeyPCs
<1>2. \/ Held(h)' = {StageLock(v)} /\ TryAcquire(StageLock(v))
      \/ Held(h)' = {TargetLock(d, v)} /\ TryAcquire(TargetLock(d, v))
  BY StartFacts DEF Held, StagePCs, TargetPCs, KeyPCs
<1>3. QED
  BY <1>1, <1>2, StartFacts, LockStep DEF TryAcquire

\* A step inside the same critical sections keeps volumeLocks exact.
LEMMA LockGoto ==
  ASSUME TypeOK, LocksExclusive, NEW h \in Handlers, NEW l \in PCs,
         Goto(h, l), UNCHANGED locks,
         call[h].pc \in StagePCs <=> l \in StagePCs,
         call[h].pc \in TargetPCs <=> l \in TargetPCs,
         call[h].pc \in KeyPCs <=> l \in KeyPCs
  PROVE  LocksExclusive'
<1>1. Held(h)' = Held(h)
  BY GotoFacts DEF Held
<1>2. QED
  BY <1>1, GotoFacts, LockStep DEF LocksExclusive

\* A step outside every key's critical section keeps volumeLocks exact.
LEMMA LockStay ==
  ASSUME TypeOK, LocksExclusive, NEW h \in Handlers,
         NEW l \in TargetPCs \ KeyPCs, NEW t \in SUBSET Keys, NEW e \in BOOLEAN,
         Become(h, l, Nil, t, e),
         call[h].pc \in TargetPCs \ KeyPCs, UNCHANGED locks
  PROVE  LocksExclusive'
<1>0. l \in PCs
  BY Zenon DEF PCs
<1>a. /\ call'[h].pc = l /\ call'[h].pod = call[h].pod
      /\ call'[h].vol = call[h].vol /\ call'[h].key = Nil
      /\ \A g \in Handlers \ {h} : call'[g] = call[g]
  BY <1>0, BecomeFacts
<1>c. l \notin StagePCs /\ call[h].pc \notin StagePCs /\ KeyPCs \subseteq TargetPCs
  BY Zenon DEF StagePCs, TargetPCs, KeyPCs
<1>1. Held(h)' = Held(h)
  BY <1>a, <1>c, Zenon DEF Held
<1>2. QED
  BY <1>a, <1>1, LockStep DEF LocksExclusive

\* Entering a key's critical section with TryAcquire keeps volumeLocks exact.
LEMMA LockEnter ==
  ASSUME TypeOK, LocksExclusive, NEW h \in Handlers,
         NEW l \in KeyPCs, NEW k \in Keys,
         NEW t \in SUBSET Keys, NEW e \in BOOLEAN, Become(h, l, k, t, e),
         call[h].pc \in TargetPCs \ KeyPCs, TryAcquire(KeyLock(k))
  PROVE  LocksExclusive'
<1>0. l \in PCs
  BY Zenon DEF PCs, TargetPCs
<1>a. /\ call'[h].pc = l /\ call'[h].pod = call[h].pod
      /\ call'[h].vol = call[h].vol /\ call'[h].key = k
      /\ \A g \in Handlers \ {h} : call'[g] = call[g]
  BY <1>0, BecomeFacts
<1>c. l \notin StagePCs /\ call[h].pc \notin StagePCs /\ KeyPCs \subseteq TargetPCs
  BY Zenon DEF StagePCs, TargetPCs, KeyPCs
<1>1. Held(h)' = Held(h) \cup {KeyLock(k)}
  BY <1>a, <1>c, Zenon DEF Held
<1>2. QED
  BY <1>a, <1>1, LockStep DEF LocksExclusive, TryAcquire

\* Leaving a key's critical section with Release keeps volumeLocks exact.
LEMMA LockLeave ==
  ASSUME TypeOK, LocksExclusive, NEW h \in Handlers,
         NEW l \in TargetPCs \ KeyPCs, NEW t \in SUBSET Keys, NEW e \in BOOLEAN,
         Become(h, l, Nil, t, e), call[h].pc \in KeyPCs,
         locks' = locks \ {KeyLock(call[h].key)}
  PROVE  LocksExclusive'
<1>0. l \in PCs
  BY Zenon DEF PCs
<1>a. /\ call'[h].pc = l /\ call'[h].pod = call[h].pod
      /\ call'[h].vol = call[h].vol /\ call'[h].key = Nil
      /\ \A g \in Handlers \ {h} : call'[g] = call[g]
  BY <1>0, BecomeFacts
<1>c. l \notin StagePCs /\ call[h].pc \notin StagePCs /\ KeyPCs \subseteq TargetPCs
  BY Zenon DEF StagePCs, TargetPCs, KeyPCs
<1>1. /\ Held(h) = {TargetLock(call[h].pod, call[h].vol), KeyLock(call[h].key)}
      /\ Held(h)' = {TargetLock(call[h].pod, call[h].vol)}
  BY <1>a, <1>c, Zenon DEF Held
<1>2. QED
  BY <1>a, <1>1, LockStep, LockNames DEF LocksExclusive

\* The call of h is over, and the other calls and the locks are in order.
Ends(h) ==
  /\ call' \in [Handlers -> Calls] /\ LocksExclusive'
  /\ \A g \in Handlers \ {h} : call'[g] = call[g]
  /\ call'[h].pc = "idle"

\* The call of h is at l in the critical section of key k (or of none).
Moves(h, l, k) ==
  /\ call' \in [Handlers -> Calls] /\ LocksExclusive'
  /\ \A g \in Handlers \ {h} : call'[g] = call[g]
  /\ call'[h].pc = l /\ call'[h].key = k
  /\ call'[h].pod = call[h].pod /\ call'[h].vol = call[h].vol

\* LockReturn and ReturnFacts in the form the actions use.
LEMMA ReturnEnds ==
  ASSUME IInv, NEW h \in Handlers, Return(h)
  PROVE  Ends(h)
BY ReturnFacts, LockReturn, Zenon DEF IInv, Ends

\* LockGoto and GotoFacts in the form the actions use.
LEMMA GotoMoves ==
  ASSUME IInv, NEW h \in Handlers, NEW l \in PCs, Goto(h, l), UNCHANGED locks,
         call[h].pc \in StagePCs <=> l \in StagePCs,
         call[h].pc \in TargetPCs <=> l \in TargetPCs,
         call[h].pc \in KeyPCs <=> l \in KeyPCs
  PROVE  Moves(h, l, call[h].key)
BY GotoFacts, LockGoto, Zenon DEF IInv, Moves

\* LockStay and BecomeFacts in the form the actions use.
LEMMA StayMoves ==
  ASSUME IInv, NEW h \in Handlers, NEW l \in TargetPCs \ KeyPCs,
         NEW t \in SUBSET Keys, NEW e \in BOOLEAN, Become(h, l, Nil, t, e),
         call[h].pc \in TargetPCs \ KeyPCs, UNCHANGED locks
  PROVE  Moves(h, l, Nil)
<1>1. l \in PCs
  BY Zenon DEF PCs
<1>2. LocksExclusive'
  BY LockStay DEF IInv
<1>3. QED
  BY <1>1, <1>2, BecomeFacts DEF IInv, Moves

\* LockEnter and BecomeFacts in the form the actions use.
LEMMA EnterMoves ==
  ASSUME IInv, NEW h \in Handlers, NEW l \in KeyPCs, NEW k \in Keys,
         NEW t \in SUBSET Keys, NEW e \in BOOLEAN, Become(h, l, k, t, e),
         call[h].pc \in TargetPCs \ KeyPCs, TryAcquire(KeyLock(k))
  PROVE  Moves(h, l, k)
<1>1. l \in PCs
  BY Zenon DEF PCs, TargetPCs
<1>2. LocksExclusive'
  BY LockEnter DEF IInv
<1>3. QED
  BY <1>1, <1>2, BecomeFacts DEF IInv, Moves

\* LockLeave and BecomeFacts in the form the actions use.
LEMMA LeaveMoves ==
  ASSUME IInv, NEW h \in Handlers, NEW l \in TargetPCs \ KeyPCs,
         NEW t \in SUBSET Keys, NEW e \in BOOLEAN, Become(h, l, Nil, t, e),
         call[h].pc \in KeyPCs, locks' = locks \ {KeyLock(call[h].key)}
  PROVE  Moves(h, l, Nil)
<1>1. l \in PCs
  BY Zenon DEF PCs
<1>2. LocksExclusive'
  BY LockLeave DEF IInv
<1>3. QED
  BY <1>1, <1>2, BecomeFacts DEF IInv, Moves

\* KeyInv survives a step that touches no key's state and enters no place KeyInv
\* speaks of.
LEMMA KeyFrame ==
  ASSUME KeyInv, NEW h \in Handlers, UNCHANGED <<refs, global, refsDir>>,
         \A g \in Handlers \ {h} : call'[g] = call[g],
         call'[h].pc \notin {"unmount_global", "rm_key", "iam_mount", "iam_ref", "iam_bind"}
  PROVE  KeyInv'
BY DEF KeyInv, At

\* KeyInv survives a step that only removes references and makes directories.
LEMMA KeyShrink ==
  ASSUME IInv, NEW h \in Handlers, UNCHANGED global, refsDir \subseteq refsDir',
         \A k \in Keys : refs'[k] \subseteq refs[k],
         \A g \in Handlers \ {h} : call'[g] = call[g],
         call'[h].pc \notin {"unmount_global", "rm_key", "iam_ref", "iam_bind"},
         call'[h].pc = "iam_mount" => call'[h].key \in refsDir'
  PROVE  KeyInv'
<1>1. \A g \in Handlers : call[g].pc \in KeyPCs => call[g].key \in Keys
  BY Zenon DEF IInv, WellFormed
<1>2. QED
  BY <1>1 DEF IInv, KeyInv, At, KeyPCs

\* KeyInv survives a step of the holder of a key's lock that changes the state of
\* that key alone.
LEMMA KeyOwn ==
  ASSUME IInv, NEW h \in Handlers, call[h].pc \in KeyPCs,
         \A g \in Handlers \ {h} : call'[g] = call[g],
         \A k \in Keys \ {call[h].key} :
           refs'[k] = refs[k] /\ global'[k] = global[k] /\ (k \in refsDir => k \in refsDir'),
         call'[h].pc \in {"unmount_global", "rm_key"} => refs'[call'[h].key] = {},
         call'[h].pc = "rm_key" => global'[call'[h].key] = "none",
         call'[h].pc \in {"iam_ref", "iam_bind"} => global'[call'[h].key] # "none",
         call'[h].pc \in {"iam_mount", "iam_ref"} => call'[h].key \in refsDir'
  PROVE  KeyInv'
<1>1. \A g \in Handlers \ {h} : call[g].pc \in KeyPCs => call[g].key \in Keys \ {call[h].key}
  BY Exclusion, Zenon DEF IInv, WellFormed
<1>2. QED
  BY <1>1, SMTT(30) DEF IInv, KeyInv, At, KeyPCs

\* StageInv survives a step that leaves staging and the kubelet's view alone.
LEMMA StageFrame ==
  ASSUME StageInv, NEW h \in Handlers, UNCHANGED <<staging, staged, phase, gone>>,
         \A g \in Handlers \ {h} : call'[g] = call[g],
         call'[h].pc \notin StagePCs \cup {"bind"},
         call'[h].pc \in UnpublishPCs => phase[call'[h].pod] = "deleted"
  PROVE  StageInv'
BY DEF StageInv, At, Target

-----------------------------------------------------------------------------
(* NodeStageVolume and NodeUnstageVolume preserve IInv.                    *)

\* NodeStageVolume of an IAM volume, which does nothing, preserves IInv.
LEMMA StageIAMStep ==
  ASSUME IInv, NEW v \in Volumes, StageIAM(v)
  PROVE  IInv'
<1> USE DEF IInv, mounts, iamDirs, kubelet
<1>1. TypeOK' /\ WellFormed'
  BY Zenon DEF StageIAM, TypeOK, WellFormed
<1>2. LocksExclusive'
  BY LockFrame, Zenon DEF StageIAM
<1>3. KeyInv'
  BY Zenon DEF StageIAM, KeyInv, At
<1>4. StageInv'
  BY DEF StageIAM, StageInv, TypeOK, At, Target
<1>5. QED
  BY <1>1, <1>2, <1>3, <1>4, Zenon

\* The first part of NodeStageVolume preserves IInv.
LEMMA NodeStageVolumeStep ==
  ASSUME IInv, NEW h \in Handlers, NEW v \in Volumes, NodeStageVolume(h, v)
  PROVE  IInv'
<1> USE DEF IInv, mounts, iamDirs, kubelet
<1>1. CASE UNCHANGED <<staging, locks, call>> /\ StageLock(v) \notin locks
  <2>1. TypeOK' /\ WellFormed'
    BY <1>1, ZenonT(30) DEF NodeStageVolume, TypeOK, WellFormed
  <2>2. LocksExclusive'
    BY <1>1, LockFrame, Zenon
  <2>3. KeyInv'
    BY <1>1, Zenon DEF NodeStageVolume, KeyInv, At
  <2>4. \A g \in Handlers : call[g].pc \in StagePCs => call[g].vol # v
    BY <1>1, Zenon DEF LocksExclusive, Held
  <2>5. StageInv'
    <3>1. staged' = [staged EXCEPT ![v] = "yes"] /\ staging[v] # "none"
      BY <1>1, ZenonT(30) DEF NodeStageVolume, TryAcquire
    <3>2. UNCHANGED <<phase, gone>>
      BY Zenon DEF NodeStageVolume
    <3>3. \A w \in Volumes \ IAMVolumes : staged'[w] = "yes" => staging'[w] # "none"
      BY <1>1, <3>1, Zenon DEF StageInv, TypeOK
    <3>4. QED
      BY <1>1, <2>4, <3>1, <3>2, <3>3 DEF StageInv, TypeOK, At, Target
  <2>6. QED
    BY <2>1, <2>2, <2>3, <2>5, Zenon
<1>2. CASE /\ TryAcquire(StageLock(v)) /\ Start(h, "stage_check", Nil, v, FALSE)
           /\ staged' = [staged EXCEPT ![v] = "maybe"]
           /\ staging' = [staging EXCEPT ![v] = "none"]
  <2>1. "stage_check" \in PCs /\ "stage_check" \in StagePCs
    BY Zenon DEF PCs, StagePCs
  <2>2. /\ call' \in [Handlers -> Calls]
        /\ call'[h].pc = "stage_check" /\ call'[h].vol = v
        /\ \A g \in Handlers \ {h} : call'[g] = call[g]
    BY <1>2, <2>1, StartFacts, ZenonT(60)
  <2>3. TypeOK' /\ WellFormed'
    BY <1>2, <2>2, Zenon
       DEF NodeStageVolume, TypeOK, WellFormed, MountStates, StagePCs, TargetPCs, KeyPCs
  <2>4. LocksExclusive'
    BY <1>2, <2>1, LockStart, ZenonT(30) DEF NodeStageVolume
  <2>5. KeyInv'
    BY <2>2, KeyFrame, Zenon DEF NodeStageVolume
  <2>6. StageInv'
    BY <1>2, <2>2
       DEF NodeStageVolume, StageInv, TypeOK, At, Target, UnpublishPCs
  <2>7. QED
    BY <2>3, <2>4, <2>5, <2>6, Zenon
<1>3. QED
  BY <1>1, <1>2, ZenonT(30) DEF NodeStageVolume

\* The filesystem name check of NodeStageVolume preserves IInv.
LEMMA StageCheckStep ==
  ASSUME IInv, NEW h \in Handlers, StageCheck(h)
  PROVE  IInv'
<1> USE DEF IInv, mounts, iamDirs, kubelet
<1>1. CASE Return(h)
  <2>0. faults' \in 0 .. MaxFaults
    BY FaultType, Zenon DEF StageCheck
  <2>1. TypeOK' /\ WellFormed'
    BY <1>1, <2>0, ReturnFacts, SMTT(30)
       DEF StageCheck, TypeOK, WellFormed, StagePCs, TargetPCs, KeyPCs
  <2>2. LocksExclusive'
    BY <1>1, LockReturn, Zenon
  <2>3. KeyInv'
    BY <1>1, ReturnFacts, KeyFrame, Zenon DEF StageCheck
  <2>4. StageInv'
    BY <1>1, ReturnFacts, StageFrame, Zenon DEF StageCheck, StagePCs, UnpublishPCs
  <2>5. QED
    BY <2>1, <2>2, <2>3, <2>4, Zenon
<1>2. CASE Goto(h, "stage_mount") /\ UNCHANGED locks
  <2>1. "stage_mount" \in PCs
    BY Zenon DEF PCs, StagePCs
  <2>2. TypeOK' /\ WellFormed'
    <3>1. faults' \in 0 .. MaxFaults
      BY FaultType, Zenon DEF StageCheck
    <3>2. QED
      BY <1>2, <2>1, <3>1, GotoFacts
         DEF StageCheck, At, TypeOK, WellFormed, StagePCs, TargetPCs, KeyPCs
  <2>3. LocksExclusive'
    BY <1>2, <2>1, LockGoto, ZenonT(30) DEF StageCheck, At, StagePCs, TargetPCs, KeyPCs
  <2>4. /\ call'[h].pc = "stage_mount" /\ call'[h].vol = call[h].vol
        /\ \A g \in Handlers \ {h} : call'[g] = call[g]
    BY <1>2, <2>1, GotoFacts, Zenon
  <2>5. KeyInv'
    BY <2>4, KeyFrame, Zenon DEF StageCheck
  <2>6. StageInv'
    <3>1. UNCHANGED <<staged, staging, gone, phase>> /\ call[h].pc \in StagePCs
      BY Zenon DEF StageCheck, At, StagePCs
    <3>2. ASSUME NEW g \in Handlers \ {h}
          PROVE  /\ call'[g].pc \in StagePCs /\ call'[g].vol \notin IAMVolumes
                      => staged'[call'[g].vol] # "yes"
                 /\ At(g, "bind")' =>
                      /\ call'[g].vol \notin IAMVolumes /\ staged'[call'[g].vol] = "yes"
                      /\ Target(g)' \in Uses \ gone' /\ phase'[call'[g].pod] # "pending"
                 /\ call'[g].pc \in UnpublishPCs => phase'[call'[g].pod] = "deleted"
      BY <2>4, <3>1, <3>2, ZenonT(30) DEF StageInv, At, Target
    <3>3. call'[h].pc \notin UnpublishPCs /\ ~At(h, "bind")'
      BY <2>4, Zenon DEF At, UnpublishPCs
    <3>4. call'[h].vol \notin IAMVolumes => staged'[call'[h].vol] # "yes"
      BY <2>4, <3>1, Zenon DEF StageInv
    <3>5. QED
      BY <3>1, <3>2, <3>3, <3>4, ZenonT(30) DEF StageInv
  <2>7. QED
    BY <2>2, <2>3, <2>5, <2>6, Zenon
<1>3. QED
  BY <1>1, <1>2, Zenon DEF StageCheck

\* The mount of NodeStageVolume preserves IInv.
LEMMA StageMountStep ==
  ASSUME IInv, NEW h \in Handlers, StageMount(h)
  PROVE  IInv'
<1> USE DEF IInv, mounts, iamDirs, kubelet
<1>1. TypeOK' /\ WellFormed'
  BY ReturnFacts DEF StageMount, At, TypeOK, WellFormed, MountStates, StagePCs,
                     TargetPCs, KeyPCs, Fault, Faults, NoFault
<1>2. LocksExclusive'
  BY LockReturn, Zenon DEF StageMount
<1>3. KeyInv'
  BY ReturnFacts, KeyFrame, Zenon DEF StageMount
<1>4. \A g \in Handlers \ {h} : call[g].pc \in StagePCs => call[g].vol # call[h].vol
  BY Exclusion, Zenon DEF StageMount, At, StagePCs
<1>5. call[h].vol \in Volumes
  BY Zenon DEF StageMount, At, WellFormed, StagePCs
<1>6. StageInv'
  <2>1. \A v \in Volumes \ IAMVolumes : staged'[v] = "yes" => staging'[v] # "none"
    BY <1>5, Zenon DEF StageMount, StageInv, TypeOK
  <2>2. \A v \in Volumes : v # call[h].vol \/ staged[v] = "yes" => staged'[v] = staged[v]
    BY <1>5 DEF StageMount, TypeOK
  <2>3. UNCHANGED <<phase, gone>> /\ call'[h].pc \notin StagePCs \cup {"bind"} \cup UnpublishPCs
    BY ReturnFacts, Zenon DEF StageMount, StagePCs, UnpublishPCs
  <2>4. \A g \in Handlers \ {h} : call'[g] = call[g]
    BY ReturnFacts, Zenon DEF StageMount
  <2>5. \A g \in Handlers \ {h} :
          /\ call[g].pc \in StagePCs => call[g].vol \in Volumes
          /\ At(g, "bind") => call[g].vol \in Volumes
    BY Zenon DEF WellFormed, TargetPCs, At
  <2>6. QED
    BY <1>4, <2>1, <2>2, <2>3, <2>4, <2>5 DEF StageInv, At, Target
<1>7. QED
  BY <1>1, <1>2, <1>3, <1>6, Zenon

\* The entry of NodeUnstageVolume preserves IInv: no call is about to bind from the
\* staging path.
LEMMA NodeUnstageVolumeStep ==
  ASSUME IInv, NEW h \in Handlers, NEW v \in Volumes, NodeUnstageVolume(h, v)
  PROVE  IInv'
<1> USE DEF IInv, mounts, iamDirs, kubelet
<1>1. "unstage" \in PCs /\ "unstage" \in StagePCs
  BY Zenon DEF PCs, StagePCs
<1>2. /\ call' \in [Handlers -> Calls]
      /\ call'[h].pc = "unstage" /\ call'[h].vol = v
      /\ \A g \in Handlers \ {h} : call'[g] = call[g]
  BY <1>1, StartFacts, ZenonT(60) DEF NodeUnstageVolume
<1>3. TypeOK' /\ WellFormed'
  BY <1>2, Zenon DEF NodeUnstageVolume, TypeOK, WellFormed, StagePCs, TargetPCs, KeyPCs
<1>4. LocksExclusive'
  BY <1>1, LockStart, ZenonT(30) DEF NodeUnstageVolume
<1>5. KeyInv'
  BY <1>2, KeyFrame, Zenon DEF NodeUnstageVolume
<1>6. \A g \in Handlers : At(g, "bind") => call[g].vol # v
  BY ZenonT(30) DEF NodeUnstageVolume, StageInv, Target, WellFormed, At, TargetPCs
<1>7. StageInv'
  BY <1>2, <1>6 DEF NodeUnstageVolume, StageInv, TypeOK, At, Target, UnpublishPCs
<1>8. QED
  BY <1>3, <1>4, <1>5, <1>7, Zenon

\* The unmount of NodeUnstageVolume preserves IInv.
LEMMA UnstageUnmountStep ==
  ASSUME IInv, NEW h \in Handlers, UnstageUnmount(h)
  PROVE  IInv'
<1> USE DEF IInv, mounts, iamDirs, kubelet
<1>1. call[h].vol \in Volumes /\ call[h].pc \in StagePCs
  BY Zenon DEF UnstageUnmount, At, WellFormed, StagePCs
<1>2. TypeOK' /\ WellFormed'
  <2>1. TypeOK'
    <3>1. faults' \in 0 .. MaxFaults
      BY FaultType, Zenon DEF UnstageUnmount
    <3>2. call' \in [Handlers -> Calls]
      BY ReturnFacts, Zenon DEF UnstageUnmount
    <3>3. /\ staging' \in [Volumes -> MountStates]
          /\ staged' \in [Volumes -> {"no", "maybe", "yes"}]
      BY <1>1, SMTT(30) DEF UnstageUnmount, TypeOK, MountStates, UnmountErrors
    <3>4. QED
      BY <3>1, <3>2, <3>3, Zenon DEF UnstageUnmount, TypeOK
  <2>2. WellFormed'
    BY ReturnFacts DEF UnstageUnmount, WellFormed, StagePCs, TargetPCs, KeyPCs
  <2>3. QED
    BY <2>1, <2>2
<1>3. LocksExclusive'
  BY LockReturn, Zenon DEF UnstageUnmount
<1>4. KeyInv'
  BY ReturnFacts, KeyFrame, Zenon DEF UnstageUnmount
<1>5. StageInv'
  <2>1. \A v \in Volumes \ IAMVolumes : staged'[v] = "yes" => staging'[v] # "none"
    BY <1>1 DEF UnstageUnmount, StageInv, TypeOK
  <2>2. \A v \in Volumes : staged'[v] = "yes" => staged[v] = "yes"
    BY <1>1, ZenonT(30) DEF UnstageUnmount, TypeOK
  <2>3. \A v \in Volumes \ IAMVolumes : staged[v] = "yes" => staged'[v] = "yes"
    BY <1>1 DEF UnstageUnmount, StageInv, TypeOK
  <2>4. UNCHANGED <<phase, gone>> /\ call'[h].pc \notin StagePCs \cup {"bind"} \cup UnpublishPCs
    BY ReturnFacts, Zenon DEF UnstageUnmount, StagePCs, UnpublishPCs
  <2>5. \A g \in Handlers \ {h} : call'[g] = call[g]
    BY ReturnFacts, Zenon DEF UnstageUnmount
  <2>6. \A g \in Handlers \ {h} :
          /\ call[g].pc \in StagePCs => call[g].vol \in Volumes
          /\ At(g, "bind") => call[g].vol \in Volumes
    BY Zenon DEF WellFormed, TargetPCs, At
  <2>7. QED
    BY <2>1, <2>2, <2>3, <2>4, <2>5, <2>6, SMTT(30) DEF StageInv, At, Target
<1>6. QED
  BY <1>2, <1>3, <1>4, <1>5, Zenon


(* NodePublishVolume and publishIAMVolume.                                 *)

\* The entry of NodePublishVolume preserves IInv.
LEMMA NodePublishVolumeStep ==
  ASSUME IInv, NEW h \in Handlers, NEW d \in Pods, NEW v \in Volumes,
         NodePublishVolume(h, d, v)
  PROVE  IInv'
<1> USE DEF IInv, mounts, iamDirs, kubelet
<1> DEFINE l == IF v \in IAMVolumes THEN "iam_lock" ELSE "bind"
           s == target[<<d, v>>] \in {"bind", "ok"}
<1>1. /\ l \in PCs /\ l \in TargetPCs \ KeyPCs /\ s \in BOOLEAN
      /\ Start(h, l, d, v, s) /\ At(h, "idle") /\ TryAcquire(TargetLock(d, v))
  BY DEF NodePublishVolume, PCs, TargetPCs, KeyPCs
<1>2. LocksExclusive'
  <2> HIDE DEF l, s
  <2> QED
    BY <1>1, LockStart
<1>3. /\ call' \in [Handlers -> Calls]
      /\ call'[h].pc = l /\ call'[h].pod = d /\ call'[h].vol = v
      /\ \A g \in Handlers \ {h} : call'[g] = call[g]
  <2> HIDE DEF l, s
  <2> QED
    BY <1>1, StartFacts
<1>4. TypeOK' /\ WellFormed'
  <2>1. TypeOK'
    BY <1>3 DEF NodePublishVolume, TypeOK, MountStates, Targets, Examined
  <2>2. WellFormed'
    BY <1>3, Zenon DEF WellFormed, StagePCs, TargetPCs, KeyPCs
  <2>3. QED
    BY <2>1, <2>2, ZenonT(30)
<1>5. KeyInv'
  BY <1>3, KeyFrame, ZenonT(30) DEF NodePublishVolume
<1>6. StageInv'
  <2>1. UNCHANGED <<staging, staged, phase, gone>>
    BY Zenon DEF NodePublishVolume
  <2>2. <<d, v>> \in Uses \ gone /\ phase[d] = "running" /\ staged[v] = "yes"
    BY Zenon DEF NodePublishVolume, Wanted, StageInv
  <2>3. l \notin StagePCs \cup UnpublishPCs /\ (l = "bind" => v \notin IAMVolumes)
    BY Zenon DEF StagePCs, UnpublishPCs
  <2> HIDE DEF l
  <2>4. QED
    BY <1>3, <2>1, <2>2, <2>3 DEF StageInv, At, Target
<1>7. QED
  BY <1>2, <1>4, <1>5, <1>6, Zenon

\* The bind mount from the staging path preserves IInv.
LEMMA PublishBindStep ==
  ASSUME IInv, NEW h \in Handlers, PublishBind(h)
  PROVE  IInv'
<1> USE DEF IInv, mounts, iamDirs, kubelet
<1>1. /\ "chown" \in PCs /\ "remount" \in PCs /\ call[h].pc = "bind"
      /\ \A l \in {"bind", "chown", "remount"} : l \in TargetPCs /\ l \notin StagePCs \cup KeyPCs
  BY Zenon DEF PublishBind, At, PCs, TargetPCs, StagePCs, KeyPCs
<1>2. Ends(h) \/ Moves(h, "chown", call[h].key) \/ Moves(h, "remount", call[h].key)
  <2>1. CASE Return(h)
    BY <2>1, ReturnEnds, Zenon
  <2>2. CASE Goto(h, "chown") /\ UNCHANGED locks
    BY <1>1, <2>2, GotoMoves, Zenon
  <2>3. CASE Goto(h, "remount") /\ UNCHANGED locks
    BY <1>1, <2>3, GotoMoves, Zenon
  <2>4. QED
    BY <2>1, <2>2, <2>3, Zenon DEF PublishBind
<1>3. TypeOK'
  BY <1>2 DEF Ends, Moves, PublishBind, TypeOK, MountStates, Fault, Faults, NoFault, SetTarget
<1>4. WellFormed'
  BY <1>1, <1>2 DEF Ends, Moves, WellFormed, StagePCs, TargetPCs, KeyPCs
<1>5. KeyInv'
  BY <1>2, KeyFrame, Zenon DEF Ends, Moves, PublishBind
<1>6. StageInv'
  BY <1>2, StageFrame, Zenon DEF Ends, Moves, PublishBind, StagePCs, UnpublishPCs
<1>7. QED
  BY <1>2, <1>3, <1>4, <1>5, <1>6, Zenon DEF Ends, Moves

\* The remount that applies the options of a bind mount preserves IInv.
LEMMA PublishRemountStep ==
  ASSUME IInv, NEW h \in Handlers, PublishRemount(h)
  PROVE  IInv'
<1> USE DEF IInv, mounts, iamDirs, kubelet
<1>1. /\ "chown" \in PCs /\ call[h].pc = "remount"
      /\ \A l \in {"remount", "chown"} : l \in TargetPCs /\ l \notin StagePCs \cup KeyPCs
  BY Zenon DEF PublishRemount, At, PCs, TargetPCs, StagePCs, KeyPCs
<1>2. Ends(h) \/ Moves(h, "chown", call[h].key)
  <2>1. CASE Return(h)
    BY <2>1, ReturnEnds, Zenon
  <2>2. CASE Goto(h, "chown") /\ UNCHANGED locks
    BY <1>1, <2>2, GotoMoves, Zenon
  <2>3. QED
    BY <2>1, <2>2, Zenon DEF PublishRemount
<1>3. TypeOK'
  BY <1>2 DEF Ends, Moves, PublishRemount, TypeOK, MountStates, Fault, Faults, NoFault,
    SetTarget
<1>4. WellFormed'
  BY <1>1, <1>2, ZenonT(30) DEF Ends, Moves, WellFormed, StagePCs, TargetPCs, KeyPCs
<1>5. KeyInv'
  BY <1>2, KeyFrame, Zenon DEF Ends, Moves, PublishRemount
<1>6. StageInv'
  BY <1>2, StageFrame, Zenon DEF Ends, Moves, PublishRemount, StagePCs, UnpublishPCs
<1>7. QED
  BY <1>2, <1>3, <1>4, <1>5, <1>6, Zenon DEF Ends, Moves

\* The entry of publishIAMVolume into the key's critical section preserves IInv.
LEMMA IAMLockStep ==
  ASSUME IInv, NEW h \in Handlers, IAMLock(h)
  PROVE  IInv'
<1> USE DEF IInv, mounts, iamDirs, kubelet
<1> DEFINE k == KeyOf[Target(h)]
<1>1. /\ "iam_mount" \in KeyPCs /\ call[h].pc = "iam_lock"
      /\ call[h].pc \in TargetPCs \ KeyPCs
  BY Zenon DEF IAMLock, At, TargetPCs, KeyPCs
<1>2. call[h].pod \in Pods /\ call[h].vol \in Volumes
  BY <1>1, Zenon DEF WellFormed
<1>3. k \in Keys /\ call[h].todo \in SUBSET Keys /\ call[h].errs \in BOOLEAN
  BY <1>2, Zenon DEF TypeOK, Calls, Target, Targets
<1> HIDE DEF k
<1>4. /\ Ends(h) \/ (Moves(h, "iam_mount", k) /\ k \in refsDir')
      /\ refsDir \subseteq refsDir' /\ refsDir' \subseteq refsDir \cup {k}
      /\ token' \in [Keys -> Pods \cup {Nil}]
      /\ faults' \in 0 .. MaxFaults
      /\ UNCHANGED <<mounts, refs, kubelet>>
  <2>1. CASE /\ TryAcquire(KeyLock(k)) /\ NoFault /\ Enter(h, "iam_mount", k)
             /\ refsDir' = refsDir \cup {k}
             /\ token' = [token EXCEPT ![k] = call[h].pod]
    <3>1. Moves(h, "iam_mount", k)
      BY <1>1, <1>3, <2>1, EnterMoves, Zenon DEF Enter
    <3>2. QED
      BY <1>2, <1>3, <2>1, <3>1, Zenon DEF IAMLock, TypeOK, NoFault
  <2>2. CASE NoFault /\ Return(h) /\ UNCHANGED <<refsDir, token>>
    BY <2>2, ReturnEnds, Zenon DEF IAMLock, TypeOK, NoFault
  <2>3. CASE Fault /\ Return(h) /\ refsDir' \in {refsDir, refsDir \cup {k}} /\ UNCHANGED token
    BY <2>3, ReturnEnds DEF IAMLock, TypeOK, Fault, Faults
  <2>4. QED
    BY <2>1, <2>2, <2>3, Zenon DEF IAMLock, k
<1>5. TypeOK'
  BY <1>3, <1>4, ZenonT(30) DEF Ends, Moves, TypeOK
<1>6. WellFormed'
  BY <1>2, <1>3, <1>4 DEF Ends, Moves, WellFormed, StagePCs, TargetPCs, KeyPCs
<1>7. KeyInv'
  BY <1>3, <1>4, KeyShrink, Zenon DEF Ends, Moves
<1>8. StageInv'
  BY <1>4, StageFrame, Zenon DEF Ends, Moves, StagePCs, UnpublishPCs
<1>9. QED
  BY <1>4, <1>5, <1>6, <1>7, <1>8, Zenon DEF Ends, Moves

\* The global mount of publishIAMVolume preserves IInv.
LEMMA IAMMountStep ==
  ASSUME IInv, NEW h \in Handlers, IAMMount(h)
  PROVE  IInv'
<1> USE DEF IInv, mounts, iamDirs, kubelet
<1>1. /\ "iam_ref" \in PCs /\ call[h].pc = "iam_mount"
      /\ \A l \in {"iam_mount", "iam_ref"} : l \in TargetPCs /\ l \in KeyPCs /\ l \notin StagePCs
  BY Zenon DEF IAMMount, At, PCs, TargetPCs, StagePCs, KeyPCs
<1>2. call[h].key \in Keys /\ call[h].key \in refsDir
  BY <1>1, Zenon DEF WellFormed, KeyInv, At
<1>3. Ends(h) \/ (Moves(h, "iam_ref", call[h].key) /\ global'[call[h].key] = "ok")
  <2>1. CASE Return(h)
    BY <2>1, ReturnEnds, Zenon
  <2>2. CASE Goto(h, "iam_ref") /\ UNCHANGED locks /\ SetGlobal(h, "ok")
    BY <1>1, <1>2, <2>2, GotoMoves, ZenonT(30) DEF SetGlobal, TypeOK
  <2>3. QED
    BY <2>1, <2>2, Zenon DEF IAMMount
<1>4. TypeOK'
  BY <1>3 DEF Ends, Moves, IAMMount, TypeOK, MountStates, Fault, Faults, NoFault, SetGlobal
<1>5. WellFormed'
  BY <1>1, <1>3, SMTT(30) DEF Ends, Moves, WellFormed, StagePCs, TargetPCs, KeyPCs
<1>6. KeyInv'
  <2>1. \A j \in Keys \ {call[h].key} : global'[j] = global[j]
    BY Zenon DEF IAMMount, SetGlobal, TypeOK
  <2>2. UNCHANGED <<refs, refsDir>>
    BY Zenon DEF IAMMount
  <2>3. QED
    BY <1>1, <1>2, <1>3, <2>1, <2>2, KeyOwn, Zenon DEF Ends, Moves
<1>7. StageInv'
  BY <1>3, StageFrame, Zenon DEF Ends, Moves, IAMMount, StagePCs, UnpublishPCs
<1>8. QED
  BY <1>3, <1>4, <1>5, <1>6, <1>7, Zenon DEF Ends, Moves

\* addPodReference preserves IInv.
LEMMA IAMAddReferenceStep ==
  ASSUME IInv, NEW h \in Handlers, IAMAddReference(h)
  PROVE  IInv'
<1> USE DEF IInv, mounts, iamDirs, kubelet
<1>1. /\ "iam_bind" \in PCs /\ call[h].pc = "iam_ref"
      /\ \A l \in {"iam_ref", "iam_bind"} : l \in TargetPCs /\ l \in KeyPCs /\ l \notin StagePCs
  BY Zenon DEF IAMAddReference, At, PCs, TargetPCs, StagePCs, KeyPCs
<1>2. call[h].key \in Keys /\ call[h].pod \in Pods /\ global[call[h].key] # "none"
  BY <1>1, Zenon DEF WellFormed, KeyInv, At
<1>3. Ends(h) \/ Moves(h, "iam_bind", call[h].key)
  <2>1. CASE Return(h)
    BY <2>1, ReturnEnds, Zenon
  <2>2. CASE Goto(h, "iam_bind") /\ UNCHANGED locks
    BY <1>1, <2>2, GotoMoves, ZenonT(30)
  <2>3. QED
    BY <2>1, <2>2, Zenon DEF IAMAddReference
<1>4. TypeOK'
  BY <1>2, <1>3, SMTT(30) DEF Ends, Moves, IAMAddReference, TypeOK, Fault, Faults, NoFault
<1>5. WellFormed'
  BY <1>1, <1>3, ZenonT(30) DEF Ends, Moves, WellFormed, StagePCs, TargetPCs, KeyPCs
<1>6. KeyInv'
  <2>1. \A j \in Keys \ {call[h].key} : refs'[j] = refs[j]
    BY Zenon DEF IAMAddReference, TypeOK
  <2>2. UNCHANGED <<global, refsDir>>
    BY Zenon DEF IAMAddReference
  <2>3. QED
    BY <1>1, <1>2, <1>3, <2>1, <2>2, KeyOwn, ZenonT(30) DEF Ends, Moves
<1>7. StageInv'
  BY <1>3, StageFrame, Zenon DEF Ends, Moves, IAMAddReference, StagePCs, UnpublishPCs
<1>8. QED
  BY <1>3, <1>4, <1>5, <1>6, <1>7, Zenon DEF Ends, Moves

\* The end of publishIAMVolume gives the key's lock back.
LEMMA PublishDoneMoves ==
  ASSUME IInv, NEW h \in Handlers, call[h].pc \in KeyPCs, PublishDone(h)
  PROVE  Moves(h, "chown", Nil)
<1>1. "chown" \in TargetPCs \ KeyPCs
  BY Zenon DEF TargetPCs, KeyPCs
<1>2. call[h].todo \in SUBSET Keys /\ call[h].errs \in BOOLEAN
  BY Zenon DEF IInv, TypeOK, Calls
<1>3. QED
  BY <1>1, <1>2, LeaveMoves, Zenon DEF PublishDone, Enter

\* The bind mount from the global path, successful or not, preserves IInv.
LEMMA IAMBindStep ==
  ASSUME IInv, NEW h \in Handlers, IAMBind(h) \/ IAMRemount(h)
  PROVE  IInv'
<1> USE DEF IInv, mounts, iamDirs, kubelet
<1>1. /\ {"iam_remount", "iam_undo"} \subseteq PCs /\ call[h].pc \in {"iam_bind", "iam_remount"}
      /\ \A l \in {"iam_bind", "iam_remount", "iam_undo"} : l \in TargetPCs /\ l \in KeyPCs /\ l \notin StagePCs
  BY Zenon DEF IAMBind, IAMRemount, At, PCs, TargetPCs, StagePCs, KeyPCs
<1>2. call[h].key \in Keys /\ call[h].pod \in Pods
  BY <1>1, Zenon DEF WellFormed
<1>3. \/ Moves(h, "chown", Nil)
      \/ \E l \in {"iam_remount", "iam_undo"} : Moves(h, l, call[h].key)
  <2>1. CASE Goto(h, "iam_undo") /\ UNCHANGED locks
    BY <1>1, <2>1, GotoMoves, ZenonT(30)
  <2>2. CASE PublishDone(h)
    BY <1>1, <2>2, PublishDoneMoves, Zenon
  <2>3. CASE Goto(h, "iam_remount") /\ UNCHANGED locks
    BY <1>1, <2>3, GotoMoves, ZenonT(30)
  <2>4. QED
    BY <2>1, <2>2, <2>3, Zenon DEF IAMBind, IAMRemount, IAMBindFails
<1>4. /\ UNCHANGED <<staging, global, refsDir, token, kubelet>>
      /\ target' \in [Targets -> MountStates]
      /\ refs' \in [Keys -> SUBSET Pods]
      /\ \A j \in Keys \ {call[h].key} : refs'[j] = refs[j]
      /\ faults' \in 0 .. MaxFaults
  BY <1>2 DEF IAMBind, IAMRemount, IAMBindFails, TypeOK, MountStates, Faults,
              NoFault, SetTarget
<1>5. TypeOK'
  BY <1>3, <1>4, ZenonT(30) DEF Moves, TypeOK
<1>6. WellFormed'
  BY <1>1, <1>2, <1>3, SMTT(30) DEF Moves, WellFormed, StagePCs, TargetPCs, KeyPCs
<1>7. KeyInv'
  BY <1>1, <1>3, <1>4, KeyOwn, Zenon DEF Moves
<1>8. StageInv'
  BY <1>3, <1>4, StageFrame, Zenon DEF Moves, StagePCs, UnpublishPCs
<1>9. QED
  BY <1>3, <1>5, <1>6, <1>7, <1>8, Zenon DEF Moves

\* The unmount after a failing bind mount preserves IInv.
LEMMA IAMUndoStep ==
  ASSUME IInv, NEW h \in Handlers, IAMUndo(h)
  PROVE  IInv'
<1> USE DEF IInv, mounts, iamDirs, kubelet
<1>1. call[h].pod \in Pods /\ call[h].vol \in Volumes
  BY Zenon DEF IAMUndo, At, WellFormed, TargetPCs, KeyPCs
<1>2. Ends(h)
  BY ReturnEnds, Zenon DEF IAMUndo
<1>3. TypeOK'
  <2>1. Target(h) \in Targets
    BY <1>1, Zenon DEF Target, Targets
  <2>2. UnmountErrors(target[Target(h)]) \subseteq MountStates
    BY <2>1, UnmountErrorsType, Zenon DEF TypeOK
  <2>3. faults' \in 0 .. MaxFaults
    BY FaultType, Zenon DEF IAMUndo
  <2>4. target' \in [Targets -> MountStates]
    BY <2>2, Zenon DEF IAMUndo, TypeOK, MountStates, SetTarget
  <2>5. QED
    BY <1>2, <2>3, <2>4, Zenon DEF Ends, IAMUndo, TypeOK
<1>4. WellFormed'
  BY <1>2, Zenon DEF Ends, WellFormed, StagePCs, TargetPCs, KeyPCs
<1>5. KeyInv'
  BY <1>2, KeyFrame, Zenon DEF Ends, IAMUndo
<1>6. StageInv'
  BY <1>2, StageFrame, Zenon DEF Ends, IAMUndo, StagePCs, UnpublishPCs
<1>7. QED
  BY <1>2, <1>3, <1>4, <1>5, <1>6, Zenon DEF Ends

\* The end of NodePublishVolume preserves IInv.
LEMMA PublishOwnershipStep ==
  ASSUME IInv, NEW h \in Handlers, PublishOwnership(h)
  PROVE  IInv'
<1> USE DEF IInv, mounts, iamDirs, kubelet
<1>1. call[h].pod \in Pods /\ call[h].vol \in Volumes
  BY Zenon DEF PublishOwnership, At, WellFormed, TargetPCs
<1>2. Ends(h)
  BY ReturnEnds, Zenon DEF PublishOwnership
<1>3. TypeOK'
  <2>1. Target(h) \in Targets
    BY <1>1, Zenon DEF Target, Targets
  <2>2. /\ published' \subseteq Targets /\ faults' \in 0 .. MaxFaults
        /\ target' \in [Targets -> MountStates]
    BY <2>1 DEF PublishOwnership, TypeOK, MountStates, Faults, NoFault, SetTarget
  <2>3. QED
    BY <1>2, <2>2, Zenon DEF Ends, PublishOwnership, TypeOK
<1>4. WellFormed'
  BY <1>2, Zenon DEF Ends, WellFormed, StagePCs, TargetPCs, KeyPCs
<1>5. KeyInv'
  BY <1>2, KeyFrame, Zenon DEF Ends, PublishOwnership
<1>6. StageInv'
  BY <1>2, StageFrame, Zenon DEF Ends, PublishOwnership, StagePCs, UnpublishPCs
<1>7. QED
  BY <1>2, <1>3, <1>4, <1>5, <1>6, Zenon DEF Ends

-----------------------------------------------------------------------------
(* NodeUnpublishVolume and the clean-up of references.                     *)

\* The entry of NodeUnpublishVolume preserves IInv.
LEMMA NodeUnpublishVolumeStep ==
  ASSUME IInv, NEW h \in Handlers, NEW d \in Pods, NEW v \in Volumes,
         NodeUnpublishVolume(h, d, v)
  PROVE  IInv'
<1> USE DEF IInv, mounts, iamDirs, kubelet
<1>1. "unmount_target" \in PCs /\ "unmount_target" \in TargetPCs \ KeyPCs
  BY Zenon DEF PCs, TargetPCs, KeyPCs
<1>2. /\ call' \in [Handlers -> Calls]
      /\ call'[h].pc = "unmount_target" /\ call'[h].pod = d /\ call'[h].vol = v
      /\ \A g \in Handlers \ {h} : call'[g] = call[g]
  BY <1>1, StartFacts, ZenonT(60) DEF NodeUnpublishVolume
<1>3. LocksExclusive'
  BY <1>1, LockStart, ZenonT(30) DEF NodeUnpublishVolume
<1>4. TypeOK'
  BY <1>2, Zenon DEF NodeUnpublishVolume, TypeOK
<1>5. WellFormed'
  BY <1>2, Zenon DEF WellFormed, StagePCs, TargetPCs, KeyPCs
<1>6. KeyInv'
  BY <1>2, KeyFrame, Zenon DEF NodeUnpublishVolume
<1>7. StageInv'
  BY <1>2, StageFrame, Zenon DEF NodeUnpublishVolume, StagePCs
<1>8. QED
  BY <1>3, <1>4, <1>5, <1>6, <1>7, Zenon

\* The unmount of the target path preserves IInv.
LEMMA UnpublishUnmountStep ==
  ASSUME IInv, NEW h \in Handlers, UnpublishUnmount(h)
  PROVE  IInv'
<1> USE DEF IInv, mounts, iamDirs, kubelet
<1>1. /\ "clean" \in TargetPCs \ KeyPCs /\ call[h].pc = "unmount_target"
      /\ call[h].pc \in TargetPCs \ KeyPCs /\ call[h].pc \in UnpublishPCs
  BY Zenon DEF UnpublishUnmount, At, TargetPCs, KeyPCs, UnpublishPCs
<1>2. call[h].pod \in Pods /\ call[h].vol \in Volumes /\ phase[call[h].pod] = "deleted"
  BY <1>1, Zenon DEF WellFormed, StageInv
<1>3. Ends(h) \/ Moves(h, "clean", Nil)
  <2>1. CASE Return(h)
    BY <2>1, ReturnEnds, Zenon
  <2>2. CASE Become(h, "clean", Nil, Referenced(call[h].pod), FALSE) /\ UNCHANGED locks
    <3>1. Referenced(call[h].pod) \in SUBSET Keys
      BY Zenon DEF Referenced
    <3>2. QED
      BY <1>1, <2>2, <3>1, StayMoves, ZenonT(30)
  <2>3. QED
    BY <2>1, <2>2, ZenonT(30) DEF UnpublishUnmount
<1>4. TypeOK'
  <2>1. Target(h) \in Targets
    BY <1>2, Zenon DEF Target, Targets
  <2>2. target[Target(h)] \in MountStates /\ "none" \in MountStates
    BY <2>1, Zenon DEF TypeOK, MountStates
  <2>3. \E m \in MountStates : SetTarget(h, m)
    BY <2>2, UnmountErrorsType, ZenonT(30) DEF UnpublishUnmount
  <2>4. target' \in [Targets -> MountStates]
    BY <2>1, <2>3, Zenon DEF TypeOK, SetTarget
  <2>5. faults' \in 0 .. MaxFaults
    BY FaultType, ZenonT(30) DEF UnpublishUnmount
  <2>6. QED
    BY <1>3, <2>4, <2>5, Zenon DEF Ends, Moves, UnpublishUnmount, TypeOK
<1>5. WellFormed'
  BY <1>2, <1>3, ZenonT(30) DEF Ends, Moves, WellFormed, StagePCs, TargetPCs, KeyPCs
<1>6. KeyInv'
  BY <1>3, KeyFrame, Zenon DEF Ends, Moves, UnpublishUnmount
<1>7. StageInv'
  BY <1>2, <1>3, StageFrame, Zenon DEF Ends, Moves, UnpublishUnmount, StagePCs, UnpublishPCs
<1>8. QED
  BY <1>3, <1>4, <1>5, <1>6, <1>7, Zenon DEF Ends, Moves

\* The return of NodeUnpublishVolume preserves IInv.
LEMMA UnpublishReturnStep ==
  ASSUME IInv, NEW h \in Handlers, UnpublishReturn(h)
  PROVE  IInv'
<1> USE DEF IInv, mounts, iamDirs, kubelet
<1>1. /\ call[h].pc \in TargetPCs /\ call[h].pod \in Pods /\ call[h].vol \in Volumes
      /\ phase[call[h].pod] = "deleted"
  BY Zenon DEF UnpublishReturn, At, WellFormed, StageInv, TargetPCs, UnpublishPCs
<1>2. Ends(h)
  BY ReturnEnds, Zenon DEF UnpublishReturn
<1>3. TypeOK'
  BY <1>1, <1>2 DEF Ends, UnpublishReturn, TypeOK, Targets, Target
<1>4. WellFormed'
  BY <1>2, Zenon DEF Ends, WellFormed, StagePCs, TargetPCs, KeyPCs
<1>5. KeyInv'
  BY <1>2, KeyFrame, Zenon DEF Ends, UnpublishReturn
<1>6. StageInv'
  <2>1. gone' \subseteq gone \cup {Target(h)} /\ UNCHANGED <<staging, staged, phase>>
    BY Zenon DEF UnpublishReturn
  <2>2. \A g \in Handlers \ {h} : At(g, "bind") => Target(g) # Target(h)
    BY <1>1, Exclusion, Zenon DEF At, TargetPCs
  <2>3. \A t \in gone' : phase'[t[1]] = "deleted"
    BY <1>1, <2>1 DEF StageInv, Target
  <2>4. QED
    BY <1>2, <2>1, <2>2, <2>3 DEF Ends, StageInv, At, Target, StagePCs, UnpublishPCs
<1>7. QED
  BY <1>2, <1>3, <1>4, <1>5, <1>6, Zenon DEF Ends

\* The removal of a pod's reference preserves IInv.
LEMMA CleanReferenceStep ==
  ASSUME IInv, NEW h \in Handlers, NEW k \in Keys, CleanReference(h, k)
  PROVE  IInv'
<1> USE DEF IInv, mounts, iamDirs, kubelet
<1>1. /\ "clean" \in TargetPCs \ KeyPCs /\ "rm_refs" \in KeyPCs
      /\ call[h].pc \in TargetPCs \ KeyPCs /\ call[h].pc \in UnpublishPCs
  BY Zenon DEF CleanReference, At, TargetPCs, KeyPCs, UnpublishPCs
<1>2. call[h].pod \in Pods /\ call[h].vol \in Volumes /\ phase[call[h].pod] = "deleted"
  BY <1>1, Zenon DEF WellFormed, StageInv
<1>3. call[h].todo \ {k} \in SUBSET Keys /\ call[h].errs \in BOOLEAN
  BY Zenon DEF TypeOK, Calls
<1>4. Moves(h, "clean", Nil) \/ Moves(h, "rm_refs", k)
  <2>1. CASE Become(h, "clean", Nil, call[h].todo \ {k}, TRUE) /\ UNCHANGED locks
    BY <1>1, <1>3, <2>1, StayMoves, ZenonT(30)
  <2>2. CASE /\ Become(h, "rm_refs", k, call[h].todo \ {k}, call[h].errs)
             /\ TryAcquire(KeyLock(k))
    BY <1>1, <1>3, <2>2, EnterMoves, Zenon
  <2>3. QED
    BY <2>1, <2>2, ZenonT(30) DEF CleanReference
<1>5. /\ refs' \in [Keys -> SUBSET Pods]
      /\ \A j \in Keys : refs'[j] \subseteq refs[j]
      /\ faults' \in 0 .. MaxFaults
      /\ UNCHANGED <<mounts, refsDir, token, kubelet>>
  <2>1. refs' = [refs EXCEPT ![k] = @ \ {call[h].pod}] \/ UNCHANGED refs
    BY ZenonT(30) DEF CleanReference
  <2>2. refs' \in [Keys -> SUBSET Pods] /\ \A j \in Keys : refs'[j] \subseteq refs[j]
    BY <2>1 DEF TypeOK
  <2>3. faults' \in 0 .. MaxFaults
    BY FaultType, ZenonT(30) DEF CleanReference
  <2>4. QED
    BY <2>2, <2>3, Zenon DEF CleanReference
<1>6. TypeOK'
  BY <1>4, <1>5, Zenon DEF Moves, TypeOK
<1>7. WellFormed'
  BY <1>2, <1>4, ZenonT(30) DEF Moves, WellFormed, StagePCs, TargetPCs, KeyPCs
<1>8. KeyInv'
  BY <1>4, <1>5, KeyShrink, Zenon DEF Moves
<1>9. StageInv'
  BY <1>2, <1>4, <1>5, StageFrame, Zenon DEF Moves, StagePCs
<1>10. QED
  BY <1>4, <1>6, <1>7, <1>8, <1>9, Zenon DEF Moves

\* The end of cleanUpIAMReferenceForKey gives the key's lock back.
LEMMA CleanNextMoves ==
  ASSUME IInv, NEW h \in Handlers, call[h].pc \in KeyPCs,
         NEW failed \in BOOLEAN, CleanNext(h, failed)
  PROVE  Moves(h, "clean", Nil)
<1>1. "clean" \in TargetPCs \ KeyPCs
  BY Zenon DEF TargetPCs, KeyPCs
<1>2. call[h].todo \in SUBSET Keys /\ (call[h].errs \/ failed) \in BOOLEAN
  BY Zenon DEF IInv, TypeOK, Calls
<1>3. QED
  BY <1>1, <1>2, LeaveMoves, ZenonT(30) DEF CleanNext

\* The removal of the refs directory preserves IInv: it succeeds only when no pod
\* is left.
LEMMA RemoveRefsDirStep ==
  ASSUME IInv, NEW h \in Handlers, RemoveRefsDir(h)
  PROVE  IInv'
<1> USE DEF IInv, mounts, iamDirs, kubelet
<1>1. /\ "unmount_global" \in PCs /\ call[h].pc = "rm_refs" /\ call[h].pc \in UnpublishPCs
      /\ \A l \in {"rm_refs", "unmount_global"} : l \in TargetPCs /\ l \in KeyPCs /\ l \notin StagePCs
  BY Zenon DEF RemoveRefsDir, At, PCs, TargetPCs, StagePCs, KeyPCs, UnpublishPCs
<1>2. call[h].pod \in Pods /\ call[h].vol \in Volumes /\ call[h].key \in Keys
        /\ phase[call[h].pod] = "deleted"
  BY <1>1, Zenon DEF WellFormed, StageInv
<1>3. \/ Moves(h, "clean", Nil)
      \/ Moves(h, "unmount_global", call[h].key) /\ refs[call[h].key] = {}
  <2>1. CASE CleanNext(h, FALSE) \/ CleanNext(h, TRUE)
    BY <1>1, <2>1, CleanNextMoves, ZenonT(30)
  <2>2. CASE Goto(h, "unmount_global") /\ UNCHANGED locks /\ refs[call[h].key] = {}
    BY <1>1, <2>2, GotoMoves, Zenon
  <2>3. QED
    BY <2>1, <2>2, ZenonT(30) DEF RemoveRefsDir
<1>4. TypeOK'
  <2>1. faults' \in 0 .. MaxFaults /\ refsDir' \subseteq refsDir
    BY FaultType, ZenonT(30) DEF RemoveRefsDir
  <2>2. QED
    BY <1>3, <2>1, Zenon DEF Moves, RemoveRefsDir, TypeOK
<1>5. WellFormed'
  BY <1>2, <1>3, Zenon DEF Moves, WellFormed, StagePCs, TargetPCs, KeyPCs
<1>6. KeyInv'
  <2>1. \A j \in Keys \ {call[h].key} : j \in refsDir => j \in refsDir'
    BY ZenonT(30) DEF RemoveRefsDir
  <2>2. UNCHANGED <<refs, global>>
    BY Zenon DEF RemoveRefsDir
  <2>3. QED
    BY <1>1, <1>3, <2>1, <2>2, KeyOwn, Zenon DEF Moves
<1>7. StageInv'
  BY <1>2, <1>3, StageFrame, Zenon DEF Moves, RemoveRefsDir, StagePCs
<1>8. QED
  BY <1>3, <1>4, <1>5, <1>6, <1>7, Zenon DEF Moves

\* The unmount of the global path preserves IInv: only a success leads to RemoveAll.
LEMMA UnmountGlobalStep ==
  ASSUME IInv, NEW h \in Handlers, UnmountGlobal(h)
  PROVE  IInv'
<1> USE DEF IInv, mounts, iamDirs, kubelet
<1>1. /\ "rm_key" \in PCs /\ call[h].pc = "unmount_global" /\ call[h].pc \in UnpublishPCs
      /\ \A l \in {"unmount_global", "rm_key"} : l \in TargetPCs /\ l \in KeyPCs /\ l \notin StagePCs
  BY Zenon DEF UnmountGlobal, At, PCs, TargetPCs, StagePCs, KeyPCs, UnpublishPCs
<1>2. /\ call[h].pod \in Pods /\ call[h].vol \in Volumes /\ call[h].key \in Keys
      /\ phase[call[h].pod] = "deleted" /\ refs[call[h].key] = {}
  BY <1>1, Zenon DEF WellFormed, StageInv, KeyInv, At
<1>3. \/ Moves(h, "clean", Nil)
      \/ Moves(h, "rm_key", call[h].key) /\ global'[call[h].key] = "none"
  <2>1. CASE CleanNext(h, TRUE)
    BY <1>1, <2>1, CleanNextMoves, ZenonT(30)
  <2>2. CASE Goto(h, "rm_key") /\ UNCHANGED locks /\ SetGlobal(h, "none")
    BY <1>1, <1>2, <2>2, GotoMoves, ZenonT(30) DEF SetGlobal, TypeOK
  <2>3. QED
    BY <2>1, <2>2, ZenonT(30) DEF UnmountGlobal
<1>4. TypeOK'
  <2>1. global[call[h].key] \in MountStates /\ "none" \in MountStates
    BY <1>2, Zenon DEF TypeOK, MountStates
  <2>2. \E m \in MountStates : SetGlobal(h, m)
    BY <2>1, UnmountErrorsType, ZenonT(30) DEF UnmountGlobal
  <2>3. global' \in [Keys -> MountStates]
    BY <1>2, <2>2, Zenon DEF TypeOK, SetGlobal
  <2>4. faults' \in 0 .. MaxFaults
    BY FaultType, ZenonT(30) DEF UnmountGlobal
  <2>5. QED
    BY <1>3, <2>3, <2>4, Zenon DEF Moves, UnmountGlobal, TypeOK
<1>5. WellFormed'
  BY <1>2, <1>3, Zenon DEF Moves, WellFormed, StagePCs, TargetPCs, KeyPCs
<1>6. KeyInv'
  <2>1. \A j \in Keys \ {call[h].key} : global'[j] = global[j]
    BY ZenonT(30) DEF UnmountGlobal, SetGlobal, TypeOK
  <2>2. UNCHANGED <<refs, refsDir>>
    BY Zenon DEF UnmountGlobal
  <2>3. QED
    BY <1>1, <1>2, <1>3, <2>1, <2>2, KeyOwn, Zenon DEF Moves
<1>7. StageInv'
  BY <1>2, <1>3, StageFrame, Zenon DEF Moves, UnmountGlobal, StagePCs
<1>8. QED
  BY <1>3, <1>4, <1>5, <1>6, <1>7, Zenon DEF Moves

\* The removal of the key's folder preserves IInv.
LEMMA RemoveKeyDirStep ==
  ASSUME IInv, NEW h \in Handlers, RemoveKeyDir(h)
  PROVE  IInv'
<1> USE DEF IInv, mounts, iamDirs, kubelet
<1>1. call[h].pc = "rm_key" /\ call[h].pc \in KeyPCs \cap TargetPCs \cap UnpublishPCs
  BY Zenon DEF RemoveKeyDir, At, TargetPCs, KeyPCs, UnpublishPCs
<1>2. /\ call[h].pod \in Pods /\ call[h].vol \in Volumes /\ call[h].key \in Keys
      /\ phase[call[h].pod] = "deleted"
  BY <1>1, Zenon DEF WellFormed, StageInv
<1>3. Moves(h, "clean", Nil)
  BY <1>1, CleanNextMoves, ZenonT(30) DEF RemoveKeyDir
<1>4. TypeOK'
  <2>1. faults' \in 0 .. MaxFaults
    BY FaultType, ZenonT(30) DEF RemoveKeyDir
  <2>2. token' \in [Keys -> Pods \cup {Nil}]
    BY ZenonT(30) DEF RemoveKeyDir, TypeOK
  <2>3. refsDir' \subseteq Keys /\ refs' \in [Keys -> SUBSET Pods]
    BY ZenonT(30) DEF RemoveKeyDir, TypeOK
  <2>4. QED
    BY <1>3, <2>1, <2>2, <2>3, Zenon DEF Moves, RemoveKeyDir, TypeOK
<1>5. WellFormed'
  BY <1>2, <1>3, ZenonT(30) DEF Moves, WellFormed, StagePCs, TargetPCs, KeyPCs
<1>6. KeyInv'
  <2>1. \A j \in Keys \ {call[h].key} :
          refs'[j] = refs[j] /\ (j \in refsDir => j \in refsDir')
    BY Zenon DEF RemoveKeyDir, TypeOK
  <2>2. UNCHANGED global
    BY Zenon DEF RemoveKeyDir
  <2>3. QED
    BY <1>1, <1>3, <2>1, <2>2, KeyOwn, Zenon DEF Moves
<1>7. StageInv'
  BY <1>2, <1>3, StageFrame, Zenon DEF Moves, RemoveKeyDir, StagePCs
<1>8. QED
  BY <1>3, <1>4, <1>5, <1>6, <1>7, Zenon DEF Moves

-----------------------------------------------------------------------------
(* The environment, and every step together.                               *)


\* Starting and deleting pods preserve IInv.
LEMMA PodStep ==
  ASSUME IInv, NEW d \in Pods, PodStart(d) \/ PodDelete(d)
  PROVE  IInv'
<1> USE DEF IInv, mounts, iamDirs, kubelet
<1>1. TypeOK' /\ WellFormed'
  BY ZenonT(30) DEF PodStart, PodDelete, TypeOK, WellFormed
<1>2. LocksExclusive'
  BY LockFrame, Zenon DEF PodStart, PodDelete
<1>3. KeyInv'
  BY Zenon DEF PodStart, PodDelete, KeyInv, At
<1>4. StageInv'
  <2>1. \A e \in Pods : /\ phase[e] = "deleted" => phase'[e] = "deleted"
                        /\ phase[e] # "pending" => phase'[e] # "pending"
    BY Zenon DEF PodStart, PodDelete, TypeOK
  <2>2. \A t \in gone : t[1] \in Pods
    BY Zenon DEF TypeOK, Targets
  <2>3. \A g \in Handlers :
          At(g, "bind") \/ call[g].pc \in UnpublishPCs => call[g].pod \in Pods
    BY Zenon DEF WellFormed, At, UnpublishPCs, TargetPCs, KeyPCs
  <2>4. UNCHANGED <<call, staging, staged, gone>>
    BY Zenon DEF PodStart, PodDelete
  <2>5. QED
    BY <2>1, <2>2, <2>3, <2>4, Zenon DEF StageInv, At, Target
<1>5. QED
  BY <1>1, <1>2, <1>3, <1>4, Zenon

\* Restarts of the driver and reboots of the node preserve IInv.
LEMMA RestartStep ==
  ASSUME IInv, DriverRestart \/ NodeReboot
  PROVE  IInv'
<1> USE DEF IInv, mounts, iamDirs, kubelet
<1>1. call' = [h \in Handlers |-> IdleCall] /\ locks' = {} /\ UNCHANGED <<iamDirs, phase, gone>>
  BY Zenon DEF DriverRestart, NodeReboot
<1>2. IdleCall \in Calls /\ IdleCall.pc = "idle"
  BY Zenon DEF IdleCall, Call, Calls, PCs
<1>3. call' \in [Handlers -> Calls] /\ \A h \in Handlers : call'[h].pc = "idle"
  BY <1>1, <1>2, Zenon
<1>4. TypeOK'
  <2>1. faults' \in 0 .. MaxFaults
    BY FaultType, Zenon DEF DriverRestart, NodeReboot
  <2>2. QED
    BY <1>1, <1>3, <2>1 DEF DriverRestart, NodeReboot, TypeOK, MountStates
<1>5. WellFormed'
  BY <1>3, ZenonT(30) DEF WellFormed, StagePCs, TargetPCs, KeyPCs
<1>6. LocksExclusive'
  <2>1. \A h \in Handlers : Held(h)' = {}
    BY <1>3, Zenon DEF Held, StagePCs, TargetPCs, KeyPCs
  <2>2. QED
    BY <1>1, <2>1 DEF LocksExclusive
<1>7. KeyInv'
  BY <1>3, Zenon DEF KeyInv, At
<1>8. StageInv'
  <2>1. \A v \in Volumes \ IAMVolumes : staged'[v] = "yes" => staging'[v] # "none"
    BY Zenon DEF DriverRestart, NodeReboot, StageInv
  <2>2. QED
    BY <1>1, <1>3, <2>1, ZenonT(30) DEF StageInv, At, StagePCs, UnpublishPCs
<1>9. QED
  BY <1>4, <1>5, <1>6, <1>7, <1>8, Zenon

\* A mount that becomes corrupted preserves IInv.
LEMMA CorruptStep ==
  ASSUME IInv, NEW v \in Volumes, Corrupt(v)
  PROVE  IInv'
<1> USE DEF IInv, mounts, iamDirs, kubelet
<1>1. \A m \in MountStates : Corrupted(m) \in MountStates /\ (Corrupted(m) = "none" <=> m = "none")
  BY Zenon DEF Corrupted, MountStates
<1>2. \A w \in Volumes : staging'[w] \in {staging[w], Corrupted(staging[w])}
  BY Zenon DEF Corrupt, TypeOK
<1>3. \A k \in Keys : global'[k] \in {global[k], Corrupted(global[k])}
  BY Zenon DEF Corrupt
<1>4. TypeOK'
  <2>1. faults' \in 0 .. MaxFaults
    BY FaultType, Zenon DEF Corrupt
  <2>2. staging' \in [Volumes -> MountStates]
    BY <1>1, Zenon DEF Corrupt, TypeOK
  <2>3. target' \in [Targets -> MountStates]
    BY <1>1, Zenon DEF Corrupt, TypeOK
  <2>4. global' \in [Keys -> MountStates]
    BY <1>1, Zenon DEF Corrupt, TypeOK
  <2>5. QED
    BY <2>1, <2>2, <2>3, <2>4, ZenonT(30) DEF Corrupt, TypeOK
<1>5. WellFormed'
  BY ZenonT(30) DEF Corrupt, WellFormed
<1>6. LocksExclusive'
  BY LockFrame, Zenon DEF Corrupt
<1>7. \A w \in Volumes : staging'[w] = "none" <=> staging[w] = "none"
  BY <1>1, <1>2, Zenon DEF TypeOK
<1>8. \A k \in Keys : global'[k] = "none" <=> global[k] = "none"
  BY <1>1, <1>3, Zenon DEF TypeOK
<1>9. KeyInv'
  <2>1. \A h \in Handlers : call[h].pc \in KeyPCs => call[h].key \in Keys
    BY Zenon DEF WellFormed
  <2>2. UNCHANGED <<call, refs, refsDir>>
    BY Zenon DEF Corrupt
  <2>3. QED
    BY <1>8, <2>1, <2>2, Zenon DEF KeyInv, At, KeyPCs
<1>10. StageInv'
  <2>1. UNCHANGED <<call, staged, phase, gone>>
    BY Zenon DEF Corrupt
  <2>2. QED
    BY <1>7, <2>1, Zenon DEF StageInv, At, Target
<1>11. QED
  BY <1>4, <1>5, <1>6, <1>9, <1>10, Zenon

-----------------------------------------------------------------------------
(* The theorems.                                                           *)

\* The initial state satisfies the inductive invariant.
LEMMA InitIInv == Init => IInv
<1> SUFFICES ASSUME Init PROVE IInv
  BY Zenon
<1>1. IdleCall \in Calls /\ IdleCall.pc = "idle"
  BY Zenon DEF IdleCall, Call, Calls, PCs
<1>2. call \in [Handlers -> Calls] /\ \A h \in Handlers : call[h].pc = "idle"
  BY <1>1, Zenon DEF Init
<1>3. TypeOK
  BY <1>2 DEF Init, TypeOK, MountStates
<1>4. WellFormed
  BY <1>2, Zenon DEF WellFormed, StagePCs, TargetPCs, KeyPCs
<1>5. LocksExclusive
  <2>1. \A h \in Handlers : Held(h) = {}
    BY <1>2, Zenon DEF Held, StagePCs, TargetPCs, KeyPCs
  <2>2. QED
    BY <2>1 DEF Init, LocksExclusive
<1>6. KeyInv
  BY <1>2, Zenon DEF KeyInv, At
<1>7. StageInv
  BY <1>2, Zenon DEF Init, StageInv, At, StagePCs, UnpublishPCs
<1>8. QED
  BY <1>3, <1>4, <1>5, <1>6, <1>7, Zenon DEF IInv

\* A step that changes nothing preserves IInv.
LEMMA StutterStep == IInv /\ UNCHANGED vars => IInv'
<1> SUFFICES ASSUME IInv, UNCHANGED vars PROVE IInv'
  BY Zenon
<1> USE DEF IInv, vars, mounts, iamDirs, kubelet
<1>1. TypeOK' /\ WellFormed'
  BY ZenonT(30) DEF TypeOK, WellFormed
<1>2. LocksExclusive'
  BY LockFrame, Zenon
<1>3. KeyInv' /\ StageInv'
  BY Zenon DEF KeyInv, StageInv, At, Target
<1>4. QED
  BY <1>1, <1>2, <1>3, Zenon

\* Every step of a running call preserves IInv.
LEMMA HandlerStepIInv ==
  ASSUME IInv, NEW h \in Handlers, HandlerStep(h)
  PROVE  IInv'
BY StageCheckStep, StageMountStep, UnstageUnmountStep, PublishBindStep,
   PublishRemountStep, IAMLockStep, IAMMountStep, IAMAddReferenceStep, IAMBindStep,
   IAMUndoStep, PublishOwnershipStep, UnpublishUnmountStep, UnpublishReturnStep,
   CleanReferenceStep, RemoveRefsDirStep, UnmountGlobalStep, RemoveKeyDirStep, Zenon
DEF HandlerStep

\* Every step of the node preserves IInv.
LEMMA NextIInv == IInv /\ [Next]_vars => IInv'
<1> SUFFICES ASSUME IInv, [Next]_vars PROVE IInv'
  BY Zenon
<1>1. CASE \E v \in Volumes : StageIAM(v)
  BY <1>1, StageIAMStep, Zenon
<1>2. CASE \E h \in Handlers, v \in Volumes : NodeStageVolume(h, v) \/ NodeUnstageVolume(h, v)
  BY <1>2, NodeStageVolumeStep, NodeUnstageVolumeStep, Zenon
<1>3. CASE \E h \in Handlers, d \in Pods, v \in Volumes :
             NodePublishVolume(h, d, v) \/ NodeUnpublishVolume(h, d, v)
  BY <1>3, NodePublishVolumeStep, NodeUnpublishVolumeStep, Zenon
<1>4. CASE \E h \in Handlers : HandlerStep(h)
  BY <1>4, HandlerStepIInv, Zenon
<1>5. CASE Environment
  BY <1>5, PodStep, RestartStep, CorruptStep, Zenon DEF Environment
<1>6. CASE UNCHANGED vars
  BY <1>6, StutterStep, Zenon
<1>7. QED
  BY <1>1, <1>2, <1>3, <1>4, <1>5, <1>6, Zenon DEF Next

\* The inductive invariant holds for every number of pods, volumes, keys,
\* handlers and failures: no interleaving of NodeStageVolume, NodePublishVolume,
\* NodeUnpublishVolume, NodeUnstageVolume, restarts and reboots breaks it.
THEOREM Invariance == Spec => []IInv
<1>1. Init => IInv
  BY InitIInv, Zenon
<1>2. IInv /\ [Next]_vars => IInv'
  BY NextIInv, Zenon
<1>3. QED
  BY <1>1, <1>2, PTL DEF Spec

\* The node service's state is always of the declared shape.
THEOREM TypeCorrectness == Spec => []TypeOK
<1>1. IInv => TypeOK
  BY Zenon DEF IInv
<1>2. QED
  BY Invariance, <1>1, PTL

\* volumeLocks is exact: it consists of the locks the running calls are entitled
\* to, each held by one call, so that none outlives the call that took it.
THEOREM LockSafety == Spec => []LocksExclusive
<1>1. IInv => LocksExclusive
  BY Zenon DEF IInv
<1>2. QED
  BY Invariance, <1>1, PTL

\* cleanUpIAMReferenceForKey takes a global mount down only when no pod refers
\* to the key, and alone in the key's critical section.
THEOREM TeardownSafety == Spec => []TeardownExclusive
<1>1. IInv => TeardownExclusive
  <2> SUFFICES ASSUME IInv, NEW h \in Handlers, At(h, "unmount_global") \/ At(h, "rm_key")
               PROVE  /\ refs[call[h].key] = {}
                      /\ \A g \in Handlers \ {h} :
                           call[g].pc \in KeyPCs => call[g].key # call[h].key
    BY Zenon DEF TeardownExclusive
  <2>1. call[h].pc \in KeyPCs
    BY Zenon DEF At, KeyPCs
  <2>2. QED
    BY <2>1, Exclusion, Zenon DEF IInv, KeyInv
<1>2. QED
  BY Invariance, <1>1, PTL

\* os.RemoveAll of a key's folder never descends into a mounted file system.
THEOREM RemoveAllSafety == Spec => []RemoveAllDetached
<1>1. IInv => RemoveAllDetached
  BY Zenon DEF IInv, KeyInv, RemoveAllDetached
<1>2. QED
  BY Invariance, <1>1, PTL

\* A bind mount is taken from a mounted staging or global path.
THEOREM BindSafety == Spec => []BindSourceMounted
<1>1. IInv => BindSourceMounted
  <2> SUFFICES ASSUME IInv, NEW h \in Handlers
               PROVE  /\ At(h, "iam_bind") => global[call[h].key] # "none"
                      /\ At(h, "bind") => staging[call[h].vol] # "none"
    BY Zenon DEF BindSourceMounted
  <2>1. At(h, "iam_bind") => global[call[h].key] # "none"
    BY Zenon DEF IInv, KeyInv
  <2>2. At(h, "bind") => call[h].vol \in Volumes
    BY ZenonT(30) DEF IInv, WellFormed, At, TargetPCs
  <2>3. At(h, "bind") => staging[call[h].vol] # "none"
    BY <2>2 DEF IInv, StageInv
  <2>4. QED
    BY <2>1, <2>3, Zenon
<1>2. QED
  BY Invariance, <1>1, PTL

-----------------------------------------------------------------------------
(* Shared mounts.                                                          *)

\* The steps of calls that touch neither a global mount nor a reference.
OtherStep(h) ==
  \/ StageCheck(h) \/ StageMount(h) \/ UnstageUnmount(h)
  \/ PublishBind(h) \/ PublishRemount(h) \/ IAMLock(h) \/ PublishOwnership(h)
  \/ IAMUndo(h) \/ UnpublishUnmount(h) \/ UnpublishReturn(h)

\* They are stuttering steps of SharedMount.
LEMMA OtherStepShared ==
  ASSUME NEW h \in Handlers, OtherStep(h)
  PROVE  UNCHANGED <<global, refs>>
<1> USE DEF mounts, iamDirs
<1>1. CASE StageCheck(h) \/ StageMount(h) \/ UnstageUnmount(h)
  BY <1>1, Zenon DEF StageCheck, StageMount, UnstageUnmount
<1>2. CASE PublishBind(h) \/ PublishRemount(h) \/ IAMLock(h) \/ PublishOwnership(h)
  BY <1>2, Zenon DEF PublishBind, PublishRemount, IAMLock, PublishOwnership
<1>3. CASE IAMUndo(h) \/ UnpublishUnmount(h) \/ UnpublishReturn(h)
  BY <1>3, Zenon DEF IAMUndo, UnpublishUnmount, UnpublishReturn
<1>4. QED
  BY <1>1, <1>2, <1>3, Zenon DEF OtherStep

\* So is the start of a call, and so are pods that come and go and a restart.
LEMMA StartShared ==
  ASSUME NEW h \in Handlers, NEW d \in Pods, NEW v \in Volumes,
         \/ StageIAM(v) \/ NodeStageVolume(h, v) \/ NodeUnstageVolume(h, v)
         \/ NodePublishVolume(h, d, v) \/ NodeUnpublishVolume(h, d, v)
  PROVE  UNCHANGED <<global, refs>>
BY Zenon DEF StageIAM, NodeStageVolume, NodeUnstageVolume, NodePublishVolume,
       NodeUnpublishVolume, mounts, iamDirs

\* A successful IAMMount is a Mount; one that fails may detach a corrupted mount.
LEMMA IAMMountShared ==
  ASSUME IInv, NEW h \in Handlers, IAMMount(h)
  PROVE  [Shared!Next]_<<global, refs>>
<1>1. call[h].key \in Keys
  BY Zenon DEF IInv, WellFormed, IAMMount, At, TargetPCs, KeyPCs
<1>2. UNCHANGED refs
  BY Zenon DEF IAMMount, iamDirs
<1>3. \/ Shared!Mount(call[h].key)
      \/ Shared!Detach(call[h].key)
      \/ UNCHANGED global
  BY <1>2, Zenon DEF IAMMount, SetGlobal, Shared!Mount, Shared!Detach
<1>4. QED
  BY <1>1, <1>2, <1>3, Zenon DEF Shared!Next

\* addPodReference writes a reference to a mount that is there (KeyInv).
LEMMA IAMAddReferenceShared ==
  ASSUME IInv, NEW h \in Handlers, IAMAddReference(h)
  PROVE  [Shared!Next]_<<global, refs>>
<1>1. call[h].key \in Keys /\ call[h].pod \in Pods
  BY Zenon DEF IInv, WellFormed, IAMAddReference, At, TargetPCs, KeyPCs
<1>2. global[call[h].key] # "none"
  BY Zenon DEF IInv, KeyInv, IAMAddReference
<1>3. UNCHANGED global
  BY Zenon DEF IAMAddReference, mounts
<1>4. Shared!Hold(call[h].key, call[h].pod) \/ UNCHANGED refs
  BY <1>2, <1>3, Zenon DEF IAMAddReference, Shared!Hold
<1>5. QED
  BY <1>1, <1>3, <1>4, Zenon DEF Shared!Next

\* A bind mount leaves references alone or, when it fails, removes the pod's.
LEMMA IAMBindShared ==
  ASSUME IInv, NEW h \in Handlers, IAMBind(h) \/ IAMRemount(h)
  PROVE  [Shared!Next]_<<global, refs>>
<1>1. call[h].key \in Keys /\ call[h].pod \in Pods
  BY Zenon DEF IInv, WellFormed, IAMBind, IAMRemount, At, TargetPCs, KeyPCs
<1>2. UNCHANGED global
  BY Zenon DEF IAMBind, IAMRemount
<1>3. Shared!Leave(call[h].key, call[h].pod) \/ UNCHANGED refs
  BY <1>2, Zenon DEF IAMBind, IAMRemount, IAMBindFails, Shared!Leave
<1>4. QED
  BY <1>1, <1>2, <1>3, Zenon DEF Shared!Next

\* The clean-up of a reference removes that of the pod and no other.
LEMMA CleanReferenceShared ==
  ASSUME IInv, NEW h \in Handlers, NEW k \in Keys, CleanReference(h, k)
  PROVE  [Shared!Next]_<<global, refs>>
<1>1. call[h].pod \in Pods
  BY Zenon DEF IInv, WellFormed, CleanReference, At, TargetPCs, KeyPCs
<1>2. UNCHANGED global
  BY Zenon DEF CleanReference, mounts
<1>3. Shared!Leave(k, call[h].pod) \/ UNCHANGED refs
  BY <1>2, Zenon DEF CleanReference, Shared!Leave
<1>4. QED
  BY <1>1, <1>2, <1>3, Zenon DEF Shared!Next

\* A global mount is unmounted without references (KeyInv), and the key's folder
\* is removed without any.
LEMMA TeardownShared ==
  ASSUME IInv, NEW h \in Handlers,
         RemoveRefsDir(h) \/ UnmountGlobal(h) \/ RemoveKeyDir(h)
  PROVE  [Shared!Next]_<<global, refs>>
<1>1. call[h].key \in Keys
  BY Zenon DEF IInv, WellFormed, RemoveRefsDir, UnmountGlobal, RemoveKeyDir, At, TargetPCs,
    KeyPCs
<1>2. global \in [Keys -> MountStates] /\ refs \in [Keys -> SUBSET Pods]
  BY Zenon DEF IInv, TypeOK
<1>3. CASE RemoveRefsDir(h)
  BY <1>3, Zenon DEF RemoveRefsDir, mounts
<1>4. CASE UnmountGlobal(h)
  <2>1. refs[call[h].key] = {} /\ UNCHANGED refs
    BY <1>4, Zenon DEF IInv, KeyInv, UnmountGlobal, iamDirs
  <2>2. \/ global' = [global EXCEPT ![call[h].key] = "none"]
        \/ global' = [global EXCEPT ![call[h].key] = global[call[h].key]]
    BY <1>4, Zenon DEF UnmountGlobal, SetGlobal, UnmountErrors
  <2>3. Shared!Unmount(call[h].key) \/ UNCHANGED global
    BY <1>2, <2>1, <2>2, Zenon DEF Shared!Unmount
  <2>4. QED
    BY <1>1, <2>1, <2>3, Zenon DEF Shared!Next
<1>5. CASE RemoveKeyDir(h)
  <2>1. refs[call[h].key] = {} /\ refs' = [refs EXCEPT ![call[h].key] = {}]
    BY <1>5, Zenon DEF IInv, KeyInv, RemoveKeyDir
  <2>2. refs' = refs
    BY <1>2, <2>1, Zenon
  <2>3. QED
    BY <1>5, <2>2, Zenon DEF RemoveKeyDir, mounts
<1>6. QED
  BY <1>3, <1>4, <1>5, Zenon

\* Pods that come and go and a restart of the driver change nothing; a reboot
\* takes all mounts, an unreachable instance corrupts those of its volume.
LEMMA EnvironmentShared ==
  ASSUME IInv, Environment
  PROVE  [Shared!Next]_<<global, refs>>
<1>1. CASE \E d \in Pods : PodStart(d) \/ PodDelete(d)
  BY <1>1, Zenon DEF PodStart, PodDelete, mounts, iamDirs
<1>2. CASE DriverRestart
  BY <1>2, Zenon DEF DriverRestart, mounts, iamDirs
<1>3. CASE NodeReboot
  BY <1>3, Zenon DEF NodeReboot, iamDirs, Shared!Next, Shared!Reboot
<1>4. CASE \E v \in Volumes : Corrupt(v)
  <2>1. PICK v \in Volumes : Corrupt(v)
    BY <1>4, Zenon
  <2>2. UNCHANGED refs
    BY <2>1, Zenon DEF Corrupt, iamDirs
  <2> DEFINE S == {k \in Keys : v \in IAMVolumes /\ \E d \in Pods : KeyOf[<<d, v>>] = k}
  <2>3. global' = [k \in Keys |-> IF k \in S /\ global[k] # "none" THEN "bad" ELSE global[k]]
    BY <2>1, Zenon DEF Corrupt, Corrupted
  <2>4. Shared!Corrupt(S)
    BY <2>2, <2>3, Zenon DEF Shared!Corrupt
  <2>5. S \in SUBSET Keys
    BY Zenon
  <2>6. QED
    BY <2>4, <2>5, Zenon DEF Shared!Next
<1>5. QED
  BY <1>1, <1>2, <1>3, <1>4, Zenon DEF Environment

\* Every step of a call is a step of SharedMount or changes nothing of it.
LEMMA HandlerStepShared ==
  ASSUME IInv, NEW h \in Handlers, HandlerStep(h)
  PROVE  [Shared!Next]_<<global, refs>>
<1>1. \/ OtherStep(h) \/ IAMMount(h) \/ IAMAddReference(h)
      \/ IAMBind(h) \/ IAMRemount(h)
      \/ \E k \in Keys : CleanReference(h, k)
      \/ RemoveRefsDir(h) \/ UnmountGlobal(h) \/ RemoveKeyDir(h)
  BY Zenon DEF HandlerStep, OtherStep
<1>2. QED
  BY <1>1, OtherStepShared, IAMMountShared, IAMAddReferenceShared, IAMBindShared,
     CleanReferenceShared, TeardownShared, Zenon

\* Every step of the node service is a step of SharedMount or changes nothing of
\* it.
LEMMA NextShared == IInv /\ [Next]_vars => [Shared!Next]_<<global, refs>>
<1> SUFFICES ASSUME IInv, [Next]_vars
             PROVE  [Shared!Next]_<<global, refs>>
  BY Zenon
<1>1. CASE \E v \in Volumes : StageIAM(v)
  BY <1>1, Zenon DEF StageIAM, mounts, iamDirs
<1>2. CASE \E h \in Handlers, v \in Volumes : NodeStageVolume(h, v) \/ NodeUnstageVolume(h, v)
  BY <1>2, Zenon DEF NodeStageVolume, NodeUnstageVolume, mounts, iamDirs
<1>3. CASE \E h \in Handlers, d \in Pods, v \in Volumes :
             NodePublishVolume(h, d, v) \/ NodeUnpublishVolume(h, d, v)
  BY <1>3, StartShared, Zenon
<1>4. CASE \E h \in Handlers : HandlerStep(h)
  BY <1>4, HandlerStepShared, Zenon
<1>5. CASE Environment
  BY <1>5, EnvironmentShared, Zenon
<1>6. CASE UNCHANGED vars
  BY <1>6, Zenon DEF vars, mounts, iamDirs
<1>7. QED
  BY <1>1, <1>2, <1>3, <1>4, <1>5, <1>6, Zenon DEF Next

\* The global mounts of IAM volumes are shared mounts, for any number of pods,
\* volumes, keys, concurrent calls and failures.
THEOREM SharedMountRefinement == Spec => ImplementsSharedMount
<1>1. Init => Shared!Init
  BY Zenon DEF Init, Shared!Init
<1>2. QED
  BY <1>1, NextShared, Invariance, PTL DEF Spec, ImplementsSharedMount, Shared!Spec,
    Shared!vars
=============================================================================
