----------------------------- MODULE NodeServer -----------------------------
(***************************************************************************)
(* The CSI node service of one node (pkg/csi_driver/node.go): staging,     *)
(* publishing, unpublishing and unstaging of Lustre volumes, with the      *)
(* per-principal global mounts of IAM volumes, their reference files and   *)
(* token files.  Each running RPC is a handler; a handler takes one step   *)
(* per system call (or group of calls on files only it may touch), so      *)
(* every interleaving of concurrent RPCs is explored.  The kubelet is the  *)
(* environment: it may repeat a call while an earlier one is still         *)
(* running, because a timed-out RPC keeps running in the driver.           *)
(*                                                                         *)
(* A call that fails before it changes anything (argument validation, a    *)
(* busy lock at entry, a failing stat) is a stuttering step.  Every other  *)
(* failure consumes one unit of the budget MaxFaults.                      *)
(***************************************************************************)
EXTENDS Naturals

CONSTANTS
  Pods,        \* pods scheduled to the node, named by their UID
  Volumes,     \* volume handles
  IAMVolumes,  \* those with IAM access control enabled
  Uses,        \* the pairs <<pod, volume>> of the pods' specs
  ReadOnly,    \* the uses published with readonly set
  Keys,        \* hash keys under GlobalMountRoot
  KeyOf,       \* KeyOf[pod, volume]: hash of volume ID and pod's principal
  FSName,      \* Lustre filesystem name of a volume's instance
  Handlers,    \* goroutines serving RPCs
  MaxFaults,   \* bound on failing calls, restarts and corruptions
  Nil          \* no pod, no volume, no key, no token

Targets == Pods \X Volumes

ASSUME NodeAssumption ==
  /\ IAMVolumes \subseteq Volumes
  /\ Uses \subseteq Targets
  /\ ReadOnly \subseteq Uses
  /\ KeyOf \in [Targets -> Keys]
  /\ MaxFaults \in Nat
  /\ Nil \notin Pods \cup Volumes \cup Keys

\* The volumes of one pod have different keys: a key is a SHA-256 hash of the
\* volume ID and the principal, taken to be free of collisions.
ASSUME KeyAssumption ==
  \A d \in Pods : \A v, w \in IAMVolumes : KeyOf[<<d, v>>] = KeyOf[<<d, w>>] => v = w

VARIABLES
  staging,    \* mount state of each volume's staging path
  target,     \* mount state of each pod's target path
  global,     \* mount state of each key's global mount path
  refsDir,    \* keys whose refs directory exists
  refs,       \* pods with a reference file, per key
  token,      \* the pod whose token is in the key's token file, or Nil
  locks,      \* keys held in volumeLocks
  call,       \* the RPC each handler runs
  phase,      \* life of each pod, as the kubelet sees it
  staged,     \* what the kubelet knows of a volume's staging
  published,  \* targets the kubelet knows to be published
  gone,       \* targets whose unpublish succeeded after the pod's deletion
  faults      \* failures so far

mounts  == <<staging, target, global>>
iamDirs == <<refsDir, refs, token>>
kubelet == <<phase, staged, published, gone>>
vars    == <<mounts, iamDirs, locks, call, kubelet, faults>>

\* "bind": bind-mounted, the remount that applies the options still to come.
MountStates == {"none", "bind", "ok", "bad"}

StagePCs == {"stage_check", "stage_mount", "unstage"}
\* Where a publish, and any call, is inside the critical section of a key.
SectionPCs == {"iam_mount", "iam_ref", "iam_bind", "iam_remount", "iam_undo"}
KeyPCs     == {"iam_mount", "iam_ref", "iam_bind", "iam_remount", "iam_undo",
               "rm_refs", "unmount_global", "rm_key"}
TargetPCs  == KeyPCs \cup {"bind", "remount", "iam_lock", "chown",
                           "unmount_target", "clean"}
PCs        == {"idle"} \cup StagePCs \cup TargetPCs

Calls == [pc: PCs, pod: Pods \cup {Nil}, vol: Volumes \cup {Nil},
          key: Keys \cup {Nil}, seen: BOOLEAN, todo: SUBSET Keys,
          errs: BOOLEAN]

\* A call at l for pod d and volume v, inside the critical section of key k (or
\* of none), which found its target mounted (s), with the keys t still to clean
\* up and with (e) or without an error so far.
Call(l, d, v, k, s, t, e) ==
  [pc |-> l, pod |-> d, vol |-> v, key |-> k, seen |-> s, todo |-> t, errs |-> e]

IdleCall == Call("idle", Nil, Nil, Nil, FALSE, {}, FALSE)

TypeOK ==
  /\ staging \in [Volumes -> MountStates]
  /\ target \in [Targets -> MountStates]
  /\ global \in [Keys -> MountStates]
  /\ refsDir \subseteq Keys
  /\ refs \in [Keys -> SUBSET Pods]
  /\ token \in [Keys -> Pods \cup {Nil}]
  /\ call \in [Handlers -> Calls]
  /\ phase \in [Pods -> {"pending", "running", "deleted"}]
  /\ staged \in [Volumes -> {"no", "maybe", "yes"}]
  /\ published \subseteq Targets
  /\ gone \subseteq Targets
  /\ faults \in 0 .. MaxFaults

Init ==
  /\ staging = [v \in Volumes |-> "none"]
  /\ target = [t \in Targets |-> "none"]
  /\ global = [k \in Keys |-> "none"]
  /\ refsDir = {}
  /\ refs = [k \in Keys |-> {}]
  /\ token = [k \in Keys |-> Nil]
  /\ locks = {}
  /\ call = [h \in Handlers |-> IdleCall]
  /\ phase = [d \in Pods |-> "pending"]
  /\ staged = [v \in Volumes |-> "no"]
  /\ published = {}
  /\ gone = {}
  /\ faults = 0

-----------------------------------------------------------------------------
(* Locks, failures and the bookkeeping of a handler.                       *)

StageLock(v)     == <<"staging", v>>
TargetLock(d, v) == <<"target", d, v>>
KeyLock(k)       == <<"key", k>>

\* Mutant: the key is stored without looking whether it is already there.
BlindAcquire(l) == locks' = locks \cup {l}

TryAcquire(l) ==
  /\ l \notin locks
  /\ locks' = locks \cup {l}

\* The locks the deferred Release calls of h's call give back on return.
Held(h) ==
  LET c == call[h] IN
       (IF c.pc \in StagePCs THEN {StageLock(c.vol)} ELSE {})
  \cup (IF c.pc \in TargetPCs THEN {TargetLock(c.pod, c.vol)} ELSE {})
  \cup (IF c.pc \in KeyPCs THEN {KeyLock(c.key)} ELSE {})

At(h, l) == call[h].pc = l

InSection(k, pcs) == \E h \in Handlers : call[h].pc \in pcs /\ call[h].key = k

Start(h, l, d, v, s) ==
  call' = [call EXCEPT ![h] = Call(l, d, v, Nil, s, {}, FALSE)]

Become(h, l, k, t, e) ==
  call' = [call EXCEPT ![h] =
             Call(l, call[h].pod, call[h].vol, k, call[h].seen, t, e)]

Goto(h, l)     == Become(h, l, call[h].key, call[h].todo, call[h].errs)
Enter(h, l, k) == Become(h, l, k, call[h].todo, call[h].errs)

\* Mutant: the refusal of a file system name in use returns without the Release.
ReturnKeepingLock(h) ==
  /\ call' = [call EXCEPT ![h] = IdleCall]
  /\ locks' = IF At(h, "stage_check") THEN locks ELSE locks \ Held(h)

Return(h) ==
  /\ call' = [call EXCEPT ![h] = IdleCall]
  /\ locks' = locks \ Held(h)

Faults(n) == faults + n <= MaxFaults /\ faults' = faults + n
Fault     == Faults(1)
NoFault   == UNCHANGED faults

Target(h) == <<call[h].pod, call[h].vol>>

SetTarget(h, m)  == target' = [target EXCEPT ![Target(h)] = m]
SetGlobal(h, m)  == global' = [global EXCEPT ![call[h].key] = m]

\* What unmountPath may leave behind when it reports an error: the mount still
\* there, or the mount gone and its directory not removed.
UnmountErrors(m) == {m, "none"}

Wanted(d, v) == <<d, v>> \in Uses /\ phase[d] = "running"

-----------------------------------------------------------------------------
(* NodeStageVolume and NodeUnstageVolume.                                  *)

\* Staging an IAM volume is skipped: the call succeeds at once.
StageIAM(v) ==
  /\ v \in IAMVolumes /\ staged[v] # "yes"
  /\ \E d \in Pods : Wanted(d, v)
  /\ staged' = [staged EXCEPT ![v] = "yes"]
  /\ UNCHANGED <<mounts, iamDirs, locks, call, phase, published, gone, faults>>

\* The staging path is locked and examined.  A healthy mount ends the call; a
\* corrupted one is unmounted by isMounted and staged anew.
NodeStageVolume(h, v) ==
  /\ At(h, "idle") /\ v \notin IAMVolumes /\ staged[v] # "yes"
  /\ \E d \in Pods : Wanted(d, v)
  /\ \/ /\ staging[v] = "ok" /\ StageLock(v) \notin locks
        /\ staged' = [staged EXCEPT ![v] = "yes"]
        /\ UNCHANGED <<staging, locks, call>>
     \/ /\ staging[v] # "ok" /\ TryAcquire(StageLock(v))
        /\ staging' = [staging EXCEPT ![v] = "none"]
        /\ staged' = [staged EXCEPT ![v] = "maybe"]
        /\ Start(h, "stage_check", Nil, v, FALSE)
  /\ UNCHANGED <<target, global, iamDirs, phase, published, gone, faults>>

\* Some entry of the mount table has a device of this filesystem name.
HasMountWithSameFSName(f) ==
  \/ \E v \in Volumes : FSName[v] = f /\ staging[v] # "none"
  \/ \E t \in Targets : FSName[t[2]] = f
       /\ (target[t] # "none" \/ (t[2] \in IAMVolumes /\ global[KeyOf[t]] # "none"))

\* The mount table is listed, which may fail, and a name in use is refused.
StageCheck(h) ==
  /\ At(h, "stage_check")
  /\ \/ HasMountWithSameFSName(FSName[call[h].vol]) /\ NoFault /\ Return(h)
     \/ /\ ~HasMountWithSameFSName(FSName[call[h].vol]) /\ NoFault
        /\ Goto(h, "stage_mount") /\ UNCHANGED locks
     \/ Fault /\ Return(h)
  /\ UNCHANGED <<mounts, iamDirs, kubelet>>

\* Mutant: a failed mount is reported as a success.
StageMountIgnoringError(h) ==
  /\ At(h, "stage_mount")
  /\ \/ NoFault /\ staging' = [staging EXCEPT ![call[h].vol] = "ok"]
     \/ Fault /\ UNCHANGED staging
  /\ staged' = [staged EXCEPT ![call[h].vol] = "yes"]
  /\ Return(h)
  /\ UNCHANGED <<target, global, iamDirs, phase, published, gone>>

\* Route set-up, directory and mount.  When one of them fails nothing is left
\* mounted: the clean-up by unmountPath only removes the directory.
StageMount(h) ==
  /\ At(h, "stage_mount")
  /\ \/ /\ NoFault
        /\ staging' = [staging EXCEPT ![call[h].vol] = "ok"]
        /\ staged' = [staged EXCEPT ![call[h].vol] = "yes"]
     \/ Fault /\ UNCHANGED <<staging, staged>>
  /\ Return(h)
  /\ UNCHANGED <<target, global, iamDirs, phase, published, gone>>

\* The kubelet unstages a volume no pod of the node uses any more.
NodeUnstageVolume(h, v) ==
  /\ At(h, "idle") /\ staged[v] # "no"
  /\ \A d \in Pods : <<d, v>> \in Uses => phase[d] = "pending" \/ <<d, v>> \in gone
  /\ TryAcquire(StageLock(v))
  /\ staged' = [staged EXCEPT ![v] = "maybe"]
  /\ Start(h, "unstage", Nil, v, FALSE)
  /\ UNCHANGED <<mounts, iamDirs, phase, published, gone, faults>>

UnstageUnmount(h) ==
  /\ At(h, "unstage")
  /\ \/ /\ NoFault
        /\ staging' = [staging EXCEPT ![call[h].vol] = "none"]
        /\ staged' = [staged EXCEPT ![call[h].vol] = "no"]
     \/ /\ Fault
        /\ \E m \in UnmountErrors(staging[call[h].vol]) :
             staging' = [staging EXCEPT ![call[h].vol] = m]
        /\ UNCHANGED staged
  /\ Return(h)
  /\ UNCHANGED <<target, global, iamDirs, phase, published, gone>>

-----------------------------------------------------------------------------
(* NodePublishVolume, which the kubelet repeats for as long as the pod     *)
(* runs (requiresRepublish).  publishIAMVolume holds the key's lock from   *)
(* "iam_mount" to "iam_remount" or "iam_undo".                             *)

\* What isMounted leaves of a mount it examines: a corrupted one is unmounted.
Examined(m) == IF m = "bad" THEN "none" ELSE m

\* The target path is locked, created and examined.
NodePublishVolume(h, d, v) ==
  /\ At(h, "idle") /\ Wanted(d, v) /\ staged[v] = "yes"
  /\ TryAcquire(TargetLock(d, v))
  /\ target' = [target EXCEPT ![<<d, v>>] = Examined(@)]
  /\ Start(h, IF v \in IAMVolumes THEN "iam_lock" ELSE "bind", d, v,
           target[<<d, v>>] \in {"bind", "ok"})
  /\ UNCHANGED <<staging, global, iamDirs, kubelet, faults>>

\* The bind mount of a volume without IAM, from its staging path.
PublishBind(h) ==
  /\ At(h, "bind")
  /\ \/ call[h].seen /\ NoFault /\ Goto(h, "chown") /\ UNCHANGED <<target, locks>>
     \/ /\ ~call[h].seen /\ NoFault
        /\ SetTarget(h, "bind") /\ Goto(h, "remount") /\ UNCHANGED locks
     \/ ~call[h].seen /\ Fault /\ Return(h) /\ UNCHANGED target
  /\ UNCHANGED <<staging, global, iamDirs, kubelet>>

\* The second half of mount-utils' bind mount: the remount that applies "ro".
PublishRemount(h) ==
  /\ At(h, "remount")
  /\ \/ NoFault /\ SetTarget(h, "ok") /\ Goto(h, "chown") /\ UNCHANGED locks
     \/ Fault /\ Return(h) /\ UNCHANGED target
  /\ UNCHANGED <<staging, global, iamDirs, kubelet>>

\* The key's lock is taken, its directories are made and the token written.
IAMLock(h) ==
  LET k == KeyOf[Target(h)] IN
  /\ At(h, "iam_lock")
  /\ \/ /\ TryAcquire(KeyLock(k)) /\ NoFault
        /\ Enter(h, "iam_mount", k)
        /\ refsDir' = refsDir \cup {k}
        /\ token' = [token EXCEPT ![k] = call[h].pod]
     \/ /\ KeyLock(k) \in locks /\ NoFault
        /\ Return(h) /\ UNCHANGED <<refsDir, token>>
     \/ /\ KeyLock(k) \notin locks /\ Fault
        /\ Return(h) /\ refsDir' \in {refsDir, refsDir \cup {k}} /\ UNCHANGED token
  /\ UNCHANGED <<mounts, refs, kubelet>>

\* Mutant: an error of mountGlobalIAM is only logged.
IAMMountIgnoringError(h) ==
  /\ At(h, "iam_mount")
  /\ \/ NoFault /\ SetGlobal(h, "ok")
     \/ Fault /\ UNCHANGED global
  /\ Goto(h, "iam_ref") /\ UNCHANGED locks
  /\ UNCHANGED <<staging, target, iamDirs, kubelet>>

\* isMounted on the global path, then mountGlobalIAM unless it is mounted.
IAMMount(h) ==
  LET k == call[h].key IN
  /\ At(h, "iam_mount")
  /\ \/ /\ NoFault /\ SetGlobal(h, "ok")
        /\ Goto(h, "iam_ref") /\ UNCHANGED locks
     \/ /\ Fault /\ Return(h)
        /\ \/ UNCHANGED global
           \/ global[k] = "bad" /\ SetGlobal(h, "none")
  /\ UNCHANGED <<staging, target, iamDirs, kubelet>>

\* addPodReference.  The refs directory is there: IAMLock made it under the
\* lock still held (KeyInv).
IAMAddReference(h) ==
  /\ At(h, "iam_ref")
  /\ \/ /\ NoFault
        /\ refs' = [refs EXCEPT ![call[h].key] = @ \cup {call[h].pod}]
        /\ Goto(h, "iam_bind") /\ UNCHANGED locks
     \/ Fault /\ Return(h) /\ UNCHANGED refs
  /\ UNCHANGED <<mounts, refsDir, token, kubelet>>

\* A failed bind mount removes the reference and then unmounts the target; the
\* global mount is left alone.  Errors of the two clean-ups are only logged.
IAMBindFails(h) ==
  /\ \/ Faults(1) /\ refs' = [refs EXCEPT ![call[h].key] = @ \ {call[h].pod}]
     \/ Faults(2) /\ UNCHANGED refs
  /\ Goto(h, "iam_undo") /\ UNCHANGED <<target, locks>>

IAMUndo(h) ==
  /\ At(h, "iam_undo")
  /\ \/ NoFault /\ SetTarget(h, "none")
     \/ Fault /\ \E m \in UnmountErrors(target[Target(h)]) : SetTarget(h, m)
  /\ Return(h)
  /\ UNCHANGED <<staging, global, iamDirs, kubelet>>

\* Mutant: the lock of the key is not released.
PublishDoneKeepingLock(h) == Enter(h, "chown", Nil) /\ UNCHANGED locks

PublishDone(h) ==
  /\ locks' = locks \ {KeyLock(call[h].key)}
  /\ Enter(h, "chown", Nil)

IAMBind(h) ==
  /\ At(h, "iam_bind")
  /\ \/ call[h].seen /\ NoFault /\ PublishDone(h) /\ UNCHANGED <<target, refs>>
     \/ /\ ~call[h].seen /\ NoFault
        /\ SetTarget(h, "bind") /\ Goto(h, "iam_remount") /\ UNCHANGED <<refs, locks>>
     \/ ~call[h].seen /\ IAMBindFails(h)
  /\ UNCHANGED <<staging, global, refsDir, token, kubelet>>

IAMRemount(h) ==
  /\ At(h, "iam_remount")
  /\ \/ NoFault /\ SetTarget(h, "ok") /\ PublishDone(h) /\ UNCHANGED refs
     \/ IAMBindFails(h)
  /\ UNCHANGED <<staging, global, refsDir, token, kubelet>>

\* setVolumeOwnershipTopLevel does nothing to a read-only volume; when it fails
\* the target is unmounted and, for an IAM volume, the pod's reference stays.
PublishOwnership(h) ==
  /\ At(h, "chown")
  /\ \/ NoFault /\ published' = published \cup {Target(h)} /\ UNCHANGED target
     \/ /\ Target(h) \notin ReadOnly /\ UNCHANGED published
        /\ \/ Faults(1) /\ SetTarget(h, "none")
           \/ Faults(2) /\ UNCHANGED target
  /\ Return(h)
  /\ UNCHANGED <<staging, global, iamDirs, phase, staged, gone>>

-----------------------------------------------------------------------------
(* NodeUnpublishVolume, with the clean-up of every reference of the pod.   *)

NodeUnpublishVolume(h, d, v) ==
  /\ At(h, "idle") /\ <<d, v>> \in Uses
  /\ phase[d] = "deleted" /\ <<d, v>> \notin gone
  /\ TryAcquire(TargetLock(d, v))
  /\ Start(h, "unmount_target", d, v, FALSE)
  /\ UNCHANGED <<mounts, iamDirs, kubelet, faults>>

\* Mutant: the matched paths themselves are taken for the keys.
ReferencedPaths(d) == {<<k, d>> : k \in {j \in Keys : d \in refs[j]}}

\* The keys the glob <root>/*/refs/<podUID> matches.
Referenced(d) == {k \in Keys : d \in refs[k]}

UnpublishUnmount(h) ==
  /\ At(h, "unmount_target")
  /\ \/ /\ NoFault /\ SetTarget(h, "none")
        /\ Become(h, "clean", Nil, Referenced(call[h].pod), FALSE)
        /\ UNCHANGED locks
     \/ /\ Fault /\ Return(h)
        /\ \E m \in UnmountErrors(target[Target(h)]) : SetTarget(h, m)
  /\ UNCHANGED <<staging, global, iamDirs, kubelet>>

\* Mutant: a key that could not be cleaned up is only logged.
UnpublishReturnIgnoringErrors(h) ==
  /\ At(h, "clean") /\ call[h].todo = {}
  /\ Return(h)
  /\ gone' = gone \cup {Target(h)}
  /\ UNCHANGED <<mounts, iamDirs, phase, staged, published, faults>>

\* Ends the call once all matches are handled; any error makes it fail.
UnpublishReturn(h) ==
  /\ At(h, "clean") /\ call[h].todo = {}
  /\ Return(h)
  /\ gone' = IF call[h].errs THEN gone ELSE gone \cup {Target(h)}
  /\ UNCHANGED <<mounts, iamDirs, phase, staged, published, faults>>

\* Next match of the glob: its key is locked and the reference removed.
CleanReference(h, k) ==
  /\ At(h, "clean") /\ k \in call[h].todo
  /\ \/ /\ TryAcquire(KeyLock(k)) /\ NoFault
        /\ refs' = [refs EXCEPT ![k] = @ \ {call[h].pod}]
        /\ Become(h, "rm_refs", k, call[h].todo \ {k}, call[h].errs)
     \/ /\ KeyLock(k) \in locks /\ NoFault /\ UNCHANGED <<refs, locks>>
        /\ Become(h, "clean", Nil, call[h].todo \ {k}, TRUE)
     \/ /\ KeyLock(k) \notin locks /\ Fault /\ UNCHANGED <<refs, locks>>
        /\ Become(h, "clean", Nil, call[h].todo \ {k}, TRUE)
  /\ UNCHANGED <<mounts, refsDir, token, kubelet>>

\* Back to the loop over the matches, giving the key's lock back.
CleanNext(h, failed) ==
  /\ locks' = locks \ {KeyLock(call[h].key)}
  /\ Become(h, "clean", Nil, call[h].todo, call[h].errs \/ failed)

\* Mutant: the refs directory is removed with whatever is in it.
RemoveRefsDirRecursively(h) ==
  LET k == call[h].key IN
  /\ At(h, "rm_refs") /\ NoFault
  /\ refsDir' = refsDir \ {k} /\ refs' = [refs EXCEPT ![k] = {}]
  /\ Goto(h, "unmount_global") /\ UNCHANGED locks
  /\ UNCHANGED <<mounts, token, kubelet>>

\* os.Remove of the refs directory succeeds only when the directory is empty.
RemoveRefsDir(h) ==
  LET k == call[h].key IN
  /\ At(h, "rm_refs")
  /\ \/ /\ k \in refsDir /\ refs[k] = {} /\ NoFault
        /\ refsDir' = refsDir \ {k}
        /\ Goto(h, "unmount_global") /\ UNCHANGED locks
     \/ /\ ~(k \in refsDir /\ refs[k] = {}) /\ NoFault
        /\ CleanNext(h, FALSE) /\ UNCHANGED refsDir
     \/ Fault /\ CleanNext(h, TRUE) /\ UNCHANGED refsDir
  /\ UNCHANGED <<mounts, refs, token, kubelet>>

\* Mutant: the key folder is removed although the unmount failed.
UnmountGlobalIgnoringErrors(h) ==
  /\ At(h, "unmount_global")
  /\ \/ NoFault /\ SetGlobal(h, "none")
     \/ Fault /\ UNCHANGED global
  /\ Goto(h, "rm_key") /\ UNCHANGED locks
  /\ UNCHANGED <<staging, target, iamDirs, kubelet>>

UnmountGlobal(h) ==
  /\ At(h, "unmount_global")
  /\ \/ NoFault /\ SetGlobal(h, "none") /\ Goto(h, "rm_key") /\ UNCHANGED locks
     \/ /\ Fault /\ CleanNext(h, TRUE)
        /\ \E m \in UnmountErrors(global[call[h].key]) : SetGlobal(h, m)
  /\ UNCHANGED <<staging, target, iamDirs, kubelet>>

\* Mutant: only the directories are removed, not the token file.
RemoveKeyDirKeepsToken(h) ==
  LET k == call[h].key IN
  /\ At(h, "rm_key")
  /\ refsDir' = refsDir \ {k} /\ refs' = [refs EXCEPT ![k] = {}]
  /\ NoFault /\ CleanNext(h, FALSE) /\ UNCHANGED token
  /\ UNCHANGED <<mounts, kubelet>>

\* os.RemoveAll of the key's folder: token, references and all.
RemoveKeyDir(h) ==
  LET k == call[h].key IN
  /\ At(h, "rm_key")
  /\ refsDir' = refsDir \ {k} /\ refs' = [refs EXCEPT ![k] = {}]
  /\ \/ NoFault /\ CleanNext(h, FALSE) /\ token' = [token EXCEPT ![k] = Nil]
     \/ Fault /\ CleanNext(h, TRUE) /\ token' \in {token, [token EXCEPT ![k] = Nil]}
  /\ UNCHANGED <<mounts, kubelet>>

-----------------------------------------------------------------------------
(* The environment: pods come and go, the driver restarts, the node        *)
(* reboots, an instance becomes unreachable.                               *)

PodStart(d) ==
  /\ phase[d] = "pending"
  /\ phase' = [phase EXCEPT ![d] = "running"]
  /\ UNCHANGED <<mounts, iamDirs, locks, call, staged, published, gone, faults>>

PodDelete(d) ==
  /\ phase[d] = "running"
  /\ phase' = [phase EXCEPT ![d] = "deleted"]
  /\ published' = {t \in published : t[1] # d}
  /\ UNCHANGED <<mounts, iamDirs, locks, call, staged, gone, faults>>

\* The driver container restarts: calls and locks are lost, mounts and files
\* on the host stay.
DriverRestart ==
  /\ Fault
  /\ call' = [h \in Handlers |-> IdleCall] /\ locks' = {}
  /\ UNCHANGED <<mounts, iamDirs, kubelet>>

\* The node reboots: the mounts are lost as well, files under /var/lib stay.
NodeReboot ==
  /\ Fault
  /\ call' = [h \in Handlers |-> IdleCall] /\ locks' = {}
  /\ staging' = [v \in Volumes |-> "none"]
  /\ target' = [t \in Targets |-> "none"]
  /\ global' = [k \in Keys |-> "none"]
  /\ staged' = [v \in Volumes |-> "no"] /\ published' = {}
  /\ UNCHANGED <<iamDirs, phase, gone>>

Corrupted(m) == IF m = "none" THEN m ELSE "bad"

\* Every mount of a volume's instance turns into a corrupted mount.
Corrupt(v) ==
  /\ Fault
  /\ staging' = [staging EXCEPT ![v] = Corrupted(@)]
  /\ target' = [t \in Targets |-> IF t[2] = v THEN Corrupted(target[t]) ELSE target[t]]
  /\ global' = [k \in Keys |-> IF v \in IAMVolumes /\ \E d \in Pods : KeyOf[<<d, v>>] = k
                               THEN Corrupted(global[k]) ELSE global[k]]
  /\ UNCHANGED <<iamDirs, locks, call, kubelet>>

-----------------------------------------------------------------------------
HandlerStep(h) ==
  \/ StageCheck(h) \/ StageMount(h) \/ UnstageUnmount(h)
  \/ PublishBind(h) \/ PublishRemount(h)
  \/ IAMLock(h) \/ IAMMount(h) \/ IAMAddReference(h)
  \/ IAMBind(h) \/ IAMRemount(h) \/ IAMUndo(h) \/ PublishOwnership(h)
  \/ UnpublishUnmount(h) \/ UnpublishReturn(h)
  \/ \E k \in Keys : CleanReference(h, k)
  \/ RemoveRefsDir(h) \/ UnmountGlobal(h) \/ RemoveKeyDir(h)

Environment ==
  \/ \E d \in Pods : PodStart(d) \/ PodDelete(d)
  \/ DriverRestart \/ NodeReboot
  \/ \E v \in Volumes : Corrupt(v)

Next ==
  \/ \E v \in Volumes : StageIAM(v)
  \/ \E h \in Handlers, v \in Volumes : NodeStageVolume(h, v) \/ NodeUnstageVolume(h, v)
  \/ \E h \in Handlers, d \in Pods, v \in Volumes :
       NodePublishVolume(h, d, v) \/ NodeUnpublishVolume(h, d, v)
  \/ \E h \in Handlers : HandlerStep(h)
  \/ Environment

Spec == Init /\ [][Next]_vars

\* An unpublish of a volume of pod d turns to the reference to key k.
TurnsTo(d, k) == \E h \in Handlers : call[h].pod = d /\ CleanReference(h, k)

\* Running calls make progress, and the kubelet keeps retrying the unpublish
\* of a deleted pod's volumes; other calls cannot keep it out for ever, since
\* the server sets no limit on concurrent calls.  The lock of a key does not
\* queue its callers, so the last conjunct is asked of the schedule: running
\* pods that republish, at intervals of their own, do not have the lock every
\* single time a retried unpublish turns to the key.
Fairness ==
  /\ \A h \in Handlers : WF_vars(HandlerStep(h))
  /\ \A t \in Uses : SF_vars(\E h \in Handlers : NodeUnpublishVolume(h, t[1], t[2]))
  /\ \A t \in Uses :
       LET d == t[1]  k == KeyOf[t] IN
       t[2] \in IAMVolumes /\ []<><<TurnsTo(d, k)>>_vars
         => []<><<TurnsTo(d, k) /\ ~InSection(k, SectionPCs)>>_vars

FairSpec == Spec /\ Fairness

-----------------------------------------------------------------------------
(* Properties.                                                             *)

\* volumeLocks is exact: every running call holds the locks it is entitled to, no
\* two calls share one, and there is no lock that no running call will give back.
\* TryAcquire and the deferred Release calls achieve it on every return path.
LocksExclusive ==
  /\ \A h \in Handlers :
       /\ Held(h) \subseteq locks
       /\ \A g \in Handlers \ {h} : Held(g) \cap Held(h) = {}
  /\ \A l \in locks : \E h \in Handlers : l \in Held(h)

\* While a handler takes a global mount down (cleanUpIAMReferenceForKey after
\* the refs directory is gone) no pod holds a reference to the key, and no
\* other handler is inside the key's critical section.
TeardownExclusive ==
  \A h \in Handlers :
    At(h, "unmount_global") \/ At(h, "rm_key") =>
      /\ refs[call[h].key] = {}
      /\ \A g \in Handlers \ {h} : call[g].pc \in KeyPCs => call[g].key # call[h].key

\* os.RemoveAll of a key's folder never runs while the Lustre file system is
\* mounted below it: it would delete the data of the volume.
RemoveAllDetached ==
  \A h \in Handlers : At(h, "rm_key") => global[call[h].key] = "none"

\* A bind mount never exposes the bare directory under an absent mount: its
\* source, the staging or the global path, is mounted when it is taken.
BindSourceMounted ==
  \A h \in Handlers :
    /\ At(h, "iam_bind") => global[call[h].key] # "none"
    /\ At(h, "bind") /\ ~call[h].seen => staging[call[h].vol] # "none"

\* A failed publish is about to unmount its target, with the key's lock held.
Undoing(t) == \E h \in Handlers : At(h, "iam_undo") /\ Target(h) = t

\* As long as a pod's IAM target is mounted, the pod's reference and the token
\* file of its key are there: "Write volumeID to the ref file to verify
\* ownership during unpublish" (addPodReference).  Between the two clean-ups of a
\* failed bind mount the reference is gone first, with the key's lock held; a
\* second failure there, a failing unmount or a restart, leaves it that way.
BoundKeepsReference ==
  faults < 2 =>
    \A t \in Uses :
      t[2] \in IAMVolumes /\ target[t] # "none" =>
        (t[1] \in refs[KeyOf[t]] \/ Undoing(t)) /\ token[KeyOf[t]] # Nil

\* A volume whose unpublish succeeded stays unpublished: no call still running
\* mounts the target again or refers to the key again.
UnpublishComplete ==
  \A t \in gone :
    target[t] = "none" /\ (t[2] \in IAMVolumes => t[1] \notin refs[KeyOf[t]])

\* Every use of the key is over and no call is running.
Abandoned(k) ==
  /\ \A h \in Handlers : At(h, "idle")
  /\ \A t \in Uses : KeyOf[t] = k /\ t[2] \in IAMVolumes =>
                        phase[t[1]] = "pending" \/ t \in gone

\* When every pod that used a key is unpublished, the key's global mount is
\* gone: references are there "to safely manage unmounting during teardown"
\* (publishIAMVolume).
NoLeakedGlobalMount ==
  \A k \in Keys : Abandoned(k) => global[k] = "none"

\* Unless something failed, the last unpublish leaves nothing of a key: neither
\* its global mount nor its folder with the token file ("Clean up the entire
\* key folder", cleanUpIAMReferenceForKey), whatever calls ran concurrently.
CleanTeardown ==
  faults = 0 =>
    /\ NoLeakedGlobalMount
    /\ \A k \in Keys : Abandoned(k) => token[k] = Nil /\ k \notin refsDir

MountedOnNode(v) ==
  \/ staging[v] # "none"
  \/ \E d \in Pods : target[<<d, v>>] # "none"
  \/ v \in IAMVolumes /\ \E d \in Pods : global[KeyOf[<<d, v>>]] # "none"

\* Two volumes of the same Lustre filesystem name are never mounted on the
\* node at once (hasMountWithSameFSName).
UniqueFSName ==
  \A v, w \in Volumes :
    v # w /\ MountedOnNode(v) /\ MountedOnNode(w) => FSName[v] # FSName[w]

\* A use published with readonly set never has its target mounted without the
\* options of the remount.
ReadOnlyHonoured ==
  \A t \in ReadOnly \cap published : target[t] # "bind"

\* Each volume of a deleted pod is eventually unpublished with success, although
\* other pods keep republishing theirs: whatever a failed, interrupted or
\* refused unpublish leaves behind, the next one copes with it.
DeletedPodUnpublished ==
  \A t \in Uses : phase[t[1]] = "deleted" ~> t \in gone

-----------------------------------------------------------------------------
(* The inductive invariant behind TeardownExclusive, RemoveAllDetached and *)
(* BindSourceMounted.                                                      *)

\* A handler's arguments are set as far as it has got.
WellFormed ==
  \A h \in Handlers :
    /\ call[h].pc \in StagePCs => call[h].vol \in Volumes
    /\ call[h].pc \in TargetPCs => call[h].pod \in Pods /\ call[h].vol \in Volumes
    /\ call[h].pc \in KeyPCs => call[h].key \in Keys

\* What the state of a key owes to the handler inside its critical section.
KeyInv ==
  \A h \in Handlers :
    /\ At(h, "unmount_global") \/ At(h, "rm_key") => refs[call[h].key] = {}
    /\ At(h, "rm_key") => global[call[h].key] = "none"
    /\ At(h, "iam_ref") \/ At(h, "iam_bind") => global[call[h].key] # "none"
    /\ At(h, "iam_mount") \/ At(h, "iam_ref") => call[h].key \in refsDir

UnpublishPCs == {"unmount_target", "clean", "rm_refs", "unmount_global", "rm_key"}

\* The kubelet's order of calls keeps a staged volume staged while a handler is
\* about to bind it.
StageInv ==
  /\ \A v \in Volumes \ IAMVolumes : staged[v] = "yes" => staging[v] # "none"
  /\ \A t \in gone : phase[t[1]] = "deleted"
  /\ \A h \in Handlers :
       /\ call[h].pc \in StagePCs /\ call[h].vol \notin IAMVolumes
            => staged[call[h].vol] # "yes"
       /\ At(h, "bind") =>
            /\ call[h].vol \notin IAMVolumes /\ staged[call[h].vol] = "yes"
            /\ Target(h) \in Uses \ gone /\ phase[call[h].pod] # "pending"
       /\ call[h].pc \in UnpublishPCs => phase[call[h].pod] = "deleted"

IInv == TypeOK /\ WellFormed /\ LocksExclusive /\ KeyInv /\ StageInv

-----------------------------------------------------------------------------
(* The inductive invariant, on top of IInv, behind UnpublishComplete,      *)
(* CleanTeardown and BoundKeepsReference.                                  *)

IAMPCs     == {"iam_lock"} \cup SectionPCs
PublishPCs == IAMPCs \cup {"bind", "remount", "chown"}
CleanPCs   == UnpublishPCs \ {"unmount_target"}

\* What a publish or an unpublish may rely on: no publish runs for a target that
\* is gone, the reference a bind mount needs is there while it is made, and an
\* unpublish without an error so far has the pod's reference removed or still on
\* its list.
CallInv(h) ==
  LET c == call[h]  t == Target(h)  k == KeyOf[t] IN
  /\ c.pc \in TargetPCs => t \in Uses
  /\ c.pc \in PublishPCs => phase[c.pod] # "pending" /\ t \notin gone
  /\ c.pc \in {"bind", "remount"} => c.vol \notin IAMVolumes
  /\ c.pc \in IAMPCs => c.vol \in IAMVolumes
  /\ c.pc \in SectionPCs => c.key = k /\ token[k] # Nil
  /\ c.pc \in {"iam_bind", "iam_remount"} => c.pod \in refs[k]
  /\ c.pc \in CleanPCs =>
       /\ target[t] = "none"
       /\ c.vol \in IAMVolumes /\ ~c.errs => k \in c.todo \/ c.pod \notin refs[k]

\* A reference belongs to a pod that was started and uses an IAM volume of the key.
HolderInv ==
  \A k \in Keys : \A d \in refs[k] :
    /\ phase[d] # "pending"
    /\ \E v \in IAMVolumes : <<d, v>> \in Uses /\ KeyOf[<<d, v>>] = k

\* A key without references and outside every critical section has no refs
\* directory, and one without that directory has neither a mount nor a token,
\* except while it is taken down.
CleanAt(k) ==
  /\ refs[k] = {} /\ ~InSection(k, KeyPCs) => k \notin refsDir
  /\ k \notin refsDir /\ ~InSection(k, {"unmount_global", "rm_key"})
       => global[k] = "none" /\ token[k] = Nil

CleanInv == faults = 0 => \A k \in Keys : CleanAt(k)

\* Each call knows what it may rely on, an answered unpublish left nothing, a
\* reference has a pod behind it, and without failures nothing is left over.
ReferenceInv ==
  /\ \A h \in Handlers : CallInv(h)
  /\ UnpublishComplete /\ HolderInv /\ CleanInv
=============================================================================
