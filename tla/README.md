# TLA+ specifications of the Lustre CSI driver

These modules model the parts of the driver in which calls run concurrently,
fail half-way, are retried, or outlive the process that made them: the node
service, the policy routing it sets up, the start of the node pod with the
kernel modules and the upcall path, and the controller service and the label
controller with the long-running operations of the Lustre service. What
Kubernetes may rely on is stated apart, in two short specifications that the
detailed ones implement. TLC checks all of it on small instances. TLAPS proves
every safety property of the passing runs for every value of the constants, under
the hypotheses that section 6 names; liveness is left to TLC.

`PROJECT.json` lists the components, the runs, the lines of `src/` that each
definition models, the findings, the hazards and the theorems.

## 1. Inventory

| component | state | operations | hard behaviour | modelled in |
|---|---|---|---|---|
| node service, `pkg/csi_driver/node.go` | mounts of the staging, target and global paths; reference and token files per key; `volumeLocks` | NodeStageVolume, NodeUnstageVolume, NodePublishVolume (plain and IAM), NodeUnpublishVolume | concurrent calls that share a global mount; failing mounts and unmounts; restart, reboot; corrupted mounts; republishing | `NodeServer` |
| unmount cascade, `unmount.go` | none of its own | `unmountPath`: umount, `-f`, `-l`, remove the directory | timeouts; an error with the mount gone | `NodeServer` (outcomes only) |
| volume locks, `pkg/util/volume_lock.go` | the set of held keys | TryAcquire, Release | early returns, restart | `NodeServer`, `Controller` |
| multi-NIC routing, `pkg/network/network.go`, `setUpMultiNIC` | routes and rules of the kernel | FindNextFreeTableID, isTableFree, ConfigureRoute | overlapping set-ups; failures between two netlink calls; tables run out | `MultiNIC` |
| controller service, `controller.go` | `volumeLocks` | CreateVolume, DeleteVolume, ControllerExpandVolume | cancelled calls whose operation goes on; lost answers; codes that end the retries; restarts | `Controller` |
| Lustre client, `pkg/cloud_provider/lustre` | instances and operations, at the service | Get, List, Create, Delete, Resize, Update, the two searches of operations | operations end, or fail, at any time; updates overlap | `Controller`, `LabelController` |
| label controller, `pkg/labelcontroller` | labels of instances | Reconcile | read, modify, write; update operations beside expansions; a lost lease | `LabelController` |
| kernel module installer, `pkg/kmod_installer`, `cmd/kmod_installer`, with NIC discovery | loaded modules, LNet's port and NICs, in the kernel | check, install on COS and Ubuntu | a failure between two modules, then a restart; flags and labels that change under a loaded LNet | `KmodInstaller` |
| key upcall, `pkg/upcall`, `cmd/lustre-host-proxy` | socket, host files, a kernel parameter | set up the host, serve, proxy | deadlines, retries, a crash during the set-up, calls that outlive the driver | `NodeBoot` |
| gRPC server, identity, metadata, credentials, metrics | none that changes after start-up | | | no: sequential, pure I/O |

What makes the driver correct, component by component:

* *Node*: a target is bound only from a mounted source; a global mount stays as
  long as a pod refers to it, goes with the last one, and its folder is never
  removed while the file system is mounted in it; a successful unpublish is
  final; deleted pods get unpublished; read-only means read-only; no two
  file systems of one name on a node.
* *Routing*: a table serves one NIC; packets with a NIC's address leave through
  it; a NIC keeps its table; the search ends.
* *Start of the pod*: success of the installer means that the modules are there
  with the port asked for; LNet uses NICs of one network and the driver routes
  through those; the pod
  comes up whenever a restart can help; upcalls end, and meet a whole binary.
* *Controller*: one creation per volume and zone; success means that the instance is
  there, or gone; the driver's own verdict that ends the retries leaves no
  instance behind; a capacity answers its request and never shrinks; retries end.
* *Label controller*: every instance in use gets a label, and loses none.

## 2. Plan

Done, in this order: `NodeServer` and its proofs, `MultiNIC` and its proofs,
`Controller`, `KmodInstaller` and `NodeBoot`; then error codes, zones and labels
in `Controller`, `LabelController` beside it, and the abstract specifications
`Volume` and `SharedMount` with their refinements, and the proofs of the
controllers' safety and of both refinements; then the proofs about references
and unpublishing, about the use of routing tables, and about the start of the
pod; then the controllers with instances of a volume in several zones, and what
the loops over NICs return. Next: a late unmount (a umount killed by its timeout that finishes
afterwards), and the three attempts of `unmountPath` as steps.

## 3. Modules

### NodeServer

A handler is one running call; `call[h]` holds where it is and its arguments.
Each action is a system call, or a group of calls on files that only this
handler can touch because of the lock it holds. Names follow the code:

| code | actions |
|---|---|
| `NodeStageVolume` | `StageIAM` (skipped for IAM volumes), `NodeStageVolume` (lock, `isMounted`), `StageCheck` (`hasMountWithSameFSName`), `StageMount` |
| `NodeUnstageVolume` | `NodeUnstageVolume`, `UnstageUnmount` |
| `NodePublishVolume` | `NodePublishVolume` (lock, `isMounted`), `PublishBind`, `PublishRemount`, `PublishOwnership` |
| `publishIAMVolume` | `IAMLock` (key lock, directories, token), `IAMMount`, `IAMAddReference`, `IAMBind`, `IAMRemount`, and after a failed bind mount `IAMBindFails` (`removePodReference`) and `IAMUndo` (`unmountPath`) |
| `NodeUnpublishVolume` | `NodeUnpublishVolume`, `UnpublishUnmount`, `UnpublishReturn` |
| `cleanUpIAMReferenceForKey` | `CleanReference`, `RemoveRefsDir`, `UnmountGlobal`, `RemoveKeyDir` |

A bind mount with options is two steps, as in mount-utils: after the first the
target is `"bind"`, after the remount `"ok"`. A mount of an unreachable instance
is `"bad"`; `isMounted` unmounts it. `unmountPath` is one step with its possible
outcomes: success, an error with the mount still there, and an error with the
mount gone (`UnmountErrors`). Its three attempts (umount, `-f`, `-l`) and their
deadlines are not steps of their own; every caller looks at the error only.

`locks` is exactly what the running calls hold: `LocksExclusive` says that each
call has the locks of its position, no two share one, and no lock is left over.
A lock left over would refuse all later calls until the driver restarts.

The kubelet is the environment, with the order of calls it keeps: it publishes
after staging succeeded, unpublishes after the pod's deletion, unstages when no
use is left, and may repeat a call while an earlier one is still running.
A running pod publishes again at any time, as `requiresRepublish` has it.
Restart, reboot, corruption and every failing call use up `MaxFaults`.

A call refused at entry (validation, a busy lock, a failing stat) changes
nothing and is a stuttering step.

### MultiNIC

A set-up of `setUpMultiNIC` goes through the NICs in order, and for each through
the tables: `CheckRules` and `CheckRoutes` are the halves of `isTableFree`,
`ReplaceRoute` and `AddRule` those of `configureRoutesForNIC`. Each is one
netlink call that reads or writes. `Foreign` are tables of other software. The
first rule of a table decides in `isTableFree`; the code leaves priorities to
the kernel, so the model lets any rule of the table be the first.

### SharedMount and GlobalMounts

`SharedMount` is a mount that many share: it is made, may break, users take and
drop references, and it is taken down only without any. `GlobalMounts` reads the
global mounts and references of `NodeServer` as such a mount, one for each key.
Pods, locks, tokens, bind mounts, retries and restarts have disappeared; what
remains is the order between mount, reference and unmount that
`publishIAMVolume` and `cleanUpIAMReferenceForKey` keep.

### Controller

`CreateVolume`, `DeleteVolume` and `ControllerExpandVolume` take their lock and
then one step per call of the service: `CreateGet`, `CreateOp`, `CreateList`,
`CreateSend`, `CreateWait`, and so on. The service's own steps (`FinishCreate`,
`FailCreate`, `FinishUpdate`, `FinishDelete`, `FailDelete`, `Suspend`, `Resume`)
happen at any time. A wait may end by cancellation at any time; the operation goes
on. A call may fail without effect, or take effect and have its answer lost. The
listing of instances (`CreateList`) is one step, though the client fetches it page
by page: the names it returns are old by the time of `CreateSend` either way, which
is what `controller_fsname` is about.

An instance is a pair of a zone and a name. `pickZone` chooses the zone of a
request from its topology on every call, so a retry may be led to another zone.
`home` is the zone of the last call of CreateVolume; the ID it returns fixes it
for the other calls. `creates` counts CreateInstance for each instance. `CreateVolume` locks the name and the other
calls the ID, as in the code.

`heard` is the last answer to CreateVolume: `"again"` for a code after which
csi-provisioner calls again (`Retried`). After the others the claim may be deleted,
and then nobody calls DeleteVolume (`GiveUp`). There are three of them: `"final"`,
the driver's own verdict; `"mismatch"`, AlreadyExists for an instance of another
capacity; and `"error"`, an error of the service passed on by `codeForError`, which
gives 400, 403 and 404 a code that is not retried and makes Internal of everything
it does not know, a 503 for instance. After the last two there may be an
instance, perhaps still being created, that nobody deletes (`LeftBehind`); the model
has these behaviours, and `LeftBehindOnlyAfterError` says that there are no others
in the zone of the call.

An update operation carries the fields its mask names (`Update`), so that an
expansion and a change of labels may run at the same time.

The service and Kubernetes are outside the repository. The model assumes that a
failed creation and the removal of its instance appear at once, that operations
stay listed, that volume names are not reused, that an instance has one ID, and
that DeleteVolume follows a CreateVolume that returned.

### Volume

The life of a volume as Kubernetes may rely on it, without calls, locks,
operations and retries: in any place storage is made at most once; the volume is
handed out when its storage in some place is ready, keeps it until it is released,
never gets smaller, and is reported deleted when that storage is gone. Storage
made for it in other places is not promised to go. `Controller` implements it,
with the zones for places (`Stored`).

### ControllerInvariant

What is true in every state of the two controllers: `ControllerInv`, the
inductive invariant of section 6, which the `controller` run checks, and
`LabelInv` for the labels. An instance is `Led` if its volume was led to its zone
last, and `Used` if the volume was handed out with it.

### LabelController

The label controller in the same process, on the same instances. Its worker
takes a PV from the queue (`Reconcile`), reads the instance (`GetInstance`),
starts the update (`UpdateInstance`) and waits for it (`WaitUpdate`). A step of
`Controller` that changes a PV puts it on the queue (`Watch`). An error puts it
back (`Retry`), and `LoseLease` ends the label controller for the life of the
process, because `main` only logs the error. `keep` is a history variable: the
labels of an instance nobody meant to remove.

### KmodInstaller and NodeBoot

`KmodInstaller` has the kernel's state (modules, LNet's parameters), the init
container and the driver's start. `Discover` is the installer's `main` up to the
check, with NIC discovery as operators named after the functions (`Filter` is
their loop that appends what it keeps); `Check` is
`isLustreKmodInstalled` and what `main` does with its result. On Ubuntu each
`modprobe` is a step (`Modprobe`); on COS one command inserts all modules
(`CosDkms`) or fails after some (`CosDkmsFails`). A loaded module keeps its
parameters. Dependencies that `modprobe` loads along are left out. The pod may be
replaced with other flags, the label may change, the node may reboot.

`NodeBoot` extends it by the goroutine that `main` starts on COS:
`SetupHostArtifacts` step by step (`CopyOpen` to `SetTunable`), then `Listen`.
The steps for IAM mounts only log an error (`LoggedSteps`), any other error ends
the goroutine. `Invoke`, `Dial`, `Answer` and `GivesUp` are the life of a
`lustre-host-proxy` process. An executable that is running cannot be opened for
writing, so a proxy left over from the driver before makes the copy fail.

The history variable `cut` says that a run of the installer since the last boot
ended with modules half loaded. `PortAgreed` and `InstalledWhole` are claimed
without that only, because with it they are false. After a failure past `lustre`
the next run finds `lnet` and `lustre` and stops checking. After a failure before
`lustre` a changed port flag goes unnoticed, although the comment of
`IsLustreKmodInstalled` says of the port file: "If the file exists, it validates
that the configured port matches the expected port."

## 4. Runs

Runs that pass:

| run | question |
|---|---|
| `node_iam` | Two pods, which republish, and two handlers on one IAM volume, two faults. Is a global mount taken down only when nobody refers to it (`TeardownExclusive`), is the folder removed only when detached (`RemoveAllDetached`), does a bound pod keep its reference and token (`BoundKeepsReference`), is a successful unpublish final (`UnpublishComplete`), is nothing left without failures (`CleanTeardown`)? Do the global mounts implement `SharedMount` (`ImplementsSharedMount`)? Do volumes of deleted pods get unpublished (`DeletedPodUnpublished`, with the assumption on the schedule of section 5)? `IInv` and `ReferenceInv` are the invariants of the proofs. |
| `node_plain` | Two volumes without IAM of one filesystem name, two pods, two handlers, two faults. The locks are exactly those of the running calls, on every return path (`LocksExclusive`), and a bind has a mounted source (`BindSourceMounted`). |
| `multinic` | Two NICs, two networks, tables 1 to 4 with one foreign, one set-up at a time, two faults. A table serves one NIC (`TableOfOneNIC`), packets leave through their NIC (`RouteThroughOwnNIC`), a finished set-up stays in force (`ReadyRouted`), a NIC keeps its table (`OneTablePerNIC`), tables are used up by failures only (`TablesBounded`), the search ends (`SetupEnds`). `IInv` and `TableInv` are the invariants of the proofs. |
| `node_boot` | Every operating system, three NICs of which one is in another network, two faults, two changes of flags or label, one proxy process. Does the driver follow LNet (`DriverFollowsLNet`), are port and modules as asked for (`PortAgreed`, `InstalledWhole`), is a served host completely set up (`ServingMeansInstalled`), does the driver come up (`DriverComesUp`), does every upcall end (`UpcallEnds`), does the set-up end (`ServesOrFailed`)? `BootInv` is the invariant of the proofs, with the types and `OneNetwork`. |
| `controller` | One volume, created or made by hand, two zones, two handlers and the label controller, one fault; eight requests: two of one claim that lead to different zones, others with and without limit, inside a GiB, with labels the driver refuses, and invalid ones. `ControllerInv` is the invariant of the proofs, with the types. One creation in a zone (`OneCreation`); success means that the instance is there or gone (`BoundHasInstance`, `GoneIsDeleted`); an instance is left without an owner in the zone of the call after AlreadyExists and passed-on service errors only (`LeftBehindOnlyAfterError`); the capacity is the request's, rounded down (`CapacityAnswersRequest`); `NeverShrinks`, `LabelsKept`; retries end (`Provisioned`, `Reclaimed`, `Grown`, `LabeledInTime`); the controller implements `Volume` (`ImplementsVolume`). |

Runs that show a disagreement between the code and what the repository says:

| run | what happens |
|---|---|
| `node_fsname_race` | Two stagings check for the filesystem name before either mounts. |
| `node_leak` | A publish mounts the global path and fails to record the reference. The pod is deleted, its unpublish finds no reference and succeeds, and the mount stays. A longer trace has the same end: the refs directory is removed, then the driver restarts or the unmount fails, and the retry finds no reference. |
| `node_two_volumes` | Unpublishing one of a pod's two IAM volumes removes its references to both. |
| `node_readonly` | The remount with `ro` fails, the retry finds the target mounted and succeeds. |
| `multinic_race` | Overlapping set-ups put rules of two NICs on one table. |
| `controller_fsname` | Two concurrent creations generate the same name. |
| `controller_capacity` | A request for three and a half GiB is answered with a volume of three, although "Volume MUST be at least this big" (`required_bytes` of the CSI specification). |

*Bounds.* Two handlers are enough for each race between two calls; a third is not
explored by TLC and is covered by the proofs, for the properties proved. Two pods give a last and a
not-last reference. In `node_iam` two faults cover a failing bind mount together
with a failing clean-up, and a failure followed by a restart; what it checks but
liveness is proved for any number of faults. In `multinic` four tables with a foreign one let two NICs and
two stranded routes exhaust them. In `controller` a GiB has two bytes and the
minimum is two GiB, so that 7 bytes lie inside a GiB. Its topologies lead to zone
`b` by the preferred list and to `a` by the requisite one, so the retries of a
volume that others asked for before may go to either zone, in any order. One fault
is a restart, a lost answer, a failing call, update or deletion, a suspended
instance or a lost lease; time-outs and failing creations are not counted and
happen at any time. With two faults TLC visits 117,706 states instead of 55,068 and
finds no violation either, in more time than a run should take; the safety
properties are proved for any number. In `node_boot` two changes let a flag change and change back, two faults cover a cut-off installation and a
crash after it, and the proxy dials three times instead of five. Handlers are
interchangeable, and `node_plain` uses that symmetry; the runs with liveness
properties do not.

*Deadlock* is not checked: a node whose pods are all deleted, and a controller
whose volumes are gone, rightly stop, as does a node on which nothing calls.

`BoundKeepsReference` is claimed for fewer than two faults. With two, a failing
bind mount and a failing clean-up of it leave the target mounted and remove the
reference; the code logs the second error and goes on. With one, the reference is
gone before the target is unmounted, for as long as the failed publish holds the
key's lock (`Undoing`).

`Provisioned` follows one claim. If Kubernetes asks for a volume, from some time on,
with the requests of that claim only (`AsksFor`; the topology may change with the
node chosen), the volume is handed out or the claim is one that the driver refuses
for good (`Refused`): it has a label of the driver's own, which CreateVolume refuses
after its look at the service (`controller.go:235`), the instance belongs to a claim
of another capacity, or the creation failed. Nothing is assumed of other claims.

## 5. Fairness

* Running calls make progress (weak fairness of a handler's step): goroutines
  are scheduled, `unmountPath` bounds each umount, and the Lustre service ends
  each operation.
* Kubernetes repeats a call that has not succeeded (strong fairness of the
  unpublish, create, delete and expand calls): the kubelet and the sidecars
  retry with back-off, and the server does not limit concurrent calls, so a
  handler is available again and again. Of `CreateVolume` only that it is called
  again is assumed, not with which request.
* The label controller's worker runs, and controller-runtime lists all PVs again
  every ten hours (weak fairness of `Worker` and `Resync`).
* In `NodeBoot` the kubelet starts containers again, and the installer, the set-up
  (its `lctl` has a timeout), the proxy's attempts and its deadline make progress.
  Nothing is assumed of the end of a command: `cmd.Run` waits for its output to
  be closed, beyond the 45 s.
* One assumption on the schedule, for `DeletedPodUnpublished`: if the unpublish of a
  deleted pod turns to a key again and again, then again and again no other call is
  in the key's critical section. The code does not ensure this. `TryAcquire` queues
  nobody, and with `requiresRepublish` the publishes of a running pod may have the
  lock of the shared key at every attempt; without the assumption TLC finds that
  schedule. What speaks for it is that publishes repeat at intervals, and that the
  kubelet retries with a back-off of its own. The assumption is about critical sections and not about `locks`, so a
  lock that a call forgot to release still violates the property.

## 6. Proofs

Every theorem holds for all values of the constants that satisfy the named
assumptions. TLC evaluates the assumptions in the runs of the same modules.

### Node service

`NodeServerProofs` proves, for any sets of pods, volumes, keys and handlers and
any number of failures, that `IInv` is inductive, and from it `TypeOK`,
`LocksExclusive`, `TeardownExclusive`, `RemoveAllDetached` and
`BindSourceMounted`. Its lemmas say what the bookkeeping operators do and which
part of `IInv` survives which kind of step; then there is one per action.
`IInv` adds to the properties:

* `WellFormed`: a handler past a point has the arguments it uses from there on;
* `LocksExclusive`, that `locks` is the union of what the calls hold, each for one of
  them: needed by everything else, since a step of one handler must
  not change what another one's position promises about the same key or path;
* `KeyInv`: the refs directory that was removed means no references, the global
  mount that was unmounted stays so, and the one that was mounted stays so, for
  as long as the handler holds the key's lock;
* `StageInv`: the kubelet's order of calls. A volume known as staged is mounted,
  and is not unstaged while a handler is about to bind it. Without it
  `BindSourceMounted` is false: the code does not look at the staging path.

`SharedMountRefinement` shows `ImplementsSharedMount`. Most steps change neither
a global mount nor a reference. The others happen in the critical section of the
key, where `KeyInv` says what `SharedMount` demands: a reference is added to a
global mount that is there, and the mount is taken down when there is no
reference.

`NodeServerReferences` proves what a pod and its deletion may rely on:

| theorem | property |
|---|---|
| `ReferenceInvariance` | `ReferenceInv` is an invariant |
| `UnpublishIsComplete` | `UnpublishComplete` |
| `TeardownIsClean` | `CleanTeardown` |
| `BoundReference` | `BoundKeepsReference`, if a pod with an IAM volume uses no second volume (`OneVolume`) |

`ReferenceInv` is inductive on top of `IInv`:

* `CallInv`: what each call relies on. No publish runs for a target whose
  unpublish succeeded, so its bind mount cannot follow one; the reference is there
  while the bind mount is made; an unpublish past the unmount has no target
  mounted and, without an error so far, still has the pod's key on its list or has
  removed the reference; a publish that undoes its bind mount keeps the key's lock.
* `HolderInv`: a reference belongs to a pod that was started and uses an IAM
  volume of the key. So when every use of a key is over there is none.
* `CleanInv`: while nothing has failed, a key without references is taken down
  completely, unless a call is in its critical section.

What makes it inductive is discipline. A step of a call mounts the call's own
target only, and touches the files of a key inside the key's critical section
only, so it takes nothing from another call (`OwnStep`, `OthersCallInv`).

`KeyAssumption` says that two IAM volumes of one pod have different keys. The
key is a SHA-256 hash of the volume ID and the principal, taken to be free of
collisions. `OneVolume` is needed: the unpublish of any volume of the pod makes
`cleanUpIAMReference` look for the pod under every key, and `node_two_volumes`
shows a bound volume losing its reference that way.

### Routing

`MultiNICProofs` proves `TableOfOneNIC`, `RouteThroughOwnNIC` and `ReadyRouted`
for any NICs, networks, tables and failures, under the assumption that set-ups
do not overlap (`\A g, h \in Setups : g = h`). `multinic_race` shows that the
assumption is needed. The invariant says what a set-up has established at each
position: the table it has chosen has no rule and no route of another NIC, and
the NICs before the current one are routed.

`OneTableSafety` and `TablesAreBounded` prove `OneTablePerNIC` and
`TablesBounded` under the same assumption. Their invariant `TableInv` is about the
search: all tables below the one it looks at are occupied and not the NIC's, and
so is every table below that of a rule. So a later search for the same NIC passes
over the same tables and comes to its rule before it finds a free one. A table
with routes and no rule is `Stranded`, and a step that strands one is a failure,
so there are at most as many as failures. `TypeCorrectness` holds for any number
of overlapping set-ups.

### Start of the pod

`NodeBootProofs` proves `DriverFollowsLNet`, `PortAgreed`, `InstalledWhole` and
`ServingMeansInstalled` for every list of NICs and any number of failures,
replaced pods, label changes, reboots and proxies (`DriverAgreesWithLNet`,
`PortIsAgreed`, `InstallationIsWhole`, `ServingIsInstalled`), and that NICs of one
network are used (`NicsOfOneNetwork`), from `BootInvariance`, which states all of
`BootInv`:

* `KmodInv`: as long as no run was cut short, the kernel holds none or all of the
  modules between runs, and a prefix of their order during one. This is why
  looking at `lnet` and `lustre` is enough for `isLustreKmodInstalled`. A run
  that loads therefore loads `lnet` itself, with its own port; a run that finds
  the modules compares the port; and the flag changes only with the pod, which
  ends the run and the driver.
* `ServerInv`: each step of `SetupHostArtifacts` stands on the mandatory ones
  before it. Only a reboot undoes them, and it ends the goroutine.
* `CallInv`: a proxy that waits has a command of the present server, so none waits
  for a container that is gone, and what the host executes is a whole binary.
* `OneNetwork`: LNet is given, and the driver routes for, NICs of the primary's
  network only, the primary first and none twice. This depends on what the loops
  over NICs return, when the lookup of some links failed as well.
* `TypeOK`, among it that the lists hold the node's NICs and no more than it has,
  and that a proxy tries at most `maxRetries` times.

The loop is the recursive function in `Filter`. `FilterKeeps` says what it
returns: exactly the elements in the set, fewer than the list has if one is not,
and none twice if the list has none twice. The proof is by induction. A set of
naturals that is not empty has a least element (`Least`, from the
well-foundedness of the naturals), so there is no first step at which the loop
has no value (`Loops`) or a wrong one. `KmodAssumption` says that the names of
the node's NICs are distinct and that the primary is one of them.

### Controllers

`ControllerProofs` and `ControllerRefinement` prove the safety of `AllSpec`, the
two controllers with the service and Kubernetes, for any number of volumes,
handlers, zones, names and requests, any sizes and any number of faults:

| theorem | property |
|---|---|
| `ControllerInvariance` | `ControllerInv` is an invariant |
| `CreatedOnce` | `OneCreation` |
| `BoundVolumesHaveInstances` | `BoundHasInstance` |
| `GoneVolumesAreDeleted` | `GoneIsDeleted` |
| `LeftBehindOnlyAfterErrors` | `LeftBehindOnlyAfterError` |
| `CapacitiesAnswerRequests` | `CapacityAnswersRequest` |
| `InstancesNeverShrink` | `NeverShrinks` |
| `VolumeRefinement` | `ImplementsVolume` |
| `OneZoneOneInstance` | `OneInstanceOfVolume`, as long as no retry changes the zone |
| `LabelsAreKept` | `LabelsKept` |

They use `ControllerAssumption` (the types of the constants), and no assumption
on where requests lead. `CreateVolume` looks for the instance and for its create
operation in the zone of the present request only, so a retry that is led to
another zone creates a second instance there. The comment at `lustre.go:286`,
"The CSI driver will never initiate more than one instance creation call for the
same volume", holds for a volume in a zone (`CreatedOnce`); and the instance in the
other zone stays, since nobody knows it any more. `OneZoneOneInstance` says what
remains when every call for a volume leads to the same zone (`SameZone`, a
hypothesis on the behaviour): there is one creation in all zones together, and no
instance in any zone after a successful DeleteVolume. After the claim is deleted
the one instance may still be left, if the last answer of CreateVolume was
AlreadyExists or a service error passed on (`OneInstanceOfVolume`).

Three properties are weaker than one would wish, because the code is.
`LeftBehindOnlyAfterErrors` does not say that nothing is left behind: it names the
two answers after which something is. `CapacitiesAnswerRequests` does not say that a
volume is as large as required: it is rounded down. And `OneCreation` counts in one
zone.

The properties are not inductive. That a creation is not started twice depends
on what a handler has seen at earlier steps, and that it is still true.
`ControllerInv` says so:

* `KubeInv`: a volume that was handed out keeps a zone and a valid request.
* `CreationInv`: an instance and its create operation go together. The operation
  stays listed, so it tells for ever whether there was a creation. This is what
  `GetCreateInstanceOp` relies on.
* `PhaseInv`: what there is of an instance in each phase of its volume. Before the
  volume is handed out the instance it is led to exists only if CreateVolume's
  last answer asks for another call, or was AlreadyExists or a service error
  (`heard`); in use
  it is there and was created. An instance in a zone the volume was led to earlier
  is never deleted and never updated.
* `UpdateInv`: an instance has one expansion in progress at most, towards a
  capacity between its own and the one wanted.
* `HandlerInv`: what a call has found out (no instance, no creation, no expansion
  in progress) stays true while it has the lock, its volume stays in the phase
  that let the call start, and no other call leads the volume elsewhere.
* `OneCallPerVolume`: a volume has one call at a time. The driver's locks do not give
  this alone, since CreateVolume locks the name and the others the ID. It
  follows together with the phases, which keep Kubernetes from deleting or
  expanding what was not yet handed out.

`ControllerFrames` reduces a step of a call to one volume and one call
(`CallStep`); `ControllerCalls` has a lemma for each action of the three calls,
`ControllerProofs` one for each step of the service, of Kubernetes and of the
label controller. The steps are looked at once more as seen from one volume,
those of calls at the end of `ControllerFrames`, the others in
`ControllerRefinement` (`GoodStep`): nothing of a volume changes, or one volume
makes one step of `Volume`, its instance does not shrink, and if it is handed
out, its capacity answers the request. The refinement mapping reads zones as
places, and a volume's place as its zone from the time it is handed out.

`LabelsKept` needs an invariant of its own, `LabelInv`: what is to keep is on
the instance, in every write of labels on its way, and in what the label
controller has read and is about to write.

A leaf that names `Zenon` or a time for SMT does so because the translation for
SMT takes longer with every leaf of a module.

### Only model-checked

Liveness (`SetupEnds`, `DriverComesUp`, `UpcallEnds`, `ServesOrFailed`,
`DeletedPodUnpublished`, `Provisioned`, `Reclaimed`, `Grown`, `LabeledInTime`), which
is out of the prover's reach.

## 7. Not modelled

Parsing of arguments, parameters and IDs (what validation refuses is in the
model, how it reads strings is not); the contents and expiry of tokens; random
bytes of generated names (a name is any that no listed instance has, so the loop that
never ends when all names are used is not a behaviour of the model);
the commands and parameters the upcall server accepts; versions of the kernel
module packages and custom module arguments;
NodeGetVolumeStats and the other calls that change nothing.
