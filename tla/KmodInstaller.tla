---------------------------- MODULE KmodInstaller ----------------------------
(***************************************************************************)
(* Start of the node pod: the init container of cmd/kmod_installer, which  *)
(* loads the Lustre kernel modules with pkg/kmod_installer, and the node   *)
(* half of cmd/csi_driver/main.go, which reads back what LNet runs with.   *)
(*                                                                         *)
(* The modules, LNet's port and LNet's NICs live in the kernel: they       *)
(* survive the containers and the pod and are gone after a reboot.  A      *)
(* module that is loaded keeps its parameters, modprobe of it succeeds.    *)
(* The pod's flags change only with the pod; the node's label may change   *)
(* at any time.  kubelet starts a container that ended with klog.Fatal     *)
(* again, so a Fatal leads back to "idle".                                 *)
(***************************************************************************)
EXTENDS Naturals, Sequences

CONSTANTS
  Nics,        \* names of the NICs with a standard driver, in sorted order
  Primary,     \* the NIC with the address of metadata interface 0
  Vpc,         \* the network metadata gives each NIC, None if it lists none
  MaxFaults,   \* bound on failing calls, crashes and reboots
  MaxChanges,  \* bound on changes of the pod's flags or of the node's label
  None         \* no port, no network

NicSet == {Nics[i] : i \in DOMAIN Nics}

\* The default and the legacy port of LNet.
Ports == {988, 6988}

Distinct(s) == \A i, j \in DOMAIN s : s[i] = s[j] => i = j

ASSUME KmodAssumption ==
  /\ Nics \in Seq(NicSet) /\ Distinct(Nics) /\ Primary \in NicSet
  /\ Vpc[Primary] # None /\ None \notin Ports
  /\ MaxFaults \in Nat /\ MaxChanges \in Nat

\* In the order InstallLustreKmodOnUbuntu loads them.
Order   == <<"lnet", "ksocklnd", "lustre", "mgc", "lmv", "lov", "mdc", "osc">>
Modules == {Order[i] : i \in DOMAIN Order}

VARIABLES
  os,          \* label gke-os-distribution of the node
  legacy,      \* flag enable-legacy-lustre-port
  disable,     \* flag disable-multi-nic
  label,       \* value of the multi-NIC label or of its alias
  loaded,      \* modules in the kernel
  port,        \* lnet/parameters/accept_port
  networks,    \* lnet/parameters/networks: NICs in order, primary first
  ipc,         \* where the installer is
  plan,        \* the port and the networks this run of the installer wants
  at,          \* the module it loads next
  driver,      \* the csi-driver container
  additional,  \* config.AdditionalNics of the running driver
  cut,         \* history: a run since boot ended with modules half loaded
  faults, changes

config    == <<os, legacy, disable, label>>
kernel    == <<loaded, port, networks>>
installer == <<ipc, plan, at>>
kmodVars  == <<config, kernel, installer, driver, additional, cut, faults, changes>>

Networks == UNION {[1 .. n -> NicSet] : n \in 0 .. Len(Nics)}

KmodTypeOK ==
  /\ os \in {"cos", "ubuntu", "windows", "other"}
  /\ legacy \in BOOLEAN /\ disable \in BOOLEAN
  /\ label \in {"unset", "true", "false", "invalid"}
  /\ loaded \subseteq Modules
  /\ port \in Ports \cup {None}
  /\ networks \in Networks
  /\ ipc \in {"idle", "check", "load", "done"}
  /\ plan \in [port : Ports, nets : Networks]
  /\ at \in DOMAIN Order
  /\ driver \in {"down", "up"}
  /\ additional \in Networks
  /\ cut \in BOOLEAN
  /\ faults \in 0 .. MaxFaults /\ changes \in 0 .. MaxChanges

KmodInit ==
  /\ os \in {"cos", "ubuntu", "windows", "other"}
  /\ legacy = FALSE /\ disable \in BOOLEAN /\ label = "unset"
  /\ loaded = {} /\ port = None /\ networks = <<>>
  /\ ipc = "idle" /\ plan = [port |-> 988, nets |-> <<>>] /\ at = 1
  /\ driver = "down" /\ additional = <<>> /\ cut = FALSE
  /\ faults = 0 /\ changes = 0

Fault == faults < MaxFaults /\ faults' = faults + 1

-----------------------------------------------------------------------------
(* NIC discovery.                                                          *)

\* The elements of a list that are in a set: a loop that appends them in order.
Filter(s, T) ==
  LET F[i \in 0 .. Len(s)] ==
        IF i = 0 THEN <<>>
        ELSE IF s[i] \in T THEN Append(F[i - 1], s[i]) ELSE F[i - 1]
  IN  F[Len(s)]

\* The NICs of the primary's network; a NIC whose link lookup fails, that is
\* one outside "found", is skipped with a warning.
validateNICs(found) == Filter(Nics, {n \in found : Vpc[n] = Vpc[Primary]})

GetStandardNICs(found) == IF Len(Nics) <= 1 THEN Nics ELSE validateNICs(found)

\* The label decides, then the flag; one NIC is never multi-NIC.
CheckDisableMultiNIC(nics) ==
  Len(nics) <= 1 \/ label = "false" \/ (label = "unset" /\ disable)

\* strconv.ParseBool of the label fails.
LabelError(nics) == Len(nics) > 1 /\ label = "invalid"

Others(nics) == Filter(nics, NicSet \ {Primary})

BuildLnetNetworkString(nics, disabled) ==
  <<Primary>> \o IF disabled THEN <<>> ELSE Others(nics)

-----------------------------------------------------------------------------
(* The installer.                                                          *)

lnetPort(isLegacy) == IF isLegacy THEN 6988 ELSE 988

\* main up to the check: what it learns of the node, with a set of NICs found.
Discover(found) ==
  LET nics == GetStandardNICs(found) IN
    /\ ipc = "idle"
    /\ nics # <<>> /\ ~LabelError(nics)
    /\ plan' = [port |-> lnetPort(legacy),
                nets |-> BuildLnetNetworkString(nics, CheckDisableMultiNIC(nics))]
    /\ ipc' = "check"
    /\ UNCHANGED <<config, kernel, at, driver, additional, cut, changes>>

StartInstaller == Discover(NicSet) /\ UNCHANGED faults

\* The lookup of some links fails, and main goes on without those NICs.
StartWithoutSomeNICs ==
  /\ Len(Nics) > 1 /\ Fault
  /\ \E found \in SUBSET NicSet \ {NicSet} : Discover(found)

\* Mutant: the port LNet runs with is not compared.
AnyPort == TRUE

PortMatches == port = plan.port

isLustreKmodInstalled == "lnet" \in loaded /\ "lustre" \in loaded

\* Mutant: main has no case for Ubuntu.
OnlyCos == os = "cos"

\* The operating systems main has an installation for.
HasInstallation == os \in {"cos", "ubuntu"}

\* Installed with the expected port: done; with another one: Fatal.
Check ==
  /\ ipc = "check"
  /\ \/ isLustreKmodInstalled /\ PortMatches /\ ipc' = "done"
     \/ isLustreKmodInstalled /\ ~PortMatches /\ ipc' = "idle"
     \/ ~isLustreKmodInstalled /\ HasInstallation /\ ipc' = "load"
     \/ ~isLustreKmodInstalled /\ os = "windows" /\ ipc' = "done"
     \/ ~isLustreKmodInstalled /\ ~HasInstallation /\ os # "windows" /\ ipc' = "idle"
  /\ at' = 1
  /\ UNCHANGED <<config, kernel, plan, driver, additional, cut, faults, changes>>

\* The kernel takes a set of modules; only a first load of lnet sets parameters.
Insert(ms) ==
  /\ loaded' = loaded \cup ms
  /\ IF "lnet" \in ms \ loaded
     THEN port' = plan.port /\ networks' = plan.nets
     ELSE UNCHANGED <<port, networks>>

\* Mutant: the installer ends once the lustre module is in.
StopsAtLustre == Order[at] = "lustre"

LastModule == at = Len(Order)

\* InstallLustreKmodOnUbuntu: one modprobe after the other.
Modprobe ==
  /\ ipc = "load" /\ os = "ubuntu"
  /\ Insert({Order[at]})
  /\ IF LastModule
     THEN ipc' = "done" /\ at' = 1
     ELSE at' = at + 1 /\ UNCHANGED ipc
  /\ UNCHANGED <<config, plan, driver, additional, cut, faults, changes>>

\* InstallLustreKmodOnCos: cos-dkms inserts all modules.
CosDkms ==
  /\ ipc = "load" /\ os = "cos"
  /\ Insert(Modules) /\ ipc' = "done"
  /\ UNCHANGED <<config, plan, at, driver, additional, cut, faults, changes>>

\* The command fails or times out, having inserted the first k modules.
CosDkmsFails(k) ==
  /\ ipc = "load" /\ os = "cos" /\ Fault
  /\ Insert({Order[i] : i \in 1 .. k}) /\ ipc' = "idle"
  /\ cut' = (cut \/ k > 0)
  /\ UNCHANGED <<config, plan, at, driver, additional, changes>>

\* Any other call of the installer fails, or its container is killed.
InstallerFails ==
  /\ ipc \in {"check", "load"} /\ Fault
  /\ ipc' = "idle" /\ at' = 1
  /\ cut' = (cut \/ at > 1)
  /\ UNCHANGED <<config, kernel, plan, driver, additional, changes>>

-----------------------------------------------------------------------------
(* The driver, and what happens to the pod and the node.                   *)

\* A missing or empty parameter stands for the primary NIC.
GetLnetNetwork == IF networks = <<>> THEN <<Primary>> ELSE networks

\* Mutant: the driver takes the NICs the installer wanted.
PlannedNics == Others(plan.nets)

AdditionalNics == Others(GetLnetNetwork)

\* The main container starts when the init container has succeeded.
DriverStart ==
  /\ ipc = "done" /\ driver = "down"
  /\ driver' = "up" /\ additional' = AdditionalNics
  /\ UNCHANGED <<config, kernel, installer, cut, faults, changes>>

\* Only this container is restarted; the init container does not run again.
DriverCrash ==
  /\ driver = "up" /\ Fault
  /\ driver' = "down" /\ additional' = <<>>
  /\ UNCHANGED <<config, kernel, installer, cut, changes>>

\* The pod is replaced by one with other flags, at any moment.
PodReplaced ==
  /\ changes < MaxChanges /\ changes' = changes + 1
  /\ legacy' \in BOOLEAN /\ disable' \in BOOLEAN
  /\ <<legacy', disable'>> # <<legacy, disable>>
  /\ ipc' = "idle" /\ at' = 1 /\ driver' = "down" /\ additional' = <<>>
  /\ cut' = (cut \/ (ipc = "load" /\ at > 1))
  /\ UNCHANGED <<os, label, kernel, plan, faults>>

Relabel ==
  /\ changes < MaxChanges /\ changes' = changes + 1
  /\ label' \in {"unset", "true", "false", "invalid"} \ {label}
  /\ UNCHANGED <<os, legacy, disable, kernel, installer, driver, additional, cut, faults>>

Reboot ==
  /\ Fault
  /\ loaded' = {} /\ port' = None /\ networks' = <<>>
  /\ ipc' = "idle" /\ at' = 1 /\ driver' = "down" /\ additional' = <<>>
  /\ cut' = FALSE
  /\ UNCHANGED <<config, plan, changes>>

InstallerNext ==
  \/ StartInstaller \/ StartWithoutSomeNICs
  \/ Check
  \/ Modprobe
  \/ CosDkms
  \/ \E k \in 0 .. Len(Order) - 1 : CosDkmsFails(k)
  \/ InstallerFails
  \/ Relabel

-----------------------------------------------------------------------------
(* Properties.                                                             *)

Supported == os \in {"cos", "ubuntu"}

\* The NICs the driver sets routes up for are exactly those LNet sends
\* through, whatever label and flags say by now: main reads them back from
\* the kernel and does not trust what an installer wanted.
DriverFollowsLNet == driver = "up" => additional = Others(GetLnetNetwork)

\* A driver runs only over an LNet with the port its pod's flag asks for,
\* unless a run since boot was cut short with lnet already in: then a changed
\* flag is not noticed, as isLustreKmodInstalled looks at the port only when
\* lustre is loaded too and modprobe leaves a loaded lnet alone.
PortAgreed == driver = "up" /\ Supported /\ ~cut => port = lnetPort(legacy)

\* The installer succeeds only with every module in the kernel, unless a run
\* since boot was cut short: isLustreKmodInstalled looks at lnet and lustre,
\* and takes modules that come after lustre in the order for granted.
InstalledWhole == ipc = "done" /\ Supported /\ ~cut => loaded = Modules

\* What no restart of the installer gets past: an old port, a label that is
\* no Boolean, an operating system without modules.
Stuck ==
  \/ isLustreKmodInstalled /\ port # lnetPort(legacy)
  \/ LabelError(GetStandardNICs(NicSet))
  \/ os = "other"

\* Once failures and changes have stopped, the driver runs, or the installer
\* meets one of the conditions its error messages tell the user to repair.
DriverComesUp == <>[](driver = "up") \/ <>[]Stuck

-----------------------------------------------------------------------------
(* The invariant behind these properties.                                  *)

\* A list of NICs for LNet: the primary first, none twice, and none of another
\* network than the primary's.
LnetList(nics) ==
  /\ nics # <<>> => nics[1] = Primary
  /\ Distinct(nics)
  /\ \A i \in DOMAIN nics : Vpc[nics[i]] = Vpc[Primary]

\* LNet is given, and the driver routes for, NICs of the primary's network only,
\* whichever lookups failed and however label and flags changed; none is routed
\* for twice, and the primary is not.
OneNetwork ==
  /\ LnetList(plan.nets) /\ LnetList(networks)
  /\ LnetList(<<Primary>> \o additional)

\* What a running installer has inserted so far.
Inserted == {Order[i] : i \in 1 .. at - 1}

\* As long as no run was cut short, the kernel holds none or all of the
\* modules between runs and a prefix of them during a run, so that looking at
\* lnet and lustre alone tells the two apart.  A run that loads began with no
\* module, hence set the port it wants; one that found them compared it.  The
\* flag cannot change under it, and the driver runs only after a run that
\* ended.
KmodInv ==
  /\ os \in {"cos", "ubuntu", "windows", "other"}
  /\ cut \in BOOLEAN
  /\ at \in DOMAIN Order
  /\ ipc \in {"idle", "check", "load", "done"}
  /\ driver = "up" => ipc = "done" /\ DriverFollowsLNet
  /\ ipc # "idle" => plan.port = lnetPort(legacy)
  /\ ipc = "load" => Supported
  /\ at > 1 => ipc = "load" /\ os = "ubuntu"
  /\ ~cut => /\ ipc = "load" => loaded = Inserted /\ (at > 1 => port = plan.port)
             /\ ipc # "load" => loaded \in {{}, Modules}
             /\ ipc = "done" /\ Supported => loaded = Modules /\ port = plan.port
=============================================================================
