------------------------------ MODULE NodeBoot ------------------------------
(***************************************************************************)
(* The node pod from its start to the answer of an upcall: KmodInstaller,  *)
(* and the upcall path the driver sets up beside its CSI services on COS,  *)
(* SetupHostArtifacts and StartServer of pkg/upcall run one after the      *)
(* other in a goroutine of main.  The host side is cmd/lustre-host-proxy,  *)
(* which udev runs for a rule and the kernel runs through the link its     *)
(* gssiam_upcall parameter names.                                          *)
(*                                                                         *)
(* Time is left out: the proxy's 60 s and the command's 45 s may end in    *)
(* either order, as their clocks start at different moments and a command  *)
(* is waited for until its output is closed.                               *)
(***************************************************************************)
EXTENDS KmodInstaller

CONSTANTS
  Proxies,     \* processes of the host that run lustre-host-proxy
  maxRetries,  \* its attempts to connect
  SupportsIAM  \* the loaded Lustre is 2.16 or later

ASSUME NodeBootAssumption == maxRetries \in Nat \ {0} /\ SupportsIAM \in BOOLEAN

VARIABLES
  server,   \* the goroutine that sets the host up and then serves
  proxy,    \* the copy of the binary on the host
  rule,     \* the udev rule is on the host
  link,     \* the symbolic link l_gssiam_upcall is on the host
  tunable,  \* sptlrpc.gssiam.gssiam_upcall names the link
  ppc,      \* where each proxy process is
  tries,    \* its failed attempts to connect
  cmds      \* the proxies whose command the container is running

host       == <<proxy, rule, link>>
calls      == <<ppc, tries, cmds>>
upcallVars == <<server, host, tunable, calls>>
vars       == <<kmodVars, upcallVars>>

SetupSteps == {"copy", "copying", "rules", "unlink", "symlink", "tunable", "listen"}

UpcallTypeOK ==
  /\ server \in SetupSteps \cup {"off", "failed", "serving"}
  /\ proxy \in {"none", "partial", "whole"}
  /\ rule \in BOOLEAN /\ link \in BOOLEAN /\ tunable \in BOOLEAN
  /\ ppc \in [Proxies -> {"none", "dial", "wait"}]
  /\ tries \in [Proxies -> 0 .. maxRetries - 1]
  /\ cmds \subseteq Proxies

TypeOK == KmodTypeOK /\ UpcallTypeOK

Init ==
  /\ KmodInit
  /\ server = "off" /\ proxy = "none"
  /\ rule = FALSE /\ link = FALSE /\ tunable = FALSE
  /\ ppc = [p \in Proxies |-> "none"]
  /\ tries = [p \in Proxies |-> 0] /\ cmds = {}

-----------------------------------------------------------------------------
(* SetupHostArtifacts and StartServer.                                     *)

\* copyFile opens the host's copy for writing and truncates it; the open
\* fails while the host executes the file.
CopyOpen ==
  /\ server = "copy"
  /\ IF \E p \in Proxies : ppc[p] # "none"
     THEN server' = "failed" /\ UNCHANGED proxy
     ELSE server' = "copying" /\ proxy' = "partial"
  /\ UNCHANGED <<kmodVars, rule, link, tunable, calls>>

CopyDone ==
  /\ server = "copying"
  /\ server' = "rules" /\ proxy' = "whole"
  /\ UNCHANGED <<kmodVars, rule, link, tunable, calls>>

WriteRules ==
  /\ server = "rules"
  /\ server' = "unlink" /\ rule' = TRUE
  /\ UNCHANGED <<kmodVars, proxy, link, tunable, calls>>

Unlink ==
  /\ server = "unlink"
  /\ server' = "symlink" /\ link' = FALSE
  /\ UNCHANGED <<kmodVars, proxy, rule, tunable, calls>>

Symlink ==
  /\ server = "symlink"
  /\ server' = "tunable" /\ link' = TRUE
  /\ UNCHANGED <<kmodVars, proxy, rule, tunable, calls>>

\* Mutant: lctl is run without a timeout, and hangs.
HangingLctl == server = "tunable" /\ UNCHANGED vars

\* configureGSSIAMUpcallTunable; lctl needs the loaded modules.
SetTunable ==
  /\ server = "tunable"
  /\ server' = "listen"
  /\ tunable' = (tunable \/ (SupportsIAM /\ "lustre" \in loaded))
  /\ UNCHANGED <<kmodVars, host, calls>>

Listen ==
  /\ server = "listen"
  /\ server' = "serving"
  /\ UNCHANGED <<kmodVars, host, tunable, calls>>

\* Mutant: an error of the copy is only logged.
LogsAll == {"copy", "copying", "rules", "unlink", "symlink", "tunable"}

\* The steps whose errors are only logged: those for IAM mounts.
LoggedSteps == {"unlink", "symlink", "tunable"}

\* A step fails: the server starts without it, or does not start.
SetupFails ==
  /\ server \in SetupSteps /\ Fault
  /\ server' = IF server \in LoggedSteps THEN "listen" ELSE "failed"
  /\ UNCHANGED <<config, kernel, installer, driver, additional, cut, changes,
                 host, tunable, calls>>

-----------------------------------------------------------------------------
(* Upcalls.                                                                *)

\* An event of the loaded Lustre runs the proxy: through the rule, or through
\* the link.  A file that is incomplete or open for writing does not execute.
Invoke(p) ==
  /\ ppc[p] = "none" /\ p \notin cmds
  /\ "lustre" \in loaded /\ proxy = "whole" /\ (rule \/ (tunable /\ link))
  /\ ppc' = [ppc EXCEPT ![p] = "dial"]
  /\ UNCHANGED <<kmodVars, server, host, tunable, tries, cmds>>

\* Mutant: the loop runs once more.
OneTryMore(p) == tries[p] = maxRetries

LastTry(p) == tries[p] + 1 = maxRetries

Exit(p) == ppc' = [ppc EXCEPT ![p] = "none"] /\ tries' = [tries EXCEPT ![p] = 0]

\* Connected: the request is sent and the container starts the command.
Dial(p) ==
  /\ ppc[p] = "dial"
  /\ \/ /\ server = "serving"
        /\ ppc' = [ppc EXCEPT ![p] = "wait"] /\ cmds' = cmds \cup {p}
        /\ UNCHANGED tries
     \/ /\ server # "serving" /\ LastTry(p)
        /\ Exit(p) /\ UNCHANGED cmds
     \/ /\ server # "serving" /\ ~LastTry(p)
        /\ tries' = [tries EXCEPT ![p] = @ + 1] /\ UNCHANGED <<ppc, cmds>>
  /\ UNCHANGED <<kmodVars, server, host, tunable>>

\* The command ends, by itself or at its limit; a proxy still there is answered.
Answer(p) ==
  /\ p \in cmds
  /\ cmds' = cmds \ {p} /\ Exit(p)
  /\ UNCHANGED <<kmodVars, server, host, tunable>>

\* Mutant: no deadline is set on the connection.
NoDeadline(p) == ppc[p] = "wait" /\ UNCHANGED vars

\* The proxy's deadline passes first; its command runs on.
GivesUp(p) ==
  /\ ppc[p] = "wait"
  /\ Exit(p)
  /\ UNCHANGED <<kmodVars, server, host, tunable, cmds>>

-----------------------------------------------------------------------------
(* The driver's container and the node.                                    *)

\* Only COS needs the proxy: elsewhere the host has Lustre's own tools.
Start ==
  /\ DriverStart
  /\ server' = IF os = "cos" THEN "copy" ELSE "off"
  /\ UNCHANGED <<host, tunable, calls>>

\* The container is gone: connections close and commands die with it.
Disconnect ==
  /\ server' = "off" /\ cmds' = {}
  /\ ppc' = [p \in Proxies |-> IF ppc[p] = "wait" THEN "none" ELSE ppc[p]]
  /\ tries' = [p \in Proxies |-> IF ppc[p] = "wait" THEN 0 ELSE tries[p]]

Stop ==
  /\ DriverCrash \/ PodReplaced
  /\ Disconnect
  /\ UNCHANGED <<host, tunable>>

\* Parameter and processes are gone; the host's files may be gone too.
NodeReboot ==
  /\ Reboot
  /\ \/ UNCHANGED host
     \/ proxy' = "none" /\ rule' = FALSE /\ link' = FALSE
  /\ server' = "off" /\ tunable' = FALSE
  /\ ppc' = [p \in Proxies |-> "none"] /\ tries' = [p \in Proxies |-> 0]
  /\ cmds' = {}

Setup ==
  \/ CopyOpen \/ CopyDone \/ WriteRules \/ Unlink \/ Symlink \/ SetTunable \/ Listen

Next ==
  \/ InstallerNext /\ UNCHANGED upcallVars
  \/ Start \/ Stop \/ NodeReboot
  \/ Setup \/ SetupFails
  \/ \E p \in Proxies : Invoke(p) \/ Dial(p) \/ Answer(p) \/ GivesUp(p)

\* kubelet restarts what ended, the installer and the goroutine run on, and
\* the proxy's attempts and its deadline come.  Nothing is assumed of Answer:
\* a command whose output stays open is waited for beyond its 45 s.
Fairness ==
  /\ WF_vars((StartInstaller \/ Check \/ Modprobe \/ CosDkms) /\ UNCHANGED upcallVars)
  /\ WF_vars(Start)
  /\ WF_vars(Setup)
  /\ \A p \in Proxies : WF_vars(Dial(p)) /\ WF_vars(GivesUp(p))

Spec == Init /\ [][Next]_vars

FairSpec == Spec /\ Fairness

-----------------------------------------------------------------------------
(* Properties.                                                             *)

\* While the server is up, what the udev rule runs is a whole binary: a copy
\* that failed or was cut off by a crash keeps the server from starting, and
\* a later start begins with the copy.
ServingMeansInstalled == server = "serving" => rule /\ proxy = "whole"

\* Every process the kernel or udev waits for ends, through crashes of the
\* driver in the middle of its call and without a server at all.
UpcallEnds == \A p \in Proxies : ppc[p] # "none" ~> ppc[p] = "none"

\* A driver that stays up on COS ends up serving upcalls, or gave up: a failed
\* step, or a proxy left from the driver before that keeps the binary busy
\* during the copy.  Then it serves none for good, as nothing tries again.
ServesOrFailed ==
  <>[](driver = "up" /\ os = "cos") => <>[](server = "serving") \/ <>[](server = "failed")

-----------------------------------------------------------------------------
(* The invariant behind ServingMeansInstalled and the properties of        *)
(* KmodInstaller.                                                          *)

\* Each step of the goroutine stands on the ones before it whose errors keep
\* the server from starting; only a reboot, which ends it, undoes them.
ServerInv ==
  /\ server = "rules" => proxy = "whole"
  /\ server \in LoggedSteps \cup {"listen", "serving"} => rule /\ proxy = "whole"
  /\ server # "off" => driver = "up" /\ os = "cos"

\* A proxy waits only for a command that the present server runs, so none
\* waits for a container that is gone; and what the host executes is whole.
CallInv ==
  /\ cmds # {} => server = "serving"
  /\ \A p \in Proxies : ppc[p] = "wait" => p \in cmds
  /\ \A p \in Proxies : ppc[p] # "none" => proxy = "whole"
  /\ \A p \in Proxies : ppc[p] = "none" => tries[p] = 0

\* What every state of the node's start satisfies.
BootInv == TypeOK /\ OneNetwork /\ KmodInv /\ ServerInv /\ CallInv
=============================================================================
