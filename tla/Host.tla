-------------------------------- MODULE Host --------------------------------
(***************************************************************************)
(* The host: plugins are registered, then Bootstrapper::run checks the     *)
(* security module and every manifest in the order of registration, and    *)
(* stops at the first it refuses.  A grant or a denial of the security     *)
(* module goes to its audit log; the other refusals do not.                *)
(*                                                                         *)
(* A path is the sequence of its components ("" stands before a leading    *)
(* slash, "/" is <<"", "">>), a host name the sequence of its labels, a    *)
(* plugin name its length and whether all of it is in [a-z0-9_-].          *)
(* Factories are left out: run() never takes them.                         *)
(***************************************************************************)
EXTENDS Bus, SequencesExt

CONSTANTS
  Policy, \* the SecurityPolicy: read and write prefixes, network names, shell, git
  Core,   \* CoreContractVersions: contract -> [major, minor]
  Dotted, \* path components with ".." in them
  Cwd     \* the working directory of the process, for what a path means

\* A text has a first component, if an empty one.
Path == Seq(STRING) \ {<<>>}

ASSUME HostAssumption ==
  /\ ".." \in Dotted
  /\ Policy.read \subseteq Path /\ Policy.write \subseteq Path
  /\ Cwd \in Seq(STRING)

Capability == [kind : {"FileRead", "FileWrite", "Network", "Shell", "Git"}, target : Seq(STRING)]

ManifestType ==
  [name : [length : Nat, plain : BOOLEAN], class : {"Safe", "Unsafe"},
   capabilities : SUBSET Capability,
   implements : SUBSET [contract : STRING, version : [major : Nat, minor : Nat]]]

VARIABLES
  registry,  \* manifests, in the order of registration
  keyed,     \* the key of the security module is not all zero
  bootStage,
  verified,  \* manifests the loop has passed
  bootError, \* the BootstrapError run() returned
  decisions  \* the audit log of the security module: kind, place of the plugin

hostVars == <<registry, keyed, bootStage, verified, bootError, decisions>>

HostInit ==
  /\ BusInit
  /\ registry = <<>>
  /\ keyed \in BOOLEAN
  /\ bootStage = "registering"
  /\ verified = 0
  /\ bootError = "none"
  /\ decisions = <<>>

-----------------------------------------------------------------------------
ValidName(name) == name.length \in 1..64 /\ name.plain

\* SemVer::is_compatible_with, the plugin's version against the core's.
IsCompatible(contract, version) ==
  /\ contract \in DOMAIN Core
  /\ version.major = Core[contract].major
  /\ version.minor >= Core[contract].minor

\* A prefix without the slashes at its end.
Trimmed(prefix) == SubSeq(prefix, 1, Max({1} \cup {i \in DOMAIN prefix : prefix[i] # ""}))

\* Mutant: ".." is let through.
CheckFilePath_Dots(path, prefixes) == \E p \in prefixes : IsPrefix(Trimmed(p), path)

\* check_file_path: the text of the path is looked at, component by component.
CheckFilePath(path, prefixes) ==
  /\ ToSet(path) \cap Dotted = {}
  /\ \E p \in prefixes : IsPrefix(Trimmed(p), path)

IsAllowed(cap) ==
  CASE cap.kind = "FileRead" -> CheckFilePath(cap.target, Policy.read)
    [] cap.kind = "FileWrite" -> CheckFilePath(cap.target, Policy.write)
    [] cap.kind = "Network" -> \E name \in Policy.network : IsSuffix(name, cap.target)
    [] cap.kind = "Shell" -> Policy.shell
    [] cap.kind = "Git" -> Policy.git

\* Why run() refuses a manifest, the first reason it comes to.
Refusal(m) ==
  IF ~ValidName(m.name) THEN "ManifestInvalid"
  ELSE IF \E i \in m.implements : ~IsCompatible(i.contract, i.version)
       THEN "IncompatibleContractVersion"
  ELSE IF m.class = "Safe" /\ m.capabilities # {} THEN "SafePluginRequestedCapability"
  ELSE IF \E cap \in m.capabilities : ~IsAllowed(cap) THEN "SecurityRejected"
  ELSE "none"

-----------------------------------------------------------------------------
Register(m) ==
  /\ bootStage = "registering"
  /\ registry' = Append(registry, m)
  /\ UNCHANGED <<keyed, bootStage, verified, bootError, decisions, busVars>>

Halt(error) ==
  /\ bootStage' = "halted"
  /\ bootError' = error
  /\ UNCHANGED verified

\* Stages 1 to 3: self_check, then the versions and the bus are made.
SelfCheck ==
  /\ bootStage = "registering"
  /\ IF keyed THEN bootStage' = "verifying" /\ UNCHANGED <<verified, bootError>>
     ELSE Halt("SecurityInit")
  /\ UNCHANGED <<registry, keyed, decisions, busVars>>

Decide(kind) == decisions' = Append(decisions, [kind |-> kind, plugin |-> verified + 1])

\* One turn of the loop over the manifests; verify() is the last check of it.
VerifyNext ==
  /\ bootStage = "verifying" /\ verified < Len(registry)
  /\ LET refusal == Refusal(registry[verified + 1]) IN
       \/ /\ refusal = "none"
          /\ Decide("Grant")
          /\ verified' = verified + 1
          /\ UNCHANGED <<bootStage, bootError>>
       \/ /\ refusal = "SecurityRejected"
          /\ Decide("Denial")
          /\ Halt(refusal)
       \/ /\ refusal \notin {"none", "SecurityRejected"}
          /\ UNCHANGED decisions
          /\ Halt(refusal)
  /\ UNCHANGED <<registry, keyed, busVars>>

\* The boot event goes to the BootstrapBus, which nobody can have subscribed to.
Announce ==
  /\ bootStage = "verifying" /\ verified = Len(registry)
  /\ bootStage' = "booted"
  /\ IF busKind = "bootstrap" THEN Publish(BootTopic) ELSE UNCHANGED busVars
  /\ UNCHANGED <<registry, keyed, verified, bootError, decisions>>

Boot == SelfCheck \/ VerifyNext \/ Announce

-----------------------------------------------------------------------------
HostTypeOK ==
  /\ BusTypeOK
  /\ keyed \in BOOLEAN
  /\ bootStage \in {"registering", "verifying", "booted", "halted"}
  /\ verified \in 0..Len(registry)
  /\ bootError \in {"none", "SecurityInit", "ManifestInvalid", "IncompatibleContractVersion",
                    "SafePluginRequestedCapability", "SecurityRejected"}
  /\ decisions \in Seq([kind : {"Grant", "Denial"}, plugin : Nat])

\* One component of a path further.
Enter(dir, c) ==
  IF c \in {"", "."} THEN dir
  ELSE IF c # ".." THEN Append(dir, c)
  ELSE IF dir = <<>> THEN dir
  ELSE Front(dir)

\* The directory a path names, whatever it is spelled like.
Resolve(path) == FoldLeft(Enter, <<>>, IF path[1] = "" THEN path ELSE Cwd \o path)

Within(path, prefixes) == \E p \in prefixes : IsPrefix(Resolve(p), Resolve(path))

\* What a plugin that was let in may hold at most.
InBounds(cap) ==
  /\ cap.kind = "FileRead" => Within(cap.target, Policy.read)
  /\ cap.kind = "FileWrite" => Within(cap.target, Policy.write)
  /\ cap.kind = "Network" => \E name \in Policy.network : IsSuffix(name, cap.target)
  /\ cap.kind = "Shell" => Policy.shell
  /\ cap.kind = "Git" => Policy.git
=============================================================================
