------------------------------ MODULE Wyrtloom ------------------------------
(***************************************************************************)
(* The program: a host boots over registered plugins, and only then does   *)
(* it run tasks or carry events.  A behaviour follows one of three parts,  *)
(* as no state is shared between them once the host is up: the seed, which *)
(* is main() with its plugins and its runs; a bus of such a host; and the  *)
(* boot of a host with any other plugins, which goes no further here.      *)
(***************************************************************************)
EXTENDS Pipeline, Host

CONSTANTS
  Manifest,  \* manifests a host may register
  Shipped,   \* the manifests main() registers, in order
  MaxPlugins \* bound: plugins of a host that is not the seed

ASSUME ProgramAssumption ==
  /\ Manifest \subseteq ManifestType /\ Shipped \in Seq(ManifestType)
  /\ MaxPlugins \in Nat

VARIABLE part

programVars == <<vars, busVars, hostVars, part>>

WyrtloomInit ==
  /\ part \in {"seed", "bus", "boot"}
  /\ PipelineInit /\ HostInit
  /\ part # "seed" => (\A r \in Run : pc[r] = "returned") /\ calm /\ ~interactive
  /\ part # "boot" => keyed
  /\ part # "bus" => busKind = "bootstrap"

-----------------------------------------------------------------------------
\* main() calls register_plugin for each of its plugins, then run().
NextShipped == part # "boot" /\ Len(registry) < Len(Shipped)

RegisterPlugin ==
  /\ \/ NextShipped /\ Register(Shipped[Len(registry) + 1])
     \/ /\ part = "boot" /\ Len(registry) < MaxPlugins
        /\ \E m \in Manifest : Register(m)
  /\ UNCHANGED <<vars, part>>

BootStep == ~NextShipped /\ Boot /\ UNCHANGED <<vars, part>>

\* What follows the "?" behind run() in main().
RunStep ==
  /\ bootStage = "booted" /\ part = "seed"
  /\ PipelineNext
  /\ UNCHANGED <<busVars, hostVars, part>>

EventStep ==
  /\ bootStage = "booted" /\ part = "bus"
  /\ BusStep
  /\ UNCHANGED <<vars, hostVars, part>>

WyrtloomNext == RegisterPlugin \/ BootStep \/ RunStep \/ EventStep

\* A run is a thread the scheduler lets go on once main() has come to it, and its
\* calls come back: the board's with a result or an error, the provider's at the
\* latest when its 30 seconds are over.  Nothing says that a human ever answers,
\* or that anyone registers one more plugin, publishes or reads an event.
WyrtloomSpec ==
  /\ WyrtloomInit /\ [][WyrtloomNext]_programVars
  /\ WF_programVars(NextShipped /\ RegisterPlugin)
  /\ WF_programVars(BootStep)
  /\ \A r \in Run :
       WF_programVars(/\ bootStage = "booted" /\ part = "seed" /\ OwnStep(r)
                      /\ UNCHANGED <<busVars, hostVars, part>>)
-----------------------------------------------------------------------------
WyrtloomTypeOK == PipelineTypeOK /\ HostTypeOK /\ part \in {"seed", "bus", "boot"}

\* Nothing runs on a host that has not verified every one of its plugins: a run
\* has a task, or the host is up, only if the audit log holds one grant for each
\* plugin, in order, and nothing else; and what was granted stays within the
\* policy, whatever a path is spelled like, and within the core's contracts.
VerifiedBeforeUse ==
  bootStage = "booted" \/ (\E r \in Run : task[r] # NoTask) =>
    /\ decisions = [i \in DOMAIN registry |-> [kind |-> "Grant", plugin |-> i]]
    /\ \A i \in DOMAIN registry :
         /\ \A cap \in registry[i].capabilities : registry[i].class = "Unsafe" /\ InBounds(cap)
         /\ \A c \in registry[i].implements : IsCompatible(c.contract, c.version)
=============================================================================
