------------------------------ MODULE Sandbox ------------------------------
(***************************************************************************)
(* The wasmtime sandbox (crates/plugin-sandbox-wasmtime/src/lib.rs).       *)
(* Several threads execute modules at once.  One background thread         *)
(* advances the epoch; an execution sets its deadline in ticks of it and   *)
(* is interrupted at the first check after that.  How many ticks go by     *)
(* while a module does a given piece of work is up to the load of the      *)
(* host.  Fuel is counted in instructions and does not depend on load.     *)
(*                                                                         *)
(* A module is what it does: whether it compiles and fits the sandbox, the *)
(* pieces of work of its start function and of run, and how run ends if it *)
(* is let.  Fuel that runs out is one of the ways to end.  A module taken  *)
(* from the cache of compiled modules is the one compiled, so the cache is *)
(* left out; so is the end of the background thread.                       *)
(***************************************************************************)
EXTENDS Naturals

CONSTANTS
  Execution, \* threads that call execute
  Module,    \* modules they execute
  NoModule,
  Ticks      \* max_wallclock_ms in ticks of the epoch

\* Misfit: a host import, a missing export, a start function that fails by itself,
\* or a memory beyond the limit or below the input: each ends the execution before
\* run.  Garbage: not WASM.
Form == {"fits", "misfit", "garbage"}
Ending == {"true byte", "no true byte", "trap", "out of fuel"}
AnyModule == [form : Form, start : Nat, run : Nat, ends : Ending]

ASSUME SandboxAssumption ==
  /\ Module \subseteq AnyModule
  /\ \A m \in Module : m.run > 0
  /\ NoModule \notin Module
  /\ Ticks \in Nat

VARIABLES
  pc,     \* where each execution is
  module, \* the module it executes
  done,   \* pieces of work done in the function it is in
  left,   \* its epoch deadline less the epoch
  result  \* what execute returned last

sandboxVars == <<pc, module, done, left, result>>

\* Ok with or without a true first byte, and the SandboxErrors that occur.
Result == {"Ok true byte", "Ok no true byte", "Trap", "Timeout", "Compile"}

SandboxInit ==
  /\ pc = [e \in Execution |-> "idle"]
  /\ module = [e \in Execution |-> NoModule]
  /\ done = [e \in Execution |-> 0]
  /\ left = [e \in Execution |-> 0]
  /\ result = [e \in Execution |-> "none"]

Goto(e, place) == pc' = [pc EXCEPT ![e] = place]

\* The store and its deadline go with the execution.
Return(e, what) ==
  /\ Goto(e, "returned")
  /\ result' = [result EXCEPT ![e] = what]
  /\ done' = [done EXCEPT ![e] = 0]
  /\ left' = [left EXCEPT ![e] = 0]
  /\ UNCHANGED module

-----------------------------------------------------------------------------
CompileModule(e) ==
  /\ pc[e] = "compile"
  /\ IF module[e].form = "garbage"
     THEN Return(e, "Compile")
     ELSE Goto(e, "limits") /\ UNCHANGED <<module, done, left, result>>

\* div_ceil(..).max(1): a budget of nothing is one tick.
SetDeadline(e) ==
  /\ pc[e] = "limits"
  /\ left' = [left EXCEPT ![e] = IF Ticks = 0 THEN 1 ELSE Ticks]
  /\ Goto(e, "start")
  /\ UNCHANGED <<module, done, result>>

\* Only a module without a misfit gets to run.
Instantiate(e) ==
  /\ pc[e] = "start"
  /\ \/ /\ module[e].form = "misfit"
        /\ Return(e, "Trap")
     \/ /\ module[e].form = "fits"
        /\ done[e] = module[e].start
        /\ Goto(e, "run")
        /\ done' = [done EXCEPT ![e] = 0]
        /\ UNCHANGED <<module, left, result>>

\* The pieces of work of the function an execution is in.
Work(e) == IF pc[e] = "start" THEN module[e].start ELSE module[e].run

\* Code of the module is about to go on: it checks the epoch first.
AtCheck(e) ==
  /\ pc[e] \in {"start", "run"}
  /\ module[e].form = "fits"
  /\ done[e] < Work(e)

DoWork(e) ==
  /\ AtCheck(e)
  /\ left[e] > 0
  /\ done' = [done EXCEPT ![e] = @ + 1]
  /\ UNCHANGED <<pc, module, left, result>>

\* Mutant: an interrupted module is given the time again.
Interrupt_Extends(e) ==
  /\ AtCheck(e)
  /\ left[e] = 0
  /\ left' = [left EXCEPT ![e] = Ticks]
  /\ done' = [done EXCEPT ![e] = 0]
  /\ UNCHANGED <<pc, module, result>>

\* Interrupted in run, the error is looked at and becomes Timeout; interrupted in
\* instantiate, it becomes a Trap like any other error there.
Interrupt(e) ==
  /\ AtCheck(e)
  /\ left[e] = 0
  /\ Return(e, IF pc[e] = "start" THEN "Trap" ELSE "Timeout")

Finish(e) ==
  /\ pc[e] = "run"
  /\ done[e] = module[e].run
  /\ Return(e, CASE module[e].ends = "true byte" -> "Ok true byte"
                 [] module[e].ends = "no true byte" -> "Ok no true byte"
                 [] module[e].ends = "trap" -> "Trap"
                 [] module[e].ends = "out of fuel" -> "Timeout")

ExecuteStep(e) ==
  \/ CompileModule(e) \/ SetDeadline(e) \/ Instantiate(e)
  \/ DoWork(e) \/ Interrupt(e) \/ Finish(e)

\* One epoch for all executions.
Tick ==
  /\ \E e \in Execution : left[e] > 0
  /\ left' = [e \in Execution |-> IF left[e] > 0 THEN left[e] - 1 ELSE 0]
  /\ UNCHANGED <<pc, module, done, result>>
=============================================================================
