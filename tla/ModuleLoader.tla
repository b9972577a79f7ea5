---------------------------- MODULE ModuleLoader ----------------------------
(***************************************************************************)
(* The module manager (prx/lib/module.c) driven by the entry points of the *)
(* PRX (prx/runtime/init.c): _start initialises the modules in table order,*)
(* each one after the modules it depends on, by recursion; _stop shuts     *)
(* them down in table order.                                               *)
(*                                                                         *)
(* The recursion of moduleInitModule is kept as it runs: `stack` holds the *)
(* activations, innermost first, pc[m] and next[m] the position of the one *)
(* for m, `status` is the register that carries the result back. A module  *)
(* has at most one activation that gets past the check of MODULE_FLAG_INIT,*)
(* so the activations are named by their module.                           *)
(***************************************************************************)
EXTENDS Integers, Sequences

CONSTANTS ModuleCount,  \* moduleGetModuleCount(): the entries of sModules
          Tables        \* the dependency tables of the builds considered

Module == 1..ModuleCount
NotFound == 0           \* moduleGetModuleByName returned NULL

ASSUME LoaderAssumption ==
  /\ ModuleCount \in Nat
  /\ Tables \subseteq [Module -> Seq(Module \cup {NotFound})]

\* ModuleInitStatus, and any other value a return register can hold
Status == {"ENABLED", "DISABLED", "DEPENDENCY_INVALID", "DEPENDENCY_DISABLED"}
Garbage == "garbage"
NoStatus == "none"

VARIABLES
  table,    \* table[m]: the dependencies of m, each resolved by name; never changes
  toggle,   \* toggle[m]: m's toggle setting is there, a BOOL, and true; never changes
  flags,    \* flags[m]: the MODULE_FLAG_ bits of m
  pc,       \* pc[m]: the activation of moduleInitModule( m )
  next,     \* next[m]: its position in the dependency list
  stack,    \* the modules whose activation has not returned, innermost first
  status,   \* the status the last call returned, until the caller has used it
  phase,    \* the entry point the PRX is in
  index,    \* the loop counter of _start and of _stop
  inits,    \* inits[m]: how often m's init function has been called
  stops     \* stops[m]: how often m's shutdown function has been called

build == <<table, toggle>>
frames == <<pc, next, stack>>
vars == <<table, toggle, flags, pc, next, stack, status, phase, index, inits, stops>>

Deps(m) == {table[m][i] : i \in DOMAIN table[m]}

Init == /\ table \in Tables
        /\ toggle \in [Module -> BOOLEAN]
        /\ flags = [m \in Module |-> {}]
        /\ pc = [m \in Module |-> "idle"]
        /\ next = [m \in Module |-> 1]
        /\ stack = << >>
        /\ status = NoStatus
        /\ phase = "start"
        /\ index = 1
        /\ inits = [m \in Module |-> 0]
        /\ stops = [m \in Module |-> 0]

-----------------------------------------------------------------------------
(* moduleInitModule                                                        *)

\* "module has already been loaded before"
AlreadyCalled(m) ==
  /\ "INIT" \in flags[m]
  /\ status' = IF "ENABLED" \in flags[m] THEN "ENABLED" ELSE "DISABLED"
  /\ UNCHANGED <<flags, frames>>

\* no usable toggle setting, or it is false: INIT stays set
ToggledOff(m) ==
  /\ "INIT" \notin flags[m]
  /\ ~toggle[m]
  /\ flags' = [flags EXCEPT ![m] = @ \cup {"INIT"}]
  /\ pc' = [pc EXCEPT ![m] = "done"]
  /\ status' = "DISABLED"
  /\ UNCHANGED <<next, stack>>

\* "set init flag early to prevent infinite recursion", and "mark as enabled
\* for now to satisfy recursive loads"
EntryFlags == {"INIT", "ENABLED"}

\* Two ways to get the start of the loop wrong, kept to show what the
\* properties catch: one entry before the list, and one past its first entry.
EntryBeforeFirst == 0
SecondDependency == 2
FirstDependency == 1

Enter(m) ==
  /\ "INIT" \notin flags[m]
  /\ toggle[m]
  /\ flags' = [flags EXCEPT ![m] = @ \cup EntryFlags]
  /\ pc' = [pc EXCEPT ![m] = "resolving"]
  /\ next' = [next EXCEPT ![m] = FirstDependency]
  /\ stack' = <<m>> \o stack
  /\ status' = NoStatus

\* moduleInitModule( m )
Call(m) == AlreadyCalled(m) \/ ToggledOff(m) \/ Enter(m)

Running(m) == stack # << >> /\ Head(stack) = m

Return(m, s) ==
  /\ pc' = [pc EXCEPT ![m] = "done"]
  /\ stack' = Tail(stack)
  /\ status' = s
  /\ UNCHANGED next

\* a mistaken loader that goes on to the next name instead of returning
SkipUnknownName(m) ==
  /\ Running(m) /\ status = NoStatus
  /\ next[m] <= Len(table[m])
  /\ table[m][next[m]] = NotFound
  /\ next' = [next EXCEPT ![m] = @ + 1]
  /\ UNCHANGED <<build, flags, pc, stack, status, phase, index, inits, stops>>

\* a name no module has: returns with ENABLED still set
DependencyNotFound(m) ==
  /\ Running(m) /\ status = NoStatus
  /\ next[m] <= Len(table[m])
  /\ table[m][next[m]] = NotFound
  /\ Return(m, "DEPENDENCY_INVALID")
  /\ UNCHANGED <<build, flags, phase, index, inits, stops>>

ResolveDependency(m) ==
  /\ Running(m) /\ status = NoStatus
  /\ next[m] <= Len(table[m])
  /\ table[m][next[m]] # NotFound
  /\ Call(table[m][next[m]])
  /\ UNCHANGED <<build, phase, index, inits, stops>>

\* a switch without `case MODULE_INIT_STATUS_DISABLED`
FailingButDisabled == Status \ {"ENABLED", "DISABLED"}

\* the cases of the switch that refuse the dependent
Failing == Status \ {"ENABLED"}

\* what the dependent reports when a dependency reported s
Propagated(s) == IF s = "DISABLED" THEN "DEPENDENCY_DISABLED" ELSE s

DependencyFailed(m) ==
  /\ Running(m)
  /\ status \in Failing
  /\ flags' = [flags EXCEPT ![m] = @ \ {"ENABLED"}]
  /\ Return(m, Propagated(status))
  /\ UNCHANGED <<build, phase, index, inits, stops>>

\* a loop that never moves to the next dependency
SameDependencyAgain(m) ==
  /\ Running(m)
  /\ status \notin Failing \cup {NoStatus}
  /\ status' = NoStatus
  /\ UNCHANGED <<build, flags, frames, phase, index, inits, stops>>

\* ENABLED, or a value no case names: on to the next dependency
DependencyGood(m) ==
  /\ Running(m)
  /\ status \notin Failing \cup {NoStatus}
  /\ next' = [next EXCEPT ![m] = @ + 1]
  /\ status' = NoStatus
  /\ UNCHANGED <<build, flags, pc, stack, phase, index, inits, stops>>

\* Falling off the end after the init function leaves whatever the return
\* register holds.
UndefinedStatus == Status \cup {Garbage}

RunInit(m) ==
  /\ Running(m) /\ status = NoStatus
  /\ next[m] > Len(table[m])
  /\ inits' = [inits EXCEPT ![m] = @ + 1]
  /\ \E s \in UndefinedStatus : Return(m, s)
  /\ UNCHANGED <<build, flags, phase, index, stops>>

-----------------------------------------------------------------------------
(* _start, _stop and moduleShutdownModule                                  *)

StartNext ==
  /\ phase = "start" /\ stack = << >>
  /\ index \in Module
  /\ Call(index)
  /\ index' = index + 1
  /\ UNCHANGED <<build, phase, inits, stops>>

StartDone ==
  /\ phase = "start" /\ stack = << >>
  /\ index \notin Module
  /\ phase' = "running"
  /\ UNCHANGED <<build, flags, frames, status, index, inits, stops>>

\* the system unloads the PRX
Stop ==
  /\ phase = "running"
  /\ phase' = "stop"
  /\ index' = 1
  /\ UNCHANGED <<build, flags, frames, status, inits, stops>>

\* a _stop that shuts down every module it has not shut down yet
ShutDownUnlessDone(m) == "SHUTDOWN" \notin flags[m]

MustShutDown(m) == "ENABLED" \in flags[m] /\ "SHUTDOWN" \notin flags[m]

StopNext ==
  /\ phase = "stop"
  /\ index \in Module
  /\ \/ /\ MustShutDown(index)
        /\ stops' = [stops EXCEPT ![index] = @ + 1]
        /\ flags' = [flags EXCEPT ![index] = @ \cup {"SHUTDOWN"}]
     \/ /\ ~MustShutDown(index)
        /\ UNCHANGED <<stops, flags>>
  /\ index' = index + 1
  /\ UNCHANGED <<build, frames, status, phase, inits>>

StopDone ==
  /\ phase = "stop"
  /\ index \notin Module
  /\ phase' = "stopped"
  /\ UNCHANGED <<build, flags, frames, status, index, inits, stops>>

InitModule(m) == \/ DependencyNotFound(m) \/ ResolveDependency(m)
                 \/ DependencyFailed(m) \/ DependencyGood(m) \/ RunInit(m)

Start == StartNext \/ StartDone \/ \E m \in Module : InitModule(m)
Shutdown == StopNext \/ StopDone

\* the PRX is gone
Stopped == phase = "stopped" /\ UNCHANGED vars

Next == Start \/ Stop \/ Shutdown \/ Stopped

Spec == Init /\ [][Next]_vars

\* _start and _stop are straight-line calls of one thread: once entered they
\* go on. Nothing obliges the system to unload the PRX.
FairSpec == Spec /\ WF_vars(Start) /\ WF_vars(Shutdown)

-----------------------------------------------------------------------------
(* Properties                                                              *)

TypeOK ==
  /\ table \in Tables
  /\ toggle \in [Module -> BOOLEAN]
  /\ flags \in [Module -> SUBSET {"INIT", "ENABLED", "SHUTDOWN"}]
  /\ pc \in [Module -> {"idle", "resolving", "done"}]
  /\ next \in [Module -> Nat \ {0}]
  /\ stack \in Seq(Module)
  /\ status \in Status \cup {Garbage, NoStatus}
  /\ phase \in {"start", "running", "stop", "stopped"}
  /\ index \in 1..(ModuleCount + 1)
  /\ inits \in [Module -> Nat]
  /\ stops \in [Module -> Nat]

Life == [m \in Module |-> IF inits[m] > 0
                          THEN IF stops[m] > 0 THEN "unloaded" ELSE "loaded"
                          ELSE IF pc[m] = "done" THEN "refused" ELSE "pending"]

Policy == INSTANCE ModulePolicy WITH life <- Life

\* A module whose init function has been called
Initialised(m) == m \in Module /\ inits[m] > 0

\* The header's promise about `dependencies`: they are loaded before the module
\* itself, and if one of them is not, the module is not. Stated for every
\* table without a dependency cycle, whatever the order of its entries.
DependenciesReady ==
  Policy!Acyclic =>
    \A m \in Module : Initialised(m) => \A d \in Deps(m) : Initialised(d)

\* The same for the tables in which every dependency names a module: neither
\* the early INIT flag, nor the undefined status of a fresh load, nor a
\* dependency shared by several modules lets a dependent run too early.
NamedDependenciesReady == Policy!Complete => DependenciesReady

\* init and shutdown calls pair up, in every table whose names resolve, cycles
\* included: no module is initialised twice however many modules name it, none
\* is shut down that was not initialised (a rolled-back dependent of a failed
\* dependency, say), and _stop forgets none that was.
CallsPairUp ==
  Policy!Complete =>
    /\ \A m \in Module : stops[m] <= inits[m] /\ inits[m] <= 1
    /\ phase = "stopped" => stops = inits

\* Why the shipped table works although a fresh load returns nothing: in a
\* table that lists dependencies first, the modules initialised by _start are
\* exactly those switched on whose dependencies are all initialised.
OrderedTableIsExact ==
  Policy!Ordered /\ Policy!Complete /\ phase # "start" =>
    \A m \in Module :
      Initialised(m) <=> toggle[m] /\ \A d \in Deps(m) : Initialised(d)

\* prx/README.md: a dependent is left out when a dependency is not enabled or
\* cannot be loaded - and not otherwise, in any order of the entries.
RefusedForCause ==
  Policy!Acyclic /\ Policy!Complete /\ phase # "start" =>
    \A m \in Module :
      toggle[m] /\ (\A d \in Deps(m) : Initialised(d)) => Initialised(m)

\* The loader does what the policy allows, and only that.
RefinesPolicy == Policy!Spec

\* The recursion ends for every table, cyclic ones included: _start returns to
\* the system (the game's main thread waits for it), and so does _stop.
EntryPointsReturn == /\ <>(phase = "running")
                     /\ phase = "stop" ~> phase = "stopped"
=============================================================================
