------------------------------ MODULE Runtime ------------------------------
(***************************************************************************)
(* The PRX and the game: _start writes the pointer table's address into    *)
(* the ELF, initialises the modules, whose init functions bind their hooks,*)
(* and returns to main; from then on the game calls hooked functions.      *)
(* Composes ModuleLoader with HookDispatch.                                *)
(*                                                                         *)
(* loader.s calls _start from main and waits for it, so that no hooked     *)
(* function is called before _start has returned. The PRX is unloaded with *)
(* the game: nothing calls once _stop has begun.                           *)
(***************************************************************************)
EXTENDS ModuleLoader

CONSTANTS HookCount, MaxFrames,
          Owner,        \* Owner[h]: the module whose init function binds h
          Emits         \* the choices of emitTrampoline considered

ASSUME RuntimeAssumption == HookCount \in Nat /\ MaxFrames \in Nat \ {0}

Nobody == 0             \* no SHK_BIND_HOOK( h ) in the build
Prx == -1               \* bound by initRuntime

VARIABLES emit, word, ptr, mem, at, r2, r31
Hooks == INSTANCE HookDispatch

loaderVars == vars
hookVars == <<emit, word, ptr, mem, at, r2, r31>>

HooksOf(o) == {h \in Hooks!Hook : Owner[h] = o}

SystemInit == Init /\ Hooks!HooksInit /\ emit \in Emits

\* _start up to its loop
StartRuntime ==
  /\ word = "0x0BADF00D"
  /\ Hooks!InitRuntime(HooksOf(Prx))
  /\ UNCHANGED loaderVars

\* hooks bound by the module's first line of code, before its dependencies
BindOnEntry(m) == InitModule(m) /\ Hooks!BindAll(HooksOf(m))

\* The init function of m binds its hooks.
InitAndBind(m) == RunInit(m) /\ Hooks!BindAll(HooksOf(m))

LoadModules ==
  /\ word = "prx"
  /\ \/ \E m \in Module : InitAndBind(m)
     \/ /\ \/ StartNext \/ StartDone \/ Stop \/ Shutdown
           \/ \E m \in Module : \/ DependencyNotFound(m) \/ ResolveDependency(m)
                                \/ DependencyFailed(m) \/ DependencyGood(m)
        /\ UNCHANGED hookVars

Play ==
  /\ phase = "running"
  /\ Hooks!Run
  /\ UNCHANGED loaderVars

Gone == phase = "stopped" /\ UNCHANGED <<loaderVars, hookVars>>

SystemNext == StartRuntime \/ LoadModules \/ Play \/ Gone

SystemSpec == SystemInit /\ [][SystemNext]_<<loaderVars, hookVars>>

-----------------------------------------------------------------------------
(* Properties                                                              *)

DispatchTypeOK == Hooks!DispatchTypeOK

CallersStateKept == Hooks!CallersStateKept
UsableCallsReachTheirFunction == Hooks!UsableCallsReachTheirFunction
CallsReachTheirFunction == Hooks!CallsReachTheirFunction

\* The code of a module runs only if the module has been initialised, and with
\* it everything it depends on: no handler meets a module that is not there.
HandlersAreReady ==
  Policy!Acyclic /\ Policy!Complete =>
    \A i \in 1..Len(mem) :
      mem[i].kind = "handler" /\ Owner[mem[i].of] \in Module =>
        LET m == Owner[mem[i].of]
        IN Initialised(m) /\ \A d \in Deps(m) : Initialised(d)
=============================================================================
