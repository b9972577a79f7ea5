---------------------------- MODULE Runtime_proofs ----------------------------
(* Theorems about the module manager alone, for every number of modules and *)
(* every dependency table, and about it in the game, for every number of     *)
(* hooks and owners of them, every choice of trampolines and nesting of calls.*)
EXTENDS Runtime, TLAPS

(***************************************************************************)
(* The stack of activations                                                *)
(***************************************************************************)

\* Entering an activation puts it in front and moves the others back by one.
LEMMA PushLemma ==
  ASSUME NEW S, NEW s \in Seq(S), NEW e \in S
  PROVE  /\ <<e>> \o s \in Seq(S)
         /\ Len(<<e>> \o s) = Len(s) + 1
         /\ (<<e>> \o s)[1] = e
         /\ \A i \in 2..(Len(s) + 1) : (<<e>> \o s)[i] = s[i - 1]
         /\ <<e>> \o s # << >>
         /\ Head(<<e>> \o s) = e
  OBVIOUS

\* Returning from one takes it away and moves the others up by one.
LEMMA PopLemma ==
  ASSUME NEW S, NEW s \in Seq(S), s # << >>
  PROVE  /\ Tail(s) \in Seq(S)
         /\ Len(s) \in Nat \ {0}
         /\ Len(Tail(s)) = Len(s) - 1
         /\ \A i \in 1..(Len(s) - 1) : Tail(s)[i] = s[i + 1]
         /\ Head(s) = s[1]
         /\ Head(s) \in S
  OBVIOUS

(***************************************************************************)
(* Type correctness                                                        *)
(***************************************************************************)

\* A call of moduleInitModule keeps the types, whichever way it goes.
LEMMA CallType ==
  ASSUME TypeOK, NEW m \in Module, Call(m)
  PROVE  /\ flags' \in [Module -> SUBSET {"INIT", "ENABLED", "SHUTDOWN"}]
         /\ pc' \in [Module -> {"idle", "resolving", "done"}]
         /\ next' \in [Module -> Nat \ {0}]
         /\ stack' \in Seq(Module)
         /\ status' \in Status \cup {Garbage, NoStatus}
<1>1. CASE AlreadyCalled(m)
  BY <1>1 DEF AlreadyCalled, TypeOK, frames, Status
<1>2. CASE ToggledOff(m)
  BY <1>2 DEF ToggledOff, TypeOK, Status
<1>3. CASE Enter(m)
  <2>1. stack' \in Seq(Module)
    BY <1>3, PushLemma DEF Enter, TypeOK
  <2> QED
    BY <1>3, <2>1 DEF Enter, TypeOK, FirstDependency, EntryFlags
<1> QED
  BY <1>1, <1>2, <1>3 DEF Call

\* A return keeps the types.
LEMMA ReturnType ==
  ASSUME TypeOK, NEW m \in Module, NEW s \in Status \cup {Garbage},
         Running(m), Return(m, s)
  PROVE  /\ pc' \in [Module -> {"idle", "resolving", "done"}]
         /\ stack' \in Seq(Module)
         /\ status' \in Status \cup {Garbage, NoStatus}
         /\ next' = next
BY PopLemma DEF Return, Running, TypeOK

\* The variables keep the types that the code gives them.
THEOREM TypeCorrect == Spec => []TypeOK
<1>1. Init => TypeOK
  <2> SUFFICES ASSUME Init PROVE TypeOK
    OBVIOUS
  <2> QED
    BY LoaderAssumption DEF Init, TypeOK
<1>2. TypeOK /\ [Next]_vars => TypeOK'
  <2> SUFFICES ASSUME TypeOK, [Next]_vars PROVE TypeOK'
    OBVIOUS
  <2>0. table \in [Module -> Seq(Module \cup {NotFound})]
    BY LoaderAssumption DEF TypeOK
  <2>1. CASE StartNext
    <3>1. index \in Module /\ Call(index)
      BY <2>1 DEF StartNext
    <3>2. index' \in 1..(ModuleCount + 1)
      BY <2>1, LoaderAssumption DEF StartNext, Module
    <3> QED
      BY <2>1, <3>1, <3>2, CallType DEF StartNext, TypeOK, build
  <2>2. CASE StartDone
    BY <2>2 DEF StartDone, TypeOK, build, frames
  <2>3. ASSUME NEW m \in Module, InitModule(m) PROVE TypeOK'
    <3>1. CASE DependencyNotFound(m)
      BY <3>1, ReturnType DEF DependencyNotFound, TypeOK, build, Status
    <3>2. CASE ResolveDependency(m)
      <4>1. table[m][next[m]] \in Module
        BY <3>2, <2>0 DEF ResolveDependency, TypeOK
      <4> QED
        BY <3>2, <4>1, CallType DEF ResolveDependency, TypeOK, build
    <3>3. CASE DependencyFailed(m)
      <4>1. Propagated(status) \in Status
        BY <3>3 DEF DependencyFailed, Propagated, Failing, Status
      <4> QED
        BY <3>3, <4>1, ReturnType DEF DependencyFailed, TypeOK, build
    <3>4. CASE DependencyGood(m)
      BY <3>4 DEF DependencyGood, TypeOK, build
    <3>5. CASE RunInit(m)
      <4>1. PICK s \in UndefinedStatus : Return(m, s)
        BY <3>5 DEF RunInit
      <4>2. Running(m) /\ s \in Status \cup {Garbage}
        BY <3>5 DEF RunInit, UndefinedStatus
      <4>3. inits' \in [Module -> Nat]
        BY <3>5 DEF RunInit, TypeOK
      <4> QED
        BY <3>5, <4>1, <4>2, <4>3, ReturnType DEF RunInit, TypeOK, build
    <3> QED
      BY <2>3, <3>1, <3>2, <3>3, <3>4, <3>5 DEF InitModule
  <2>4. CASE Stop
    BY <2>4, LoaderAssumption DEF Stop, TypeOK, build, frames
  <2>5. CASE StopNext
    <3>1. index' \in 1..(ModuleCount + 1)
      BY <2>5, LoaderAssumption DEF StopNext, Module
    <3>2. CASE MustShutDown(index)
      <4>1. /\ stops' = [stops EXCEPT ![index] = @ + 1]
            /\ flags' = [flags EXCEPT ![index] = @ \cup {"SHUTDOWN"}]
        BY <2>5, <3>2 DEF StopNext
      <4> QED
        BY <2>5, <3>1, <4>1 DEF StopNext, TypeOK, build, frames
    <3>3. CASE ~MustShutDown(index)
      BY <2>5, <3>1, <3>3 DEF StopNext, TypeOK, build, frames
    <3> QED
      BY <3>2, <3>3
  <2>6. CASE StopDone
    BY <2>6 DEF StopDone, TypeOK, build, frames
  <2>7. CASE UNCHANGED vars
    BY <2>7 DEF vars, TypeOK
  <2> QED
    BY <2>1, <2>2, <2>3, <2>4, <2>5, <2>6, <2>7
    DEF Next, Start, Shutdown, Stopped
<1> QED
  BY <1>1, <1>2, PTL DEF Spec

(***************************************************************************)
(* The inductive invariant                                                 *)
(***************************************************************************)

OnStack(m) == \E i \in 1..Len(stack) : stack[i] = m

\* The activations that have not returned are those on the stack, each once;
\* there are none once _start has returned.
StackInv ==
  /\ \A m \in Module : pc[m] = "resolving" <=> OnStack(m)
  /\ \A i, j \in 1..Len(stack) : stack[i] = stack[j] => i = j
  /\ phase # "start" => stack = << >>

\* INIT marks the modules that were called; an initialised module stays
\* ENABLED, and so does one that is still resolving its dependencies.
FlagInv ==
  \A m \in Module :
    /\ "INIT" \notin flags[m] <=> pc[m] = "idle"
    /\ pc[m] = "idle" => "ENABLED" \notin flags[m]
    /\ pc[m] = "resolving" => "ENABLED" \in flags[m] /\ toggle[m]
    /\ inits[m] \in {0, 1}
    /\ inits[m] = 1 => pc[m] = "done" /\ "ENABLED" \in flags[m] /\ toggle[m]

\* When every dependency names a module, ENABLED outlives the activation only
\* if the init function has been called.
EnabledInv ==
  Policy!Complete =>
    \A m \in Module : pc[m] = "done" /\ "ENABLED" \in flags[m] => inits[m] = 1

\* Shutdown calls happen in _stop, at most one for a module, to enabled modules,
\* and _stop has left out none of those it has passed.
StopInv ==
  /\ phase \in {"start", "running"} => \A m \in Module : stops[m] = 0
  /\ \A m \in Module :
       /\ stops[m] \in {0, 1}
       /\ stops[m] = 1 <=> "SHUTDOWN" \in flags[m]
       /\ "SHUTDOWN" \in flags[m] => "ENABLED" \in flags[m]
  /\ phase = "stop" =>
       \A m \in 1..(index - 1) : "ENABLED" \in flags[m] => "SHUTDOWN" \in flags[m]
  /\ phase = "stopped" =>
       \A m \in Module : "ENABLED" \in flags[m] => "SHUTDOWN" \in flags[m]

CoreInv == StackInv /\ FlagInv /\ EnabledInv /\ StopInv

\* What Enter does to the set of activations
LEMMA EnterStack ==
  ASSUME TypeOK, StackInv, FlagInv, NEW m \in Module, Enter(m)
  PROVE  /\ \A x \in Module : pc'[x] = "resolving" <=> OnStack(x)'
         /\ \A i, j \in 1..Len(stack') : stack'[i] = stack'[j] => i = j
<1>1. /\ stack' = <<m>> \o stack
      /\ pc' = [pc EXCEPT ![m] = "resolving"]
      /\ pc[m] = "idle"
  BY DEF Enter, FlagInv
<1>2. /\ Len(stack) \in Nat
      /\ Len(stack') = Len(stack) + 1
      /\ stack'[1] = m
      /\ \A i \in 2..(Len(stack) + 1) : stack'[i] = stack[i - 1]
  BY <1>1, PushLemma DEF TypeOK
<1>3. \A i \in 1..Len(stack) : stack[i] # m
  BY <1>1 DEF StackInv, OnStack
<1>4. \A i, j \in 1..Len(stack') : stack'[i] = stack'[j] => i = j
  <2> SUFFICES ASSUME NEW i \in 1..Len(stack'), NEW j \in 1..Len(stack'),
                      stack'[i] = stack'[j]
               PROVE  i = j
    OBVIOUS
  <2>1. CASE i = 1 /\ j # 1
    BY <1>2, <1>3, <2>1
  <2>2. CASE i # 1 /\ j = 1
    BY <1>2, <1>3, <2>2
  <2>3. CASE i # 1 /\ j # 1
    <3>1. stack[i - 1] = stack[j - 1] /\ i - 1 \in 1..Len(stack) /\ j - 1 \in 1..Len(stack)
      BY <1>2, <2>3
    <3> QED
      BY <3>1 DEF StackInv
  <2> QED
    BY <2>1, <2>2, <2>3
<1>5. ASSUME NEW x \in Module PROVE pc'[x] = "resolving" <=> OnStack(x)'
  <2>1. CASE x = m
    BY <1>1, <1>2, <2>1 DEF OnStack, TypeOK
  <2>2. CASE x # m
    <3>1. ASSUME NEW i \in 1..Len(stack), stack[i] = x PROVE OnStack(x)'
      <4>1. i + 1 \in 1..Len(stack') /\ stack'[i + 1] = x
        BY <1>2, <3>1
      <4> QED
        BY <4>1 DEF OnStack
    <3>2. ASSUME NEW i \in 1..Len(stack'), stack'[i] = x PROVE OnStack(x)
      <4>1. i - 1 \in 1..Len(stack) /\ stack[i - 1] = x
        BY <1>2, <2>2, <3>2
      <4> QED
        BY <4>1 DEF OnStack
    <3>3. pc'[x] = pc[x]
      BY <1>1, <2>2 DEF TypeOK
    <3> QED
      BY <3>1, <3>2, <3>3 DEF StackInv, OnStack
  <2> QED
    BY <2>1, <2>2
<1> QED
  BY <1>4, <1>5

\* What Return does to it
LEMMA ReturnStack ==
  ASSUME TypeOK, StackInv, NEW m \in Module, NEW s, Running(m), Return(m, s)
  PROVE  /\ \A x \in Module : pc'[x] = "resolving" <=> OnStack(x)'
         /\ \A i, j \in 1..Len(stack') : stack'[i] = stack'[j] => i = j
<1>1. /\ stack # << >>
      /\ stack' = Tail(stack)
      /\ pc' = [pc EXCEPT ![m] = "done"]
      /\ m = Head(stack)
  BY DEF Running, Return
<1>2. /\ Len(stack) \in Nat \ {0}
      /\ Len(stack') = Len(stack) - 1
      /\ stack[1] = m
      /\ \A i \in 1..(Len(stack) - 1) : stack'[i] = stack[i + 1]
  BY <1>1, PopLemma DEF TypeOK
<1>3. \A i \in 2..Len(stack) : stack[i] # m
  BY <1>2 DEF StackInv
<1>4. \A i, j \in 1..Len(stack') : stack'[i] = stack'[j] => i = j
  <2> SUFFICES ASSUME NEW i \in 1..Len(stack'), NEW j \in 1..Len(stack'),
                      stack'[i] = stack'[j]
               PROVE  i = j
    OBVIOUS
  <2>1. stack[i + 1] = stack[j + 1] /\ i + 1 \in 1..Len(stack) /\ j + 1 \in 1..Len(stack)
    BY <1>2
  <2> QED
    BY <2>1 DEF StackInv
<1>5. ASSUME NEW x \in Module PROVE pc'[x] = "resolving" <=> OnStack(x)'
  <2>1. ASSUME NEW i \in 1..Len(stack'), stack'[i] = x
        PROVE  x # m /\ OnStack(x)
    <3>1. i + 1 \in 2..Len(stack) /\ stack[i + 1] = x
      BY <1>2, <2>1
    <3> QED
      BY <1>2, <1>3, <3>1 DEF OnStack
  <2>2. ASSUME NEW i \in 1..Len(stack), stack[i] = x, x # m
        PROVE  OnStack(x)'
    <3>1. i - 1 \in 1..Len(stack') /\ stack'[i - 1] = x
      BY <1>2, <2>2
    <3> QED
      BY <3>1 DEF OnStack
  <2>3. pc'[x] = IF x = m THEN "done" ELSE pc[x]
    BY <1>1 DEF TypeOK
  <2> QED
    BY <2>1, <2>2, <2>3 DEF StackInv, OnStack
<1> QED
  BY <1>4, <1>5

\* A call of moduleInitModule keeps the invariant.
LEMMA CallCore ==
  ASSUME TypeOK, CoreInv, NEW m \in Module, Call(m), phase = "start",
         phase' = phase, table' = table, toggle' = toggle,
         inits' = inits, stops' = stops
  PROVE  CoreInv'
<1>0. StackInv /\ FlagInv /\ EnabledInv /\ StopInv
  BY DEF CoreInv
<1>1. CASE AlreadyCalled(m)
  <2>1. flags' = flags /\ pc' = pc /\ next' = next /\ stack' = stack
    BY <1>1 DEF AlreadyCalled, frames
  <2> QED
    BY <1>0, <2>1
    DEF CoreInv, StackInv, OnStack, FlagInv, EnabledInv, StopInv, Policy!Complete,
        Policy!Deps, Policy!Module, Module
<1>2. CASE ToggledOff(m)
  <2>1. /\ flags' = [flags EXCEPT ![m] = @ \cup {"INIT"}]
        /\ pc' = [pc EXCEPT ![m] = "done"]
        /\ stack' = stack
        /\ pc[m] = "idle" /\ "ENABLED" \notin flags[m]
        /\ ~toggle[m]
    BY <1>0, <1>2 DEF ToggledOff, FlagInv
  <2>2. StackInv'
    BY <1>0, <2>1, SMTT(30) DEF StackInv, OnStack, TypeOK
  <2>3. FlagInv'
    BY <1>0, <2>1 DEF FlagInv, TypeOK
  <2>4. EnabledInv'
    BY <1>0, <2>1 DEF EnabledInv, TypeOK, Policy!Complete, Policy!Deps, Policy!Module, Module
  <2>5. StopInv'
    BY <1>0, <2>1 DEF StopInv, TypeOK
  <2> QED
    BY <2>2, <2>3, <2>4, <2>5 DEF CoreInv
<1>3. CASE Enter(m)
  <2>1. /\ flags' = [flags EXCEPT ![m] = @ \cup {"INIT", "ENABLED"}]
        /\ pc' = [pc EXCEPT ![m] = "resolving"]
        /\ pc[m] = "idle" /\ inits[m] = 0
        /\ toggle[m]
    BY <1>0, <1>3 DEF Enter, EntryFlags, FlagInv
  <2>2. StackInv'
    BY <1>0, <1>3, EnterStack DEF StackInv
  <2>3. FlagInv'
    BY <1>0, <2>1 DEF FlagInv, TypeOK
  <2>4. EnabledInv'
    BY <1>0, <2>1 DEF EnabledInv, TypeOK, Policy!Complete, Policy!Deps, Policy!Module, Module
  <2>5. StopInv'
    BY <1>0, <2>1 DEF StopInv, TypeOK
  <2> QED
    BY <2>2, <2>3, <2>4, <2>5 DEF CoreInv
<1> QED
  BY <1>1, <1>2, <1>3 DEF Call

LEMMA CoreInit == Init => CoreInv
<1> SUFFICES ASSUME Init PROVE CoreInv
  OBVIOUS
<1>1. StackInv
  BY DEF Init, StackInv, OnStack
<1>2. FlagInv /\ EnabledInv /\ StopInv
  BY DEF Init, FlagInv, EnabledInv, StopInv
<1> QED
  BY <1>1, <1>2 DEF CoreInv

\* The running activation is resolving, and belongs to _start.
LEMMA RunningLemma ==
  ASSUME TypeOK, StackInv, NEW m \in Module, Running(m)
  PROVE  pc[m] = "resolving" /\ phase = "start"
<1>1. stack # << >> /\ Len(stack) \in Nat \ {0} /\ stack[1] = m
  BY PopLemma DEF Running, TypeOK
<1>2. OnStack(m)
  BY <1>1 DEF OnStack
<1> QED
  BY <1>1, <1>2 DEF StackInv

LEMMA CoreStep == TypeOK /\ CoreInv /\ [Next]_vars => CoreInv'
<1> SUFFICES ASSUME TypeOK, CoreInv, [Next]_vars PROVE CoreInv'
  OBVIOUS
<1>0. StackInv /\ FlagInv /\ EnabledInv /\ StopInv
  BY DEF CoreInv
<1> USE DEF Policy!Complete, Policy!Deps, Policy!Module, Module
<1>1. CASE StartNext
  BY <1>1, CallCore DEF StartNext, build
<1>2. CASE StartDone
  BY <1>0, <1>2
  DEF StartDone, build, frames, CoreInv, StackInv, OnStack, FlagInv, EnabledInv, StopInv
<1>3. ASSUME NEW m \in Module, InitModule(m) PROVE CoreInv'
  <2>0. pc[m] = "resolving" /\ phase = "start"
    BY <1>0, <1>3, RunningLemma
    DEF InitModule, DependencyNotFound, ResolveDependency, DependencyFailed,
        DependencyGood, RunInit
  <2>1. CASE DependencyNotFound(m)
    <3>1. /\ pc' = [pc EXCEPT ![m] = "done"]
          /\ flags' = flags /\ inits' = inits /\ stops' = stops /\ phase' = phase
          /\ table' = table /\ toggle' = toggle
      BY <2>1 DEF DependencyNotFound, Return, build
    <3>2. StackInv'
      BY <1>0, <2>0, <2>1, ReturnStack DEF DependencyNotFound, StackInv
    <3>3. ~Policy!Complete
      <4>1. next[m] \in DOMAIN table[m] /\ table[m][next[m]] = NotFound
        BY <2>1, LoaderAssumption DEF DependencyNotFound, TypeOK
      <4>2. NotFound \in Policy!Deps(m)
        BY <4>1
      <4>3. NotFound \notin 1..ModuleCount
        BY DEF NotFound
      <4> QED
        BY <4>2, <4>3
    <3> QED
      BY <1>0, <2>0, <3>1, <3>2, <3>3
      DEF CoreInv, FlagInv, EnabledInv, StopInv, TypeOK
  <2>2. CASE ResolveDependency(m)
    <3>1. table[m][next[m]] \in Module
      BY <2>2, LoaderAssumption, SMTT(30) DEF ResolveDependency, TypeOK
    <3> QED
      BY <2>0, <2>2, <3>1, CallCore DEF ResolveDependency, build
  <2>3. CASE DependencyFailed(m)
    <3>1. /\ pc' = [pc EXCEPT ![m] = "done"]
          /\ flags' = [flags EXCEPT ![m] = @ \ {"ENABLED"}]
          /\ inits' = inits /\ stops' = stops /\ phase' = phase
          /\ table' = table /\ toggle' = toggle
      BY <2>3 DEF DependencyFailed, Return, build
    <3>2. StackInv'
      BY <1>0, <2>0, <2>3, ReturnStack DEF DependencyFailed, StackInv
    <3>3. FlagInv'
      BY <1>0, <2>0, <3>1 DEF FlagInv, TypeOK
    <3>4. EnabledInv'
      BY <1>0, <3>1 DEF EnabledInv, TypeOK
    <3>5. StopInv'
      BY <1>0, <2>0, <3>1 DEF StopInv, TypeOK
    <3> QED
      BY <3>2, <3>3, <3>4, <3>5 DEF CoreInv
  <2>4. CASE DependencyGood(m)
    BY <1>0, <2>4
    DEF DependencyGood, build, CoreInv, StackInv, OnStack, FlagInv, EnabledInv, StopInv
  <2>5. CASE RunInit(m)
    <3>1. PICK s : Return(m, s)
      BY <2>5 DEF RunInit
    <3>2. /\ pc' = [pc EXCEPT ![m] = "done"]
          /\ inits' = [inits EXCEPT ![m] = @ + 1]
          /\ flags' = flags /\ stops' = stops /\ phase' = phase
          /\ table' = table /\ toggle' = toggle
      BY <2>5, <3>1 DEF RunInit, Return, build
    <3>3. inits[m] = 0
      BY <1>0, <2>0 DEF FlagInv
    <3>4. StackInv'
      BY <1>0, <2>0, <2>5, <3>1, <3>2, ReturnStack DEF RunInit, StackInv
    <3>5. FlagInv'
      BY <1>0, <2>0, <3>2, <3>3 DEF FlagInv, TypeOK
    <3>6. EnabledInv' /\ StopInv'
      BY <1>0, <2>0, <3>2, <3>3 DEF EnabledInv, StopInv, TypeOK
    <3> QED
      BY <3>4, <3>5, <3>6 DEF CoreInv
  <2> QED
    BY <1>3, <2>1, <2>2, <2>3, <2>4, <2>5 DEF InitModule
<1>4. CASE Stop
  BY <1>0, <1>4
  DEF Stop, build, frames, CoreInv, StackInv, OnStack, FlagInv, EnabledInv, StopInv
<1>5. CASE StopNext
  <2>1. StackInv'
    BY <1>0, <1>5 DEF StopNext, frames, StackInv, OnStack
  <2>2. CASE MustShutDown(index)
    <3>1. /\ stops' = [stops EXCEPT ![index] = @ + 1]
          /\ flags' = [flags EXCEPT ![index] = @ \cup {"SHUTDOWN"}]
          /\ index \in Module /\ index' = index + 1
          /\ pc' = pc /\ inits' = inits /\ phase' = phase /\ phase = "stop"
          /\ table' = table /\ toggle' = toggle
          /\ "ENABLED" \in flags[index] /\ "SHUTDOWN" \notin flags[index]
      BY <1>5, <2>2 DEF StopNext, build, frames, MustShutDown
    <3>2. FlagInv' /\ EnabledInv'
      BY <1>0, <3>1 DEF FlagInv, EnabledInv, TypeOK
    <3>3. StopInv'
      BY <1>0, <3>1, LoaderAssumption, SMTT(30) DEF StopInv, TypeOK
    <3> QED
      BY <2>1, <3>2, <3>3 DEF CoreInv
  <2>3. CASE ~MustShutDown(index)
    <3>1. /\ stops' = stops /\ flags' = flags
          /\ index \in Module /\ index' = index + 1
          /\ pc' = pc /\ inits' = inits /\ phase' = phase /\ phase = "stop"
          /\ table' = table /\ toggle' = toggle
          /\ "ENABLED" \in flags[index] => "SHUTDOWN" \in flags[index]
      BY <1>5, <2>3 DEF StopNext, build, frames, MustShutDown
    <3>2. FlagInv' /\ EnabledInv'
      BY <1>0, <3>1 DEF FlagInv, EnabledInv
    <3>3. StopInv'
      BY <1>0, <3>1, LoaderAssumption DEF StopInv
    <3> QED
      BY <2>1, <3>2, <3>3 DEF CoreInv
  <2> QED
    BY <2>2, <2>3
<1>6. CASE StopDone
  <2>1. index = ModuleCount + 1
    BY <1>6, LoaderAssumption DEF StopDone, TypeOK
  <2>2. /\ phase = "stop" /\ phase' = "stopped"
        /\ UNCHANGED <<table, toggle, flags, pc, stack, inits, stops>>
    BY <1>6 DEF StopDone, build, frames
  <2>3. StackInv' /\ FlagInv' /\ EnabledInv'
    BY <1>0, <2>2 DEF StackInv, OnStack, FlagInv, EnabledInv
  <2>4. StopInv'
    BY <1>0, <2>1, <2>2, LoaderAssumption DEF StopInv
  <2> QED
    BY <2>3, <2>4 DEF CoreInv
<1>7. CASE UNCHANGED vars
  BY <1>0, <1>7 DEF vars, CoreInv, StackInv, OnStack, FlagInv, EnabledInv, StopInv
<1> QED
  BY <1>1, <1>2, <1>3, <1>4, <1>5, <1>6, <1>7 DEF Next, Start, Shutdown, Stopped

\* moduleInitModule has each module on its stack once, exactly while it resolves
\* the dependencies of that module.
THEOREM CoreCorrect == Spec => []CoreInv
<1>1. TypeOK /\ CoreInv /\ [Next]_vars => CoreInv'
  BY CoreStep
<1> QED
  BY <1>1, CoreInit, TypeCorrect, PTL DEF Spec

\* Every module is initialised at most once, is shut down only if it was
\* initialised, and is shut down by the end of _stop if it was: for every table
\* whose dependencies name modules.
THEOREM CallsPairUpCorrect == Spec => []CallsPairUp
<1>1. TypeOK /\ CoreInv => CallsPairUp
  <2> SUFFICES ASSUME TypeOK, CoreInv, Policy!Complete
               PROVE  /\ \A m \in Module : stops[m] <= inits[m] /\ inits[m] <= 1
                      /\ phase = "stopped" => stops = inits
    BY DEF CallsPairUp
  <2>1. FlagInv /\ EnabledInv /\ StopInv /\ StackInv
    BY DEF CoreInv
  <2>2. ASSUME NEW m \in Module PROVE stops[m] <= inits[m] /\ inits[m] <= 1
    <3>1. stops[m] = 1 => phase \notin {"start", "running"}
      BY <2>1 DEF StopInv
    <3>2. stops[m] = 1 => pc[m] = "done"
      <4>1. phase # "start" => pc[m] # "resolving"
        BY <2>1 DEF StackInv, OnStack
      <4> QED
        BY <2>1, <3>1, <4>1 DEF StopInv, FlagInv, TypeOK
    <3> QED
      BY <2>1, <3>2 DEF StopInv, FlagInv, EnabledInv
  <2>3. ASSUME phase = "stopped" PROVE stops = inits
    <3>1. ASSUME NEW m \in Module PROVE stops[m] = inits[m]
      <4>1. inits[m] = 1 => stops[m] = 1
        BY <2>1, <2>3 DEF StopInv, FlagInv
      <4> QED
        BY <2>1, <2>2, <4>1 DEF StopInv, FlagInv
    <3> QED
      BY <3>1 DEF TypeOK
  <2> QED
    BY <2>2, <2>3
<1> QED
  BY <1>1, TypeCorrect, CoreCorrect, PTL

(***************************************************************************)
(* Dependencies are initialised first                                      *)
(***************************************************************************)

\* The dependency m is at, and that it is at one
At(m) == table[m][next[m]]
InList(m) == next[m] \in 1..Len(table[m])

\* An activation further out waits for the one it called, at that dependency;
\* and a status that has come back belongs to a dependency of the list.
WaitInv ==
  /\ \A i \in 1..(Len(stack) - 1) : InList(stack[i + 1]) /\ At(stack[i + 1]) = stack[i]
  /\ status # NoStatus /\ stack # << >> => InList(stack[1])

\* rank puts every dependency below its dependent
Ranks(rank) == \A m \in Module : \A d \in Policy!Deps(m) \cap Module : rank[d] < rank[m]

\* Along the stack, outwards, the rank grows.
RankInv ==
  \A rank \in [Module -> Module] :
    Ranks(rank) => \A i, j \in 1..Len(stack) : i < j => rank[stack[i]] < rank[stack[j]]

Good(s) == s \notin Failing \cup {NoStatus}

\* The dependencies an activation has passed are initialised, and so is the one
\* whose call has just reported success.
ReadyInv ==
  Policy!Acyclic /\ Policy!Complete =>
    /\ \A m \in Module : pc[m] = "resolving" =>
         \A k \in DOMAIN table[m] : k < next[m] => inits[table[m][k]] = 1
    /\ \A m \in Module : inits[m] = 1 =>
         \A k \in DOMAIN table[m] : inits[table[m][k]] = 1
    /\ Good(status) /\ stack # << >> => inits[At(stack[1])] = 1

LEMMA TableType ==
  ASSUME TypeOK
  PROVE  /\ table \in [Module -> Seq(Module \cup {NotFound})]
         /\ \A m \in Module : /\ Len(table[m]) \in Nat
                              /\ DOMAIN table[m] = 1..Len(table[m])
                              /\ \A k \in DOMAIN table[m] : table[m][k] \in Module \cup {NotFound}
<1>1. table \in [Module -> Seq(Module \cup {NotFound})]
  BY LoaderAssumption DEF TypeOK
<1> QED
  BY <1>1

LEMMA StackTop ==
  ASSUME TypeOK, NEW m \in Module, Running(m)
  PROVE  stack # << >> /\ Len(stack) \in Nat \ {0} /\ stack[1] = m
BY PopLemma DEF Running, TypeOK

LEMMA WaitReturn ==
  ASSUME TypeOK, WaitInv, StackInv, NEW m \in Module, NEW s, Running(m), Return(m, s),
         table' = table
  PROVE  WaitInv'
<1>1. /\ stack' = Tail(stack) /\ next' = next
      /\ Len(stack) \in Nat \ {0}
      /\ Len(stack') = Len(stack) - 1
      /\ stack' \in Seq(Module)
      /\ \A i \in 1..(Len(stack) - 1) : stack'[i] = stack[i + 1]
  BY PopLemma DEF Running, Return, TypeOK
<1>2. ASSUME NEW i \in 1..(Len(stack') - 1)
      PROVE  /\ next'[stack'[i + 1]] \in 1..Len(table[stack'[i + 1]])
             /\ table[stack'[i + 1]][next'[stack'[i + 1]]] = stack'[i]
  <2>1. /\ stack'[i + 1] = stack[(i + 1) + 1] /\ stack'[i] = stack[i + 1]
        /\ i + 1 \in 1..(Len(stack) - 1)
    BY <1>1
  <2> QED
    BY <1>1, <2>1 DEF WaitInv, InList, At
<1>3. ASSUME stack' # << >> PROVE next'[stack'[1]] \in 1..Len(table[stack'[1]])
  <2>1. Len(stack') # 0
    BY <1>1, <1>3
  <2>2. 1 \in 1..(Len(stack) - 1) /\ stack'[1] = stack[1 + 1]
    BY <1>1, <2>1
  <2> QED
    BY <1>1, <2>2 DEF WaitInv, InList
<1> QED
  BY <1>2, <1>3 DEF WaitInv, InList, At

LEMMA RankReturn ==
  ASSUME TypeOK, RankInv, NEW m \in Module, NEW s, Running(m), Return(m, s),
         table' = table
  PROVE  RankInv'
<1>1. /\ Len(stack) \in Nat \ {0}
      /\ Len(stack') = Len(stack) - 1
      /\ \A i \in 1..(Len(stack) - 1) : stack'[i] = stack[i + 1]
  BY PopLemma DEF Running, Return, TypeOK
<1> SUFFICES ASSUME NEW rank \in [Module -> Module], Ranks(rank)',
                    NEW i \in 1..Len(stack'), NEW j \in 1..Len(stack'), i < j
             PROVE  rank[stack'[i]] < rank[stack'[j]]
  BY DEF RankInv
<1>2. Ranks(rank)
  BY DEF Ranks, Policy!Deps
<1>3. /\ i + 1 \in 1..Len(stack) /\ j + 1 \in 1..Len(stack) /\ i + 1 < j + 1
      /\ stack'[i] = stack[i + 1] /\ stack'[j] = stack[j + 1]
  BY <1>1
<1> QED
  BY <1>2, <1>3 DEF RankInv

\* Entering a dependency of the running activation m
LEMMA EnterDependency ==
  ASSUME TypeOK, CoreInv, WaitInv, RankInv, NEW m \in Module, Running(m), InList(m),
         At(m) \in Module, Enter(At(m)), table' = table
  PROVE  WaitInv' /\ RankInv'
<1> DEFINE d == At(m)
<1>0. StackInv /\ FlagInv
  BY DEF CoreInv
<1>1. /\ stack' = <<d>> \o stack /\ next' = [next EXCEPT ![d] = 1]
      /\ status' = NoStatus
      /\ pc[d] = "idle"
  BY <1>0 DEF Enter, FlagInv, FirstDependency
<1>2. /\ Len(stack) \in Nat \ {0} /\ stack[1] = m
      /\ Len(stack') = Len(stack) + 1
      /\ stack'[1] = d
      /\ \A i \in 2..(Len(stack) + 1) : stack'[i] = stack[i - 1]
  BY <1>1, PushLemma, StackTop DEF TypeOK
<1>3. ASSUME NEW i \in 1..Len(stack) PROVE stack[i] # d /\ stack[i] \in Module
  <2>1. stack[i] \in Module
    BY DEF TypeOK
  <2>2. pc[stack[i]] = "resolving"
    BY <1>0, <2>1 DEF StackInv, OnStack
  <2> QED
    BY <1>1, <2>1, <2>2
<1>4. ASSUME NEW i \in 1..(Len(stack') - 1)
      PROVE  /\ next'[stack'[i + 1]] \in 1..Len(table[stack'[i + 1]])
             /\ table[stack'[i + 1]][next'[stack'[i + 1]]] = stack'[i]
  <2>1. stack'[i + 1] = stack[i] /\ i \in 1..Len(stack)
    BY <1>2
  <2>2. next'[stack[i]] = next[stack[i]]
    BY <1>1, <1>3, <2>1 DEF TypeOK
  <2>3. CASE i = 1
    BY <1>2, <2>1, <2>2, <2>3 DEF InList, At
  <2>4. CASE i # 1
    <3>1. i - 1 \in 1..(Len(stack) - 1) /\ stack'[i] = stack[i - 1] /\ (i - 1) + 1 = i
      BY <1>2, <2>1, <2>4
    <3> QED
      BY <2>1, <2>2, <3>1 DEF WaitInv, InList, At
  <2> QED
    BY <2>3, <2>4
<1>5. WaitInv'
  BY <1>1, <1>4 DEF WaitInv, InList, At
<1>6. ASSUME NEW rank \in [Module -> Module], Ranks(rank)',
             NEW i \in 1..Len(stack'), NEW j \in 1..Len(stack'), i < j
      PROVE  rank[stack'[i]] < rank[stack'[j]]
  <2>1. Ranks(rank)
    BY <1>6 DEF Ranks, Policy!Deps
  <2>2. /\ j - 1 \in 1..Len(stack) /\ stack'[j] = stack[j - 1] /\ stack[j - 1] \in Module
    BY <1>2, <1>3, <1>6
  <2>3. CASE i = 1
    <3>1. rank[d] < rank[m]
      <4>1. d \in Policy!Deps(m) \cap Module
        BY TableType DEF InList, At, Policy!Deps
      <4> QED
        BY <2>1, <4>1 DEF Ranks
    <3>2. rank[m] = rank[stack[j - 1]] \/ rank[m] < rank[stack[j - 1]]
      <4>1. CASE j - 1 = 1
        BY <1>2, <4>1
      <4>2. CASE j - 1 # 1
        <5>1. 1 \in 1..Len(stack) /\ 1 < j - 1
          BY <1>2, <2>2, <4>2
        <5> QED
          BY <1>2, <2>1, <2>2, <5>1 DEF RankInv
      <4> QED
        BY <4>1, <4>2
    <3>3. rank[d] \in Int /\ rank[m] \in Int /\ rank[stack[j - 1]] \in Int
      BY <2>2 DEF Module
    <3> QED
      BY <1>2, <2>2, <2>3, <3>1, <3>2, <3>3
  <2>4. CASE i # 1
    <3>1. i - 1 \in 1..Len(stack) /\ stack'[i] = stack[i - 1] /\ i - 1 < j - 1
      BY <1>2, <1>6, <2>4
    <3> QED
      BY <2>1, <2>2, <3>1 DEF RankInv
  <2> QED
    BY <2>3, <2>4
<1>7. RankInv'
  BY <1>6 DEF RankInv
<1> QED
  BY <1>5, <1>7

LEMMA WaitRankInit == Init => WaitInv /\ RankInv /\ ReadyInv
<1> SUFFICES ASSUME Init PROVE WaitInv /\ RankInv /\ ReadyInv
  OBVIOUS
<1>1. stack = << >> /\ Len(stack) = 0
  BY DEF Init
<1>2. WaitInv /\ RankInv
  BY <1>1 DEF WaitInv, RankInv
<1>3. ReadyInv
  BY <1>1 DEF Init, ReadyInv
<1> QED
  BY <1>2, <1>3

\* WaitInv and RankInv survive a step that leaves the stack and next alone,
\* provided a fresh status belongs to a dependency of the list.
LEMMA WaitRankFrame ==
  ASSUME WaitInv, RankInv, stack' = stack, next' = next, table' = table,
         status' # NoStatus /\ stack # << >> => InList(stack[1])
  PROVE  WaitInv' /\ RankInv'
<1>1. WaitInv'
  BY DEF WaitInv, InList, At
<1>2. ASSUME NEW rank \in [Module -> Module] PROVE Ranks(rank)' => Ranks(rank)
  BY DEF Ranks, Policy!Deps
<1>3. RankInv'
  BY <1>2 DEF RankInv
<1> QED
  BY <1>1, <1>3

LEMMA WaitRankStep ==
  TypeOK /\ CoreInv /\ WaitInv /\ RankInv /\ [Next]_vars => WaitInv' /\ RankInv'
<1> SUFFICES ASSUME TypeOK, CoreInv, WaitInv, RankInv, [Next]_vars
             PROVE  WaitInv' /\ RankInv'
  OBVIOUS
<1>0. StackInv
  BY DEF CoreInv
<1>1. CASE StartNext
  <2>1. stack = << >> /\ table' = table /\ index \in Module /\ Call(index)
    BY <1>1 DEF StartNext, build
  <2>2. CASE Enter(index)
    <3>1. stack' = <<index>> \o stack /\ status' = NoStatus
      BY <2>2 DEF Enter
    <3>2. Len(stack') = 1
      BY <2>1, <3>1, PushLemma DEF TypeOK
    <3> QED
      BY <3>1, <3>2 DEF WaitInv, RankInv
  <2>3. CASE AlreadyCalled(index) \/ ToggledOff(index)
    BY <2>1, <2>3, WaitRankFrame DEF AlreadyCalled, ToggledOff, frames
  <2> QED
    BY <2>1, <2>2, <2>3 DEF Call
<1>2. ASSUME NEW m \in Module, InitModule(m) PROVE WaitInv' /\ RankInv'
  <2>0. Running(m) /\ table' = table
    BY <1>2
    DEF InitModule, DependencyNotFound, ResolveDependency, DependencyFailed,
        DependencyGood, RunInit, build
  <2>1. stack # << >> /\ Len(stack) \in Nat \ {0} /\ stack[1] = m
    BY <2>0, StackTop
  <2>2. CASE DependencyNotFound(m) \/ DependencyFailed(m) \/ RunInit(m)
    <3>1. PICK s : Return(m, s)
      BY <2>2 DEF DependencyNotFound, DependencyFailed, RunInit
    <3> QED
      BY <1>0, <2>0, <3>1, WaitReturn, RankReturn
  <2>3. CASE ResolveDependency(m)
    <3>1. InList(m)
      BY <2>3, TableType DEF ResolveDependency, InList, TypeOK
    <3>2. At(m) \in Module /\ Call(At(m))
      BY <2>3, <3>1, TableType DEF ResolveDependency, InList, At
    <3>3. CASE Enter(At(m))
      BY <2>0, <3>1, <3>2, <3>3, EnterDependency
    <3>4. CASE AlreadyCalled(At(m)) \/ ToggledOff(At(m))
      BY <2>0, <2>1, <3>1, <3>4, WaitRankFrame DEF AlreadyCalled, ToggledOff, frames
    <3> QED
      BY <3>2, <3>3, <3>4 DEF Call
  <2>4. CASE DependencyGood(m)
    <3>1. /\ next' = [next EXCEPT ![m] = @ + 1]
          /\ stack' = stack /\ status' = NoStatus
      BY <2>4 DEF DependencyGood
    <3>2. ASSUME NEW i \in 1..(Len(stack) - 1)
          PROVE  next'[stack[i + 1]] = next[stack[i + 1]]
      <4>1. i + 1 \in 1..Len(stack) /\ 1 \in 1..Len(stack) /\ i + 1 # 1
        BY <2>1
      <4>2. stack[i + 1] # m /\ stack[i + 1] \in Module
        BY <1>0, <2>1, <4>1, SMTT(30) DEF StackInv, TypeOK
      <4> QED
        BY <3>1, <4>2 DEF TypeOK
    <3>3. WaitInv'
      BY <2>0, <3>1, <3>2 DEF WaitInv, InList, At
    <3>4. ASSUME NEW rank \in [Module -> Module] PROVE Ranks(rank)' => Ranks(rank)
      BY <2>0 DEF Ranks, Policy!Deps
    <3>5. RankInv'
      BY <3>1, <3>4 DEF RankInv
    <3> QED
      BY <3>3, <3>5
  <2> QED
    BY <1>2, <2>2, <2>3, <2>4 DEF InitModule
<1>3. CASE StartDone \/ Stop \/ StopNext \/ StopDone \/ UNCHANGED vars
  <2>1. stack' = stack /\ next' = next /\ table' = table /\ status' = status
    BY <1>3 DEF StartDone, Stop, StopNext, StopDone, vars, build, frames
  <2> QED
    BY <2>1, WaitRankFrame DEF WaitInv
<1> QED
  BY <1>1, <1>2, <1>3 DEF Next, Start, Shutdown, Stopped

\* Without a cycle, a dependency of the running activation is not itself
\* waiting on the stack.
LEMMA DependencyNotOnStack ==
  ASSUME TypeOK, RankInv, Policy!Acyclic, NEW m \in Module, Running(m), InList(m),
         At(m) \in Module
  PROVE  ~OnStack(At(m))
<1>1. PICK rank \in [Module -> Module] : Ranks(rank)
  BY DEF Policy!Acyclic, Policy!Module, Module, Ranks
<1>2. rank[At(m)] < rank[m]
  <2>1. At(m) \in Policy!Deps(m) \cap Module
    BY TableType DEF InList, At, Policy!Deps
  <2> QED
    BY <1>1, <2>1 DEF Ranks
<1>3. Len(stack) \in Nat \ {0} /\ stack[1] = m
  BY StackTop
<1> SUFFICES ASSUME NEW i \in 1..Len(stack), stack[i] = At(m) PROVE FALSE
  BY DEF OnStack
<1>4. rank[m] \in Int /\ rank[At(m)] \in Int
  BY DEF Module
<1>5. CASE i = 1
  BY <1>2, <1>3, <1>4, <1>5
<1>6. CASE i # 1
  <2>1. 1 \in 1..Len(stack) /\ 1 < i
    BY <1>3, <1>6
  <2>2. rank[stack[1]] < rank[stack[i]]
    BY <1>1, <2>1 DEF RankInv
  <2> QED
    BY <1>2, <1>3, <1>4, <2>2
<1> QED
  BY <1>5, <1>6

\* ReadyInv over the three parts
Passed ==
  \A m \in Module : pc[m] = "resolving" =>
    \A k \in DOMAIN table[m] : k < next[m] => inits[table[m][k]] = 1
Kept ==
  \A m \in Module : inits[m] = 1 => \A k \in DOMAIN table[m] : inits[table[m][k]] = 1
Reported == Good(status) /\ stack # << >> => inits[At(stack[1])] = 1

\* A call keeps what has been passed; it reports success only of a module that
\* is initialised, or of one that is still on the stack.
LEMMA CallReady ==
  ASSUME TypeOK, CoreInv, Policy!Complete, Passed, Kept, NEW d \in Module, Call(d),
         table' = table, inits' = inits
  PROVE  /\ Passed' /\ Kept'
         /\ Good(status)' => stack' = stack /\ next' = next /\ (inits[d] = 1 \/ OnStack(d))
<1>0. FlagInv /\ EnabledInv /\ StackInv
  BY DEF CoreInv
<1>1. Kept'
  BY DEF Kept
<1>2. CASE AlreadyCalled(d)
  <2>1. /\ stack' = stack /\ next' = next /\ pc' = pc
        /\ status' = IF "ENABLED" \in flags[d] THEN "ENABLED" ELSE "DISABLED"
    BY <1>2 DEF AlreadyCalled, frames
  <2>2. Passed'
    BY <2>1 DEF Passed
  <2>3. Good(status)' => "ENABLED" \in flags[d]
    BY <2>1 DEF Good, Failing, Status
  <2>4. "ENABLED" \in flags[d] => inits[d] = 1 \/ OnStack(d)
    BY <1>0 DEF FlagInv, EnabledInv, StackInv, TypeOK
  <2> QED
    BY <1>1, <2>1, <2>2, <2>3, <2>4
<1>3. CASE ToggledOff(d)
  <2>1. /\ next' = next /\ pc' = [pc EXCEPT ![d] = "done"] /\ status' = "DISABLED"
    BY <1>3 DEF ToggledOff
  <2>2. Passed'
    BY <2>1 DEF Passed, TypeOK
  <2>3. ~Good(status)'
    BY <2>1 DEF Good, Failing, Status
  <2> QED
    BY <1>1, <2>2, <2>3
<1>4. CASE Enter(d)
  <2>1. /\ next' = [next EXCEPT ![d] = 1] /\ pc' = [pc EXCEPT ![d] = "resolving"]
        /\ status' = NoStatus
    BY <1>4 DEF Enter, FirstDependency
  <2>2. ASSUME NEW m \in Module, pc'[m] = "resolving", NEW k \in DOMAIN table[m],
               k < next'[m]
        PROVE  inits[table[m][k]] = 1
    <3>1. k \in Nat \ {0}
      BY TableType
    <3>2. m # d
      BY <2>1, <2>2, <3>1 DEF TypeOK
    <3> QED
      BY <2>1, <2>2, <3>2 DEF Passed, TypeOK
  <2>3. Passed'
    BY <2>2 DEF Passed
  <2>4. ~Good(status)'
    BY <2>1 DEF Good, Failing, Status, NoStatus
  <2> QED
    BY <1>1, <2>3, <2>4
<1> QED
  BY <1>2, <1>3, <1>4 DEF Call

LEMMA ReadyStep ==
  TypeOK /\ CoreInv /\ WaitInv /\ RankInv /\ ReadyInv /\ [Next]_vars => ReadyInv'
<1> SUFFICES ASSUME TypeOK, CoreInv, WaitInv, RankInv, ReadyInv, [Next]_vars,
                    (Policy!Acyclic /\ Policy!Complete)'
             PROVE  (Passed /\ Kept /\ Reported)'
  BY DEF ReadyInv, Passed, Kept, Reported
<1>0. table' = table
  BY DEF Next, Start, Shutdown, Stopped, StartNext, StartDone, InitModule, DependencyNotFound,
         ResolveDependency, DependencyFailed, DependencyGood, RunInit, Stop, StopNext,
         StopDone, vars, build
<1>1. Policy!Acyclic /\ Policy!Complete /\ StackInv /\ FlagInv
  BY <1>0 DEF Policy!Acyclic, Policy!Complete, Policy!Deps, CoreInv
<1>2. Passed /\ Kept /\ Reported
  BY <1>1 DEF ReadyInv, Passed, Kept, Reported
<1>3. CASE StartNext
  <2>1. stack = << >> /\ inits' = inits /\ index \in Module /\ Call(index)
    BY <1>3 DEF StartNext
  <2>2. Passed' /\ Kept' /\ (Good(status)' => stack' = << >>)
    BY <1>0, <1>1, <1>2, <2>1, CallReady
  <2> QED
    BY <2>2 DEF Reported, Good
<1>4. ASSUME NEW m \in Module, InitModule(m) PROVE (Passed /\ Kept /\ Reported)'
  <2>0. Running(m)
    BY <1>4
    DEF InitModule, DependencyNotFound, ResolveDependency, DependencyFailed,
        DependencyGood, RunInit
  <2>1. /\ stack # << >> /\ Len(stack) \in Nat \ {0} /\ stack[1] = m
        /\ pc[m] = "resolving"
    BY <1>1, <2>0, StackTop, RunningLemma
  <2>2. CASE DependencyNotFound(m)
    <3>1. InList(m) /\ At(m) = NotFound
      BY <2>2, TableType DEF DependencyNotFound, InList, At, TypeOK
    <3>2. NotFound \in Policy!Deps(m) /\ NotFound \notin 1..ModuleCount
      BY <3>1, TableType DEF InList, At, Policy!Deps, NotFound
    <3> QED
      BY <1>1, <3>2 DEF Policy!Complete, Policy!Module, Module
  <2>3. CASE ResolveDependency(m)
    <3>1. InList(m)
      BY <2>3, TableType DEF ResolveDependency, InList, TypeOK
    <3>2. At(m) \in Module /\ Call(At(m)) /\ inits' = inits
      BY <2>3, <3>1, TableType DEF ResolveDependency, InList, At
    <3>3. ~OnStack(At(m))
      BY <1>1, <2>0, <3>1, <3>2, DependencyNotOnStack
    <3>4. /\ Passed' /\ Kept'
          /\ Good(status)' => stack' = stack /\ next' = next /\ inits[At(m)] = 1
      BY <1>0, <1>1, <1>2, <3>2, <3>3, CallReady
    <3> QED
      BY <1>0, <2>1, <3>2, <3>4 DEF Reported, At
  <2>4. CASE DependencyFailed(m)
    <3>1. /\ pc' = [pc EXCEPT ![m] = "done"] /\ next' = next /\ inits' = inits
          /\ status' = Propagated(status) /\ status \in Failing
      BY <2>4 DEF DependencyFailed, Return
    <3>2. ~Good(status)'
      BY <3>1 DEF Good, Propagated, Failing, Status
    <3> QED
      BY <1>0, <1>2, <3>1, <3>2 DEF Passed, Kept, Reported, TypeOK
  <2>5. CASE DependencyGood(m)
    <3>1. /\ next' = [next EXCEPT ![m] = @ + 1] /\ pc' = pc /\ inits' = inits
          /\ status' = NoStatus
          /\ Good(status)
      BY <2>5 DEF DependencyGood, Good
    <3>2. inits[At(m)] = 1
      BY <1>2, <2>1, <3>1 DEF Reported
    <3>3. ASSUME NEW x \in Module, pc[x] = "resolving", NEW k \in DOMAIN table[x],
                 k < next'[x]
          PROVE  inits[table[x][k]] = 1
      <4>1. k \in Nat
        BY TableType
      <4>2. CASE x = m /\ k = next[m]
        BY <3>2, <4>2 DEF At
      <4>3. CASE x = m /\ k # next[m]
        <5>1. k < next[m]
          BY <3>1, <3>3, <4>1, <4>3 DEF TypeOK
        <5> QED
          BY <1>2, <3>3, <4>3, <5>1 DEF Passed
      <4>4. CASE x # m
        BY <1>2, <3>1, <3>3, <4>4 DEF Passed, TypeOK
      <4> QED
        BY <4>2, <4>3, <4>4
    <3>4. Passed'
      BY <1>0, <3>1, <3>3 DEF Passed
    <3>5. Kept' /\ Reported'
      BY <1>0, <1>2, <3>1 DEF Kept, Reported, Good
    <3> QED
      BY <3>4, <3>5
  <2>6. CASE RunInit(m)
    <3>1. PICK s : Return(m, s)
      BY <2>6 DEF RunInit
    <3>2. /\ pc' = [pc EXCEPT ![m] = "done"] /\ next' = next
          /\ stack' = Tail(stack)
          /\ inits' = [inits EXCEPT ![m] = @ + 1]
          /\ next[m] > Len(table[m])
          /\ inits[m] = 0
      BY <1>1, <2>1, <2>6, <3>1 DEF RunInit, Return, FlagInv
    <3>3. ASSUME NEW x \in Module PROVE inits[x] = 1 => inits'[x] = 1
      BY <3>2, <3>3 DEF TypeOK
    <3>4. \A x \in Module : \A k \in DOMAIN table[x] : table[x][k] \in Module
      BY <1>1, TableType DEF Policy!Complete, Policy!Deps, Policy!Module, Module
    <3>5. Passed'
      BY <1>0, <1>2, <3>2, <3>3, <3>4 DEF Passed, TypeOK
    <3>6. \A k \in DOMAIN table[m] : inits[table[m][k]] = 1
      <4>1. \A k \in DOMAIN table[m] : k < next[m]
        BY <3>2, TableType DEF TypeOK
      <4> QED
        BY <1>2, <2>1, <4>1 DEF Passed
    <3>7. Kept'
      <4> SUFFICES ASSUME NEW x \in Module, inits'[x] = 1, NEW k \in DOMAIN table[x]
                   PROVE  inits'[table[x][k]] = 1
        BY <1>0 DEF Kept
      <4>1. CASE x = m
        BY <3>3, <3>4, <3>6, <4>1
      <4>2. CASE x # m
        <5>1. inits[x] = 1
          BY <3>2, <4>2 DEF TypeOK
        <5> QED
          BY <1>2, <3>3, <3>4, <5>1 DEF Kept
      <4> QED
        BY <4>1, <4>2
    <3>8. Reported'
      <4> SUFFICES ASSUME stack' # << >> PROVE inits'[table[stack'[1]][next'[stack'[1]]]] = 1
        BY <1>0 DEF Reported, At
      <4>1. /\ stack' \in Seq(Module) /\ Len(stack') = Len(stack) - 1
            /\ \A i \in 1..(Len(stack) - 1) : stack'[i] = stack[i + 1]
        BY <2>1, <3>2, PopLemma DEF TypeOK
      <4>2. 1 \in 1..(Len(stack) - 1)
        BY <2>1, <4>1
      <4>3. At(stack[1 + 1]) = stack[1]
        BY <4>2 DEF WaitInv
      <4>4. table[stack'[1]][next'[stack'[1]]] = m
        BY <2>1, <3>2, <4>1, <4>2, <4>3 DEF At
      <4> QED
        BY <3>2, <4>4 DEF TypeOK
    <3> QED
      BY <3>5, <3>7, <3>8
  <2> QED
    BY <1>4, <2>2, <2>3, <2>4, <2>5, <2>6 DEF InitModule
<1>5. CASE StartDone \/ Stop \/ StopNext \/ StopDone \/ UNCHANGED vars
  <2>1. pc' = pc /\ next' = next /\ stack' = stack /\ inits' = inits /\ status' = status
    BY <1>5 DEF StartDone, Stop, StopNext, StopDone, vars, frames
  <2> QED
    BY <1>0, <1>2, <2>1 DEF Passed, Kept, Reported, At, Good
<1> QED
  BY <1>3, <1>4, <1>5 DEF Next, Start, Shutdown, Stopped

LoaderInv == TypeOK /\ CoreInv /\ WaitInv /\ RankInv /\ ReadyInv

\* The flags of module.c, the activations of moduleInitModule and the calls made
\* determine each other: the inductive invariant of the loader.
THEOREM LoaderInvariant == Spec => []LoaderInv
<1>1. Init => WaitInv /\ RankInv /\ ReadyInv
  BY WaitRankInit
<1>2. TypeOK /\ CoreInv /\ (WaitInv /\ RankInv /\ ReadyInv) /\ [Next]_vars
        => (WaitInv /\ RankInv /\ ReadyInv)'
  BY WaitRankStep, ReadyStep
<1> QED
  BY <1>1, <1>2, TypeCorrect, CoreCorrect, PTL DEF Spec, LoaderInv

\* In every table without a cycle whose dependencies name modules, a module is
\* initialised only after all its dependencies, in whatever order the table
\* lists them and whatever a fresh load reports.
THEOREM NamedDependenciesReadyCorrect == Spec => []NamedDependenciesReady
<1>1. LoaderInv => NamedDependenciesReady
  <2> SUFFICES ASSUME LoaderInv, Policy!Complete, Policy!Acyclic,
                      NEW m \in Module, Initialised(m), NEW d \in Deps(m)
               PROVE  Initialised(d)
    BY DEF NamedDependenciesReady, DependenciesReady
  <2>1. PICK k \in DOMAIN table[m] : d = table[m][k]
    BY DEF Deps
  <2>2. d \in Module
    BY <2>1 DEF Policy!Complete, Policy!Deps, Policy!Module, Module
  <2>3. inits[m] = 1
    BY DEF LoaderInv, CoreInv, FlagInv, Initialised
  <2>4. inits[d] = 1
    BY <2>1, <2>3 DEF LoaderInv, ReadyInv
  <2> QED
    BY <2>2, <2>4 DEF Initialised
<1> QED
  BY <1>1, LoaderInvariant, PTL

(***************************************************************************)
(* ModuleLoader implements ModulePolicy, and is exact on a table that      *)
(* lists dependencies first                                                *)
(***************************************************************************)


\* _start has called every module it has passed; once it has returned, all.
StartedInv ==
  /\ phase = "start" => \A m \in Module : m < index => pc[m] # "idle"
  /\ phase # "start" => \A m \in Module : pc[m] # "idle"

\* What an activation has passed, and what a status reports on, are modules.
NamedInv ==
  /\ \A m \in Module : pc[m] = "resolving" =>
       \A k \in DOMAIN table[m] : k < next[m] => table[m][k] \in Module
  /\ status # NoStatus /\ stack # << >> => At(stack[1]) \in Module

Refused(d) == d \in Module => pc[d] = "done" /\ inits[d] = 0

\* In a table that lists dependencies first the recursion never gets deeper than
\* one activation: a dependency has been called before. So the only failures
\* reported are those of refused dependencies.
Called == phase = "start" => \A m \in Module : pc[m] = "idle" <=> m >= index
Shallow == Len(stack) <= 1
ReportsRefused == status \in Failing /\ stack # << >> => Refused(At(stack[1]))
Caused == \A m \in Module : pc[m] = "done" /\ inits[m] = 0 /\ toggle[m] =>
            \E k \in DOMAIN table[m] : Refused(table[m][k])
OrderInv == Policy!Ordered => Called /\ Shallow /\ ReportsRefused /\ Caused

RefineInv == StartedInv /\ NamedInv /\ OrderInv

LEMMA RefineInit == LoaderInv /\ Init => RefineInv
<1> SUFFICES ASSUME LoaderInv, Init PROVE RefineInv
  OBVIOUS
<1>1. stack = << >> /\ Len(stack) = 0 /\ index = 1 /\ phase = "start"
  BY DEF Init
<1>2. StartedInv /\ NamedInv
  BY <1>1 DEF Init, StartedInv, NamedInv, Module
<1>3. OrderInv
  BY <1>1 DEF Init, OrderInv, Called, Shallow, ReportsRefused, Caused, Module
<1> QED
  BY <1>2, <1>3 DEF RefineInv

LEMMA StartedStep == LoaderInv /\ StartedInv /\ [Next]_vars => StartedInv'
<1> SUFFICES ASSUME LoaderInv, StartedInv, [Next]_vars PROVE StartedInv'
  OBVIOUS
<1>0. TypeOK /\ StackInv /\ FlagInv
  BY DEF LoaderInv, CoreInv
<1>1. CASE StartNext
  <2>1. /\ phase = "start" /\ phase' = phase /\ index \in Module /\ index' = index + 1
        /\ Call(index)
    BY <1>1 DEF StartNext
  <2>2. pc'[index] # "idle" /\ \A x \in Module : pc[x] # "idle" => pc'[x] # "idle"
    BY <1>0, <2>1
    DEF Call, AlreadyCalled, ToggledOff, Enter, FlagInv, TypeOK, frames
  <2>3. ASSUME NEW x \in Module, x < index' PROVE pc'[x] # "idle"
    BY <2>1, <2>2, <2>3 DEF StartedInv, Module
  <2> QED
    BY <2>1, <2>3 DEF StartedInv
<1>2. CASE StartDone
  <2>1. index = ModuleCount + 1 /\ pc' = pc /\ phase = "start" /\ phase' = "running"
    BY <1>0, <1>2, LoaderAssumption DEF StartDone, TypeOK, frames, Module
  <2> QED
    BY <2>1, LoaderAssumption DEF StartedInv, Module
<1>3. ASSUME NEW m \in Module, InitModule(m) PROVE StartedInv'
  <2>1. /\ phase' = phase /\ index' = index
        /\ \A x \in Module : pc[x] # "idle" => pc'[x] # "idle"
    <3>1. CASE ResolveDependency(m)
      BY <1>0, <3>1, SMTT(30)
      DEF ResolveDependency, Call, AlreadyCalled, ToggledOff, Enter, TypeOK, frames
    <3>2. CASE DependencyGood(m)
      BY <3>2 DEF DependencyGood
    <3>3. CASE DependencyNotFound(m) \/ DependencyFailed(m) \/ RunInit(m)
      BY <1>0, <3>3 DEF DependencyNotFound, DependencyFailed, RunInit, Return, TypeOK
    <3> QED
      BY <1>3, <3>1, <3>2, <3>3 DEF InitModule
  <2> QED
    BY <2>1 DEF StartedInv
<1>4. CASE Stop \/ StopNext \/ StopDone \/ UNCHANGED vars
  BY <1>4 DEF Stop, StopNext, StopDone, vars, frames, StartedInv
<1> QED
  BY <1>1, <1>2, <1>3, <1>4 DEF Next, Start, Shutdown, Stopped

LEMMA NamedStep == LoaderInv /\ NamedInv /\ [Next]_vars => NamedInv'
<1> SUFFICES ASSUME LoaderInv, NamedInv, [Next]_vars PROVE NamedInv'
  OBVIOUS
<1> DEFINE Names(m) == \A k \in DOMAIN table[m] : k < next[m] => table[m][k] \in Module
<1>0. TypeOK /\ StackInv /\ FlagInv /\ WaitInv
  BY DEF LoaderInv, CoreInv
<1>1. \A m \in Module : \A k \in DOMAIN table[m] : k \in Nat \ {0}
  BY <1>0, TableType
<1>2. ASSUME NEW d \in Module, Call(d), table' = table,
             stack # << >> => At(stack[1]) \in Module
      PROVE  NamedInv'
  <2>1. CASE AlreadyCalled(d)
    BY <1>2, <2>1 DEF AlreadyCalled, frames, NamedInv, At
  <2>2. CASE ToggledOff(d)
    BY <1>0, <1>2, <2>2 DEF ToggledOff, NamedInv, At, TypeOK
  <2>3. CASE Enter(d)
    <3>1. /\ next' = [next EXCEPT ![d] = 1] /\ status' = NoStatus
          /\ pc' = [pc EXCEPT ![d] = "resolving"]
      BY <2>3 DEF Enter, FirstDependency
    <3>2. ASSUME NEW m \in Module, pc'[m] = "resolving", NEW k \in DOMAIN table[m],
                 k < next'[m]
          PROVE  table[m][k] \in Module
      <4>1. m # d
        BY <1>0, <1>1, <3>1, <3>2 DEF TypeOK
      <4> QED
        BY <1>0, <3>1, <3>2, <4>1 DEF NamedInv, TypeOK
    <3> QED
      BY <1>2, <3>1, <3>2 DEF NamedInv
  <2> QED
    BY <1>2, <2>1, <2>2, <2>3 DEF Call
<1>3. CASE StartNext
  BY <1>2, <1>3 DEF StartNext, build
<1>4. ASSUME NEW m \in Module, InitModule(m) PROVE NamedInv'
  <2>0. Running(m) /\ table' = table
    BY <1>4
    DEF InitModule, DependencyNotFound, ResolveDependency, DependencyFailed,
        DependencyGood, RunInit, build
  <2>1. stack # << >> /\ Len(stack) \in Nat \ {0} /\ stack[1] = m
    BY <1>0, <2>0, StackTop
  <2>2. CASE ResolveDependency(m)
    <3>1. At(m) \in Module /\ Call(At(m))
      BY <1>0, <2>2, TableType DEF ResolveDependency, At, TypeOK
    <3> QED
      BY <1>2, <2>0, <2>1, <3>1
  <2>3. CASE DependencyGood(m)
    <3>1. /\ next' = [next EXCEPT ![m] = @ + 1] /\ pc' = pc /\ status' = NoStatus
          /\ At(m) \in Module
      BY <2>1, <2>3 DEF DependencyGood, NamedInv
    <3>2. ASSUME NEW x \in Module, pc[x] = "resolving", NEW k \in DOMAIN table[x],
                 k < next'[x]
          PROVE  table[x][k] \in Module
      <4>1. CASE x = m /\ k = next[m]
        BY <3>1, <4>1 DEF At
      <4>2. CASE x = m /\ k # next[m]
        <5>1. k < next[m]
          BY <1>0, <1>1, <3>1, <3>2, <4>2, SMTT(30) DEF TypeOK
        <5> QED
          BY <3>2, <4>2, <5>1 DEF NamedInv
      <4>3. CASE x # m
        BY <1>0, <3>1, <3>2, <4>3 DEF NamedInv, TypeOK
      <4> QED
        BY <4>1, <4>2, <4>3
    <3> QED
      BY <2>0, <3>1, <3>2 DEF NamedInv
  <2>4. CASE DependencyNotFound(m) \/ DependencyFailed(m) \/ RunInit(m)
    <3>1. PICK s : Return(m, s)
      BY <2>4 DEF DependencyNotFound, DependencyFailed, RunInit
    <3>2. /\ pc' = [pc EXCEPT ![m] = "done"] /\ next' = next /\ stack' = Tail(stack)
          /\ stack' \in Seq(Module) /\ Len(stack') = Len(stack) - 1
          /\ \A i \in 1..(Len(stack) - 1) : stack'[i] = stack[i + 1]
      BY <1>0, <2>1, <3>1, PopLemma DEF Return, TypeOK
    <3>3. ASSUME stack' # << >> PROVE table[stack'[1]][next'[stack'[1]]] \in Module
      <4>1. 1 \in 1..(Len(stack) - 1)
        BY <2>1, <3>2, <3>3
      <4>2. At(stack[1 + 1]) = m
        BY <1>0, <2>1, <4>1 DEF WaitInv
      <4> QED
        BY <3>2, <4>1, <4>2 DEF At
    <3> QED
      BY <1>0, <2>0, <3>2, <3>3 DEF NamedInv, At, TypeOK
  <2> QED
    BY <1>4, <2>2, <2>3, <2>4 DEF InitModule
<1>5. CASE StartDone \/ Stop \/ StopNext \/ StopDone \/ UNCHANGED vars
  <2>1. pc' = pc /\ next' = next /\ stack' = stack /\ status' = status /\ table' = table
    BY <1>5 DEF StartDone, Stop, StopNext, StopDone, vars, frames, build
  <2> QED
    BY <2>1 DEF NamedInv, At
<1> QED
  BY <1>3, <1>4, <1>5 DEF Next, Start, Shutdown, Stopped

LEMMA EmptyLemma ==
  ASSUME NEW S, NEW s \in Seq(S), Len(s) = 0
  PROVE  s = << >>
OBVIOUS

\* In an ordered table the running activation is the only one, and its
\* dependencies have all been called.
LEMMA DependencyCalled ==
  ASSUME TypeOK, StackInv, Policy!Ordered, Called, Shallow, NEW m \in Module, Running(m)
  PROVE  /\ stack # << >> /\ Len(stack) = 1 /\ stack[1] = m /\ pc[m] = "resolving"
         /\ InList(m) /\ At(m) \in Module => At(m) # m /\ pc[At(m)] # "idle"
<1>1. /\ stack # << >> /\ Len(stack) = 1 /\ stack[1] = m
      /\ pc[m] = "resolving" /\ phase = "start"
  <2>1. stack # << >> /\ Len(stack) \in Nat \ {0} /\ stack[1] = m
    BY StackTop
  <2>2. ASSUME NEW n \in Nat \ {0}, n <= 1 PROVE n = 1
    BY <2>2
  <2>3. Len(stack) <= 1
    BY DEF Shallow
  <2>4. Len(stack) = 1
    BY <2>1, <2>2, <2>3
  <2> QED
    BY <2>1, <2>4, RunningLemma
<1>2. ASSUME InList(m), At(m) \in Module PROVE At(m) # m /\ pc[At(m)] # "idle"
  <2>1. At(m) \in Policy!Deps(m)
    BY <1>2, TableType DEF InList, At, Policy!Deps
  <2>2. At(m) < m
    BY <2>1 DEF Policy!Ordered, Policy!Module, Module
  <2>3. m < index
    BY <1>1 DEF Called, TypeOK, Module
  <2> QED
    BY <1>1, <1>2, <2>2, <2>3 DEF Called, TypeOK, Module
<1> QED
  BY <1>1, <1>2

LEMMA OrderStep ==
  LoaderInv /\ StartedInv /\ OrderInv /\ [Next]_vars => OrderInv'
<1> SUFFICES ASSUME LoaderInv, StartedInv, OrderInv, [Next]_vars, Policy!Ordered'
             PROVE  (Called /\ Shallow /\ ReportsRefused /\ Caused)'
  BY DEF OrderInv
<1>0. TypeOK /\ StackInv /\ FlagInv /\ WaitInv
  BY DEF LoaderInv, CoreInv
<1>1. table' = table /\ toggle' = toggle
  BY DEF Next, Start, Shutdown, Stopped, StartNext, StartDone, InitModule, DependencyNotFound,
         ResolveDependency, DependencyFailed, DependencyGood, RunInit, Stop, StopNext,
         StopDone, vars, build
<1>2. Policy!Ordered /\ Called /\ Shallow /\ ReportsRefused /\ Caused
  BY <1>1 DEF OrderInv, Policy!Ordered, Policy!Deps
<1>3. CASE StartNext
  <2>1. /\ stack = << >> /\ index \in Module /\ index' = index + 1 /\ inits' = inits
        /\ phase = "start" /\ Call(index)
    BY <1>3 DEF StartNext
  <2>2. pc[index] = "idle"
    BY <1>2, <2>1 DEF Called, Module
  <2>3. CASE ToggledOff(index)
    <3>1. pc' = [pc EXCEPT ![index] = "done"] /\ stack' = stack /\ ~toggle[index]
      BY <2>3 DEF ToggledOff
    <3>2. Called'
      BY <1>0, <1>2, <2>1, <3>1 DEF Called, TypeOK, Module
    <3>3. Shallow' /\ ReportsRefused'
      BY <1>2, <2>1, <3>1 DEF Shallow, ReportsRefused
    <3>4. Caused'
      BY <1>0, <1>1, <1>2, <2>1, <3>1 DEF Caused, Refused, TypeOK
    <3> QED
      BY <3>2, <3>3, <3>4
  <2>4. CASE Enter(index)
    <3>1. /\ pc' = [pc EXCEPT ![index] = "resolving"] /\ status' = NoStatus
          /\ Len(stack') = 1
      BY <1>0, <2>1, <2>4, PushLemma DEF Enter, TypeOK
    <3>2. Called'
      BY <1>0, <1>2, <2>1, <3>1 DEF Called, TypeOK, Module
    <3>3. Shallow' /\ ReportsRefused'
      BY <3>1 DEF Shallow, ReportsRefused, Failing, Status, NoStatus
    <3>4. Caused'
      BY <1>0, <1>1, <1>2, <2>1, <2>2, <3>1 DEF Caused, Refused, TypeOK
    <3> QED
      BY <3>2, <3>3, <3>4
  <2> QED
    BY <1>0, <2>1, <2>2, <2>3, <2>4 DEF Call, AlreadyCalled, FlagInv
<1>4. ASSUME NEW m \in Module, InitModule(m)
      PROVE  (Called /\ Shallow /\ ReportsRefused /\ Caused)'
  <2>0. Running(m) /\ phase' = phase /\ index' = index
    BY <1>4
    DEF InitModule, DependencyNotFound, ResolveDependency, DependencyFailed,
        DependencyGood, RunInit
  <2>1. /\ stack # << >> /\ Len(stack) = 1 /\ stack[1] = m /\ pc[m] = "resolving"
        /\ InList(m) /\ At(m) \in Module => At(m) # m /\ pc[At(m)] # "idle"
    BY <1>0, <1>2, <2>0, DependencyCalled
  <2>2. CASE ResolveDependency(m)
    <3>1. InList(m)
      BY <1>0, <2>2, TableType DEF ResolveDependency, InList, TypeOK
    <3>2. At(m) \in Module /\ Call(At(m)) /\ inits' = inits
      BY <1>0, <2>2, <3>1, TableType DEF ResolveDependency, InList, At
    <3>3. AlreadyCalled(At(m))
      BY <1>0, <2>1, <3>1, <3>2 DEF Call, ToggledOff, Enter, FlagInv
    <3>4. /\ pc' = pc /\ stack' = stack /\ next' = next
          /\ status' = IF "ENABLED" \in flags[At(m)] THEN "ENABLED" ELSE "DISABLED"
      BY <3>3 DEF AlreadyCalled, frames
    <3>5. status' \in Failing => Refused(At(m))
      BY <1>0, <2>1, <3>1, <3>2, <3>4 DEF Refused, Failing, FlagInv, TypeOK
    <3>6. ReportsRefused'
      <4>1. At(stack[1])' = At(m)
        BY <1>1, <2>1, <3>4 DEF At
      <4> QED
        BY <3>2, <3>4, <3>5, <4>1 DEF ReportsRefused, Refused
    <3>7. Called' /\ Shallow'
      BY <1>2, <2>0, <3>4 DEF Called, Shallow
    <3>8. Caused'
      BY <1>1, <1>2, <3>2, <3>4 DEF Caused, Refused
    <3> QED
      BY <3>6, <3>7, <3>8
  <2>3. CASE DependencyGood(m)
    BY <1>1, <1>2, <2>0, <2>3
    DEF DependencyGood, Called, Shallow, ReportsRefused, Caused, Refused, Failing, Status,
        NoStatus
  <2>4. CASE DependencyNotFound(m) \/ DependencyFailed(m) \/ RunInit(m)
    <3>1. PICK s : Return(m, s)
      BY <2>4 DEF DependencyNotFound, DependencyFailed, RunInit
    <3>2. /\ pc' = [pc EXCEPT ![m] = "done"] /\ Len(stack') = 0 /\ stack' = << >>
      <4>1. Tail(stack) \in Seq(Module) /\ Len(Tail(stack)) = 0
        BY <1>0, <2>1, PopLemma DEF TypeOK
      <4> QED
        BY <3>1, <4>1, EmptyLemma DEF Return
    <3>3. Called' /\ Shallow' /\ ReportsRefused'
      BY <1>0, <1>2, <2>0, <2>1, <3>2 DEF Called, Shallow, ReportsRefused, TypeOK
    <3>4. \A d \in Module : Refused(d) => Refused(d)'
      BY <1>0, <2>1, <2>4, <3>2
      DEF Refused, DependencyNotFound, DependencyFailed, RunInit, TypeOK
    <3>5. \A d : Refused(d) => Refused(d)'
      BY <3>4 DEF Refused
    <3>6. ASSUME inits'[m] = 0 PROVE InList(m) /\ Refused(At(m))
      <4>1. CASE DependencyNotFound(m)
        BY <1>0, <4>1, TableType
        DEF DependencyNotFound, InList, At, Refused, NotFound, Module, TypeOK
      <4>2. CASE DependencyFailed(m)
        <5>1. status \in Failing /\ status # NoStatus
          BY <4>2 DEF DependencyFailed, Failing, Status, NoStatus
        <5> QED
          BY <1>0, <1>2, <2>1, <5>1 DEF ReportsRefused, WaitInv
      <4>3. CASE RunInit(m)
        BY <1>0, <3>6, <4>3 DEF RunInit, TypeOK
      <4> QED
        BY <2>4, <4>1, <4>2, <4>3
    <3>7. ASSUME NEW x \in Module, x # m
          PROVE  pc'[x] = pc[x] /\ inits'[x] = inits[x]
      BY <1>0, <2>4, <3>2, <3>7 DEF DependencyNotFound, DependencyFailed, RunInit, TypeOK
    <3>8. Caused'
      <4> SUFFICES ASSUME NEW x \in Module, pc'[x] = "done", inits'[x] = 0, toggle[x]
                   PROVE  \E k \in DOMAIN table[x] : Refused(table[x][k])'
        BY <1>1 DEF Caused, Refused
      <4>1. CASE x = m
        <5>1. PICK k \in DOMAIN table[m] : Refused(table[m][k])
          BY <1>0, <3>6, <4>1, TableType DEF InList, At
        <5>2. Refused(table[m][k])'
          BY <1>1, <3>5, <5>1 DEF Refused
        <5> QED
          BY <4>1, <5>2
      <4>2. CASE x # m
        <5>1. PICK k \in DOMAIN table[x] : Refused(table[x][k])
          BY <1>2, <3>7, <4>2 DEF Caused
        <5>2. Refused(table[x][k])'
          BY <1>1, <3>5, <5>1 DEF Refused
        <5> QED
          BY <5>2
      <4> QED
        BY <4>1, <4>2
    <3> QED
      BY <3>3, <3>8
  <2> QED
    BY <1>4, <2>2, <2>3, <2>4 DEF InitModule
<1>5. CASE StartDone \/ Stop \/ StopNext \/ StopDone \/ UNCHANGED vars
  <2>1. /\ pc' = pc /\ stack' = stack /\ next' = next /\ status' = status /\ inits' = inits
        /\ phase' = "start" => phase = "start" /\ index' = index
    BY <1>5 DEF StartDone, Stop, StopNext, StopDone, vars, frames
  <2> QED
    BY <1>1, <1>2, <2>1 DEF Called, Shallow, ReportsRefused, Caused, Refused, At
<1> QED
  BY <1>3, <1>4, <1>5 DEF Next, Start, Shutdown, Stopped

\* What the steps of the policy ask for beyond the loader's invariant: why a module
\* was refused, and that a fresh load's status is not looked at in ordered tables.
THEOREM RefineInvariant == Spec => [](LoaderInv /\ RefineInv)
<1>1. LoaderInv /\ RefineInv /\ [Next]_vars => RefineInv'
  BY StartedStep, NamedStep, OrderStep DEF RefineInv
<1> QED
  BY <1>1, RefineInit, LoaderInvariant, PTL DEF Spec

(***************************************************************************)
(* The theorems                                                            *)
(***************************************************************************)

\* In a table that lists dependencies first there is no cycle.
LEMMA OrderedAcyclic == TypeOK /\ Policy!Ordered => Policy!Acyclic
<1> SUFFICES ASSUME TypeOK, Policy!Ordered PROVE Policy!Acyclic
  OBVIOUS
<1> DEFINE rank == [m \in Module |-> m]
<1>1. rank \in [Module -> Module]
  OBVIOUS
<1>2. \A m \in Module : \A d \in Policy!Deps(m) \cap Module : rank[d] < rank[m]
  BY DEF Policy!Ordered, Policy!Module, Module
<1> QED
  BY <1>1, <1>2 DEF Policy!Acyclic, Policy!Module, Module

\* The shipped table lists dependencies first: the modules _start initialises
\* are exactly those switched on whose dependencies are all initialised.
THEOREM OrderedTableIsExactCorrect == Spec => []OrderedTableIsExact
<1>1. LoaderInv /\ RefineInv => OrderedTableIsExact
  <2> SUFFICES ASSUME LoaderInv, RefineInv, Policy!Ordered, Policy!Complete,
                      phase # "start", NEW m \in Module
               PROVE  Initialised(m) <=> toggle[m] /\ \A d \in Deps(m) : Initialised(d)
    BY DEF OrderedTableIsExact
  <2>0. /\ TypeOK /\ StackInv /\ FlagInv /\ ReadyInv /\ Policy!Acyclic
        /\ StartedInv /\ Caused
    BY OrderedAcyclic DEF LoaderInv, CoreInv, RefineInv, OrderInv
  <2>1. \A x \in Module : pc[x] = "done"
    <3>1. stack = << >> /\ Len(stack) = 0
      BY <2>0 DEF StackInv
    <3> QED
      BY <2>0, <3>1 DEF StackInv, OnStack, StartedInv, TypeOK
  <2>2. \A x \in Module : \A k \in DOMAIN table[x] : table[x][k] \in Module
    BY DEF Policy!Complete, Policy!Deps, Policy!Module, Module
  <2>3. ASSUME Initialised(m) PROVE toggle[m] /\ \A d \in Deps(m) : Initialised(d)
    BY <2>0, <2>2, <2>3 DEF Initialised, FlagInv, ReadyInv, Deps
  <2>4. ASSUME toggle[m], \A d \in Deps(m) : Initialised(d) PROVE Initialised(m)
    <3>1. \A k \in DOMAIN table[m] : table[m][k] \in Module /\ inits[table[m][k]] = 1
      BY <2>0, <2>2, <2>4 DEF Initialised, Deps, FlagInv
    <3>2. inits[m] # 0
      BY <2>0, <2>1, <2>4, <3>1 DEF Caused, Refused
    <3> QED
      BY <2>0, <3>2 DEF Initialised, FlagInv
  <2> QED
    BY <2>3, <2>4
<1> QED
  BY <1>1, RefineInvariant, PTL

\* A step that calls no init or shutdown function and completes no activation
\* is invisible to the policy.
LEMMA LifeStutters ==
  ASSUME table' = table, toggle' = toggle,
         \A x \in Module : /\ inits'[x] > 0 <=> inits[x] > 0
                           /\ inits[x] > 0 => (stops'[x] > 0 <=> stops[x] > 0)
                           /\ inits[x] > 0 \/ (pc'[x] = "done" <=> pc[x] = "done")
  PROVE  UNCHANGED <<table, toggle, Life>>
BY DEF Life

\* A step that moves one module moves the function of all of them at one place.
LEMMA LifeMoves ==
  ASSUME NEW m \in Module, NEW v, v \in {"pending", "loaded", "unloaded", "refused"},
         Life'[m] = v, \A x \in Module : x # m => Life'[x] = Life[x]
  PROVE  Life' = [Life EXCEPT ![m] = v]
<1>1. Life \in [Module -> {"pending", "loaded", "unloaded", "refused"}]
  BY DEF Life
<1>2. Life' \in [Module -> {"pending", "loaded", "unloaded", "refused"}]
  BY DEF Life
<1> QED
  BY <1>1, <1>2

\* An activation that completes without its init function refuses the module.
LEMMA RefuseStep ==
  ASSUME TypeOK, FlagInv, NEW m \in Module, pc[m] # "done",
         pc' = [pc EXCEPT ![m] = "done"], inits' = inits, stops' = stops,
         table' = table, toggle' = toggle,
         \/ ~toggle[m]
         \/ \E k \in DOMAIN table[m] : Refused(table[m][k])
         \/ ~Policy!Ordered
  PROVE  Policy!Next
<1>1. inits[m] = 0
  BY DEF FlagInv
<1>2. Life[m] = "pending"
  BY <1>1 DEF Life
<1>3. Life' = [Life EXCEPT ![m] = "refused"]
  <2>1. Life'[m] = "refused" /\ \A x \in Module : x # m => Life'[x] = Life[x]
    BY <1>1 DEF Life, TypeOK
  <2> QED
    BY <2>1, LifeMoves
<1>4. ASSUME NEW k \in DOMAIN table[m], Refused(table[m][k])
      PROVE  \E d \in Policy!Deps(m) : d \in Policy!Module => Life[d] = "refused"
  <2>1. table[m][k] \in Module => Life[table[m][k]] = "refused"
    BY <1>4 DEF Life, Refused
  <2> QED
    BY <2>1 DEF Policy!Deps, Policy!Module, Module
<1>5. Policy!Refuse(m)
  BY <1>2, <1>3, <1>4 DEF Policy!Refuse
<1> QED
  BY <1>5 DEF Policy!Next, Policy!Module, Module

\* Every step of the loader is a step of the policy, or is invisible to it.
LEMMA StepRefines ==
  LoaderInv /\ RefineInv /\ [Next]_vars => [Policy!Next]_<<table, toggle, Life>>
<1> SUFFICES ASSUME LoaderInv, RefineInv, [Next]_vars
             PROVE  Policy!Next \/ UNCHANGED <<table, toggle, Life>>
  OBVIOUS
<1>0. TypeOK /\ CoreInv /\ StackInv /\ FlagInv /\ StopInv /\ WaitInv
  BY DEF LoaderInv, CoreInv
<1>1. table' = table /\ toggle' = toggle
  BY DEF Next, Start, Shutdown, Stopped, StartNext, StartDone, InitModule, DependencyNotFound,
         ResolveDependency, DependencyFailed, DependencyGood, RunInit, Stop, StopNext,
         StopDone, vars, build
<1>2. ASSUME NEW d \in Module, Call(d), inits' = inits, stops' = stops
      PROVE  Policy!Next \/ UNCHANGED <<table, toggle, Life>>
  <2>1. CASE ToggledOff(d)
    BY <1>0, <1>1, <1>2, <2>1, RefuseStep DEF ToggledOff, FlagInv
  <2>2. CASE AlreadyCalled(d)
    BY <1>1, <1>2, <2>2, LifeStutters DEF AlreadyCalled, frames
  <2>3. CASE Enter(d)
    <3>1. \A x \in Module : pc'[x] = "done" <=> pc[x] = "done"
      BY <1>0, <2>3 DEF Enter, FlagInv, TypeOK
    <3> QED
      BY <1>1, <1>2, <3>1, LifeStutters
  <2> QED
    BY <1>2, <2>1, <2>2, <2>3 DEF Call
<1>3. CASE StartNext
  BY <1>2, <1>3 DEF StartNext
<1>4. ASSUME NEW m \in Module, InitModule(m)
      PROVE  Policy!Next \/ UNCHANGED <<table, toggle, Life>>
  <2>0. Running(m)
    BY <1>4
    DEF InitModule, DependencyNotFound, ResolveDependency, DependencyFailed,
        DependencyGood, RunInit
  <2>1. /\ pc[m] = "resolving" /\ phase = "start"
        /\ stack # << >> /\ Len(stack) \in Nat \ {0} /\ stack[1] = m
    BY <1>0, <2>0, RunningLemma, StackTop
  <2>2. CASE ResolveDependency(m)
    <3>1. At(m) \in Module /\ Call(At(m)) /\ inits' = inits /\ stops' = stops
      BY <1>0, <2>2, TableType DEF ResolveDependency, At, TypeOK
    <3> QED
      BY <1>2, <3>1
  <2>3. CASE DependencyGood(m)
    BY <1>1, <2>3, LifeStutters DEF DependencyGood
  <2>4. CASE DependencyNotFound(m)
    <3>1. next[m] \in DOMAIN table[m] /\ Refused(table[m][next[m]])
      BY <1>0, <2>4, TableType DEF DependencyNotFound, Refused, NotFound, Module, TypeOK
    <3> QED
      BY <1>0, <1>1, <2>1, <2>4, <3>1, RefuseStep DEF DependencyNotFound, Return
  <2>5. CASE DependencyFailed(m)
    <3>1. status \in Failing /\ status # NoStatus
      BY <2>5 DEF DependencyFailed, Failing, Status, NoStatus
    <3>2. next[m] \in DOMAIN table[m]
      BY <1>0, <2>1, <3>1, TableType DEF WaitInv, InList
    <3>3. Policy!Ordered => Refused(table[m][next[m]])
      BY <2>1, <3>1 DEF RefineInv, OrderInv, ReportsRefused, At
    <3> QED
      BY <1>0, <1>1, <2>1, <2>5, <3>2, <3>3, RefuseStep DEF DependencyFailed, Return
  <2>6. CASE RunInit(m)
    <3>1. PICK s : Return(m, s)
      BY <2>6 DEF RunInit
    <3>2. /\ pc' = [pc EXCEPT ![m] = "done"]
          /\ inits' = [inits EXCEPT ![m] = @ + 1] /\ stops' = stops
          /\ inits[m] = 0 /\ toggle[m] /\ \A x \in Module : stops[x] = 0
      BY <1>0, <2>1, <2>6, <3>1 DEF RunInit, Return, FlagInv, StopInv
    <3>3. Life[m] = "pending" /\ Life' = [Life EXCEPT ![m] = "loaded"]
      <4>1. /\ Life[m] = "pending" /\ Life'[m] = "loaded"
            /\ \A x \in Module : x # m => Life'[x] = Life[x]
        BY <1>0, <2>1, <3>2 DEF Life, TypeOK
      <4> QED
        BY <4>1, LifeMoves
    <3>4. \A k \in DOMAIN table[m] : k < next[m]
      BY <1>0, <2>6, TableType DEF RunInit, TypeOK
    <3>5. Policy!Deps(m) \subseteq Module
      BY <2>1, <3>4 DEF RefineInv, NamedInv, Policy!Deps
    <3>6. ASSUME Policy!Acyclic, Policy!Complete, NEW d \in Policy!Deps(m)
          PROVE  Life[d] = "loaded"
      <4>1. PICK k \in DOMAIN table[m] : d = table[m][k]
        BY <3>6 DEF Policy!Deps
      <4>2. inits[d] = 1
        BY <2>1, <3>4, <3>6, <4>1 DEF LoaderInv, ReadyInv
      <4> QED
        BY <3>2, <3>5, <3>6, <4>2 DEF Life
    <3>7. Policy!Load(m)
      BY <3>2, <3>3, <3>5, <3>6 DEF Policy!Load, Policy!Module, Module
    <3> QED
      BY <1>1, <3>7 DEF Policy!Next, Policy!Module, Module
  <2> QED
    BY <1>4, <2>2, <2>3, <2>4, <2>5, <2>6 DEF InitModule
<1>5. CASE StopNext
  <2>1. index \in Module /\ phase = "stop" /\ pc' = pc /\ inits' = inits
    BY <1>5 DEF StopNext, frames
  <2>2. CASE MustShutDown(index) /\ inits[index] = 1
    <3>1. stops' = [stops EXCEPT ![index] = @ + 1] /\ stops[index] = 0
      BY <1>0, <1>5, <2>1, <2>2 DEF StopNext, MustShutDown, StopInv
    <3>2. Life[index] = "loaded" /\ Life' = [Life EXCEPT ![index] = "unloaded"]
      <4>1. /\ Life[index] = "loaded" /\ Life'[index] = "unloaded"
            /\ \A x \in Module : x # index => Life'[x] = Life[x]
        BY <1>0, <2>1, <2>2, <3>1 DEF Life, TypeOK
      <4> QED
        BY <2>1, <4>1, LifeMoves
    <3>3. \A x \in Module : pc[x] = "done"
      <4>1. stack = << >> /\ Len(stack) = 0
        BY <1>0, <2>1 DEF StackInv
      <4> QED
        BY <1>0, <2>1, <4>1 DEF StackInv, OnStack, RefineInv, StartedInv, TypeOK
    <3>4. \A x \in Module : Life[x] # "pending"
      BY <3>3 DEF Life
    <3>5. Policy!Unload(index)
      BY <3>2, <3>4 DEF Policy!Unload, Policy!Module, Module
    <3> QED
      BY <1>1, <2>1, <3>5 DEF Policy!Next, Policy!Module, Module
  <2>3. CASE MustShutDown(index) /\ inits[index] # 1
    <3>1. stops' = [stops EXCEPT ![index] = @ + 1] /\ inits[index] = 0
      BY <1>0, <1>5, <2>1, <2>3 DEF StopNext, FlagInv
    <3>2. \A x \in Module : inits[x] > 0 => stops'[x] = stops[x]
      BY <1>0, <3>1 DEF TypeOK
    <3> QED
      BY <1>1, <2>1, <3>2, LifeStutters
  <2>4. CASE ~MustShutDown(index)
    BY <1>1, <1>5, <2>1, <2>4, LifeStutters DEF StopNext
  <2> QED
    BY <2>2, <2>3, <2>4
<1>6. CASE StartDone \/ Stop \/ StopDone \/ UNCHANGED vars
  BY <1>1, <1>6, LifeStutters DEF StartDone, Stop, StopDone, vars, frames
<1> QED
  BY <1>3, <1>4, <1>5, <1>6 DEF Next, Start, Shutdown, Stopped

\* The module manager implements the policy, for every number of modules, every
\* table (cyclic, misspelt or in any order) and every choice of toggles.
THEOREM Refinement == Spec => RefinesPolicy
<1>1. Init => Policy!Init
  <2> SUFFICES ASSUME Init PROVE Life = [m \in Policy!Module |-> "pending"]
    BY DEF Init, Policy!Init, Policy!Module, Module
  <2> QED
    BY DEF Init, Life, Policy!Module, Module
<1> QED
  BY <1>1, StepRefines, RefineInvariant, PTL DEF Spec, RefinesPolicy, Policy!Spec

(***************************************************************************)
(* The module manager and the hooks together                               *)
(***************************************************************************)

\* What one step does, seen from either side of the composition.
LEMMA LoaderStep == [SystemNext]_<<loaderVars, hookVars>> => [Next]_vars
<1>1. StartRuntime \/ Play \/ Gone => UNCHANGED vars
  BY DEF StartRuntime, Play, Gone, loaderVars
<1>2. LoadModules => Next
  <2>1. ASSUME NEW m \in Module, InitAndBind(m) PROVE Next
    BY <2>1 DEF InitAndBind, InitModule, Start, Next
  <2>2. ASSUME StartNext \/ StartDone \/ Stop \/ Shutdown PROVE Next
    BY <2>2 DEF Start, Next
  <2>3. ASSUME NEW m \in Module,
               \/ DependencyNotFound(m) \/ ResolveDependency(m)
               \/ DependencyFailed(m) \/ DependencyGood(m)
        PROVE  Next
    BY <2>3 DEF InitModule, Start, Next
  <2> QED
    BY <2>1, <2>2, <2>3 DEF LoadModules
<1> QED
  BY <1>1, <1>2 DEF SystemNext, loaderVars

LEMMA DispatchStep == [SystemNext]_<<loaderVars, hookVars>> => [Hooks!HooksNext]_(Hooks!hooksVars)
<1>1. StartRuntime => Hooks!HooksNext
  BY DEF StartRuntime, HooksOf, Hooks!HooksNext
<1>2. LoadModules => Hooks!HooksNext \/ UNCHANGED Hooks!hooksVars
  BY DEF LoadModules, InitAndBind, HooksOf, hookVars, Hooks!HooksNext, Hooks!hooksVars
<1>3. Play => Hooks!HooksNext
  BY DEF Play, Hooks!HooksNext
<1>4. Gone \/ UNCHANGED <<loaderVars, hookVars>> => UNCHANGED Hooks!hooksVars
  BY DEF Gone, hookVars, Hooks!hooksVars
<1> QED
  BY <1>1, <1>2, <1>3, <1>4 DEF SystemNext

\* In the game the module manager is still the module manager: what is proved of it
\* alone holds of it between hooks and handlers.
THEOREM LoaderInGame == SystemSpec => Spec
<1>1. SystemInit => Init
  BY DEF SystemInit
<1> QED
  BY <1>1, LoaderStep, PTL DEF SystemSpec, Spec

\* And dispatch is still dispatch, under the binding that the modules do.
THEOREM DispatchInGame == SystemSpec => Hooks!HooksSpec
<1>1. SystemInit => Hooks!HooksInit
  BY DEF SystemInit
<1> QED
  BY <1>1, DispatchStep, PTL DEF SystemSpec, Hooks!HooksSpec

-----------------------------------------------------------------------------
(* What a handler and a call may rely on                                   *)

IsStack(s) == \E S : s \in Seq(S)

\* What stays true of a frame for as long as hooks stay bound
Sound(f) == f.kind = "handler" => f.of \in Hooks!Hook /\ ptr[f.of] = "handler"

Reaches(f) ==
  f.kind # "thunk" /\ Hooks!Usable(f.asked[2]) /\ (f.asked[1] = "original" => emit[f.asked[2]])
    => Hooks!Answers(f)

FramesOK(s) == /\ \A i \in 1..Len(s) : Sound(s[i])
               /\ \A i \in 2..Len(s) : Reaches(s[i])

\* Nothing calls before _start has returned, so that no hook is bound under a call
\* in progress; a bound hook's module has been initialised.
HookState == /\ emit \in [Hooks!Hook -> BOOLEAN]
             /\ ptr \in [Hooks!Hook -> {"trampoline", "handler"}]
             /\ word \in {"0x0BADF00D", "prx"}
             /\ IsStack(mem)
Quiet == /\ word # "prx" => phase = "start"
         /\ phase = "start" => mem = <<Hooks!Main>>
Bound == \A h \in Hooks!Hook :
           ptr[h] = "handler" /\ Owner[h] \in Module => inits[Owner[h]] > 0

GameInv == HookState /\ Quiet /\ Bound /\ FramesOK(mem)

LEMMA PushFrame ==
  ASSUME NEW s, IsStack(s), FramesOK(s), NEW f, Sound(f), Len(s) > 0 => Reaches(f)
  PROVE  IsStack(Append(s, f)) /\ FramesOK(Append(s, f)) /\ Len(Append(s, f)) = Len(s) + 1
<1>1. PICK S : s \in Seq(S)
  BY DEF IsStack
<1> DEFINE t == Append(s, f)
<1>2. s \in Seq(S \cup {f})
  <2>1. s \in [1..Len(s) -> S] /\ Len(s) \in Nat
    BY <1>1
  <2>2. s \in [1..Len(s) -> S \cup {f}]
    BY <2>1
  <2> QED
    BY <2>1, <2>2
<1>3. /\ t \in Seq(S \cup {f}) /\ Len(t) = Len(s) + 1 /\ Len(s) \in Nat
      /\ t[Len(s) + 1] = f /\ \A i \in 1..Len(s) : t[i] = s[i]
  BY <1>2
<1> HIDE DEF t
<1>4. ASSUME NEW i \in 1..Len(t) PROVE Sound(t[i])
  BY <1>3 DEF FramesOK
<1>5. ASSUME NEW i \in 2..Len(t) PROVE Reaches(t[i])
  BY <1>3 DEF FramesOK
<1>6. IsStack(t) /\ FramesOK(t)
  BY <1>3, <1>4, <1>5 DEF IsStack, FramesOK
<1> QED
  BY <1>3, <1>6 DEF t

LEMMA PopFrame ==
  ASSUME NEW s, IsStack(s), FramesOK(s)
  PROVE  IsStack(Hooks!TopWithout(s)) /\ FramesOK(Hooks!TopWithout(s))
<1>1. PICK S : s \in Seq(S)
  BY DEF IsStack
<1> DEFINE t == Hooks!TopWithout(s)
<1>2. /\ t \in Seq(S) /\ Len(t) \in Nat /\ Len(t) <= Len(s) /\ Len(s) \in Nat
      /\ \A i \in 1..Len(t) : t[i] = s[i]
  BY <1>1 DEF Hooks!TopWithout
<1> HIDE DEF t
<1>3. IsStack(t)
  BY <1>2 DEF IsStack
<1>4. FramesOK(t)
  BY <1>2 DEF FramesOK
<1> QED
  BY <1>3, <1>4 DEF t

\* The label of a hook with a trampoline has its own descriptor behind it.
LEMMA OwnDescriptor ==
  ASSUME NEW h \in Hooks!Hook, emit[h]
  PROVE  Hooks!Descriptor(h) = h /\ h # Hooks!NoHook
<1>1. HookCount \in Nat /\ h \in 1..HookCount
  BY RuntimeAssumption DEF Hooks!Hook
<1>2. h \in h..HookCount /\ \A i \in h..(h - 1) : ~emit[i]
  BY <1>1
<1>3. ASSUME NEW k \in h..HookCount, \A i \in h..(k - 1) : ~emit[i] PROVE k = h
  <2>1. ~(h \in h..(k - 1))
    BY <1>3
  <2> QED
    BY <1>1, <2>1
<1>4. /\ Hooks!Descriptor(h) \in h..HookCount
      /\ \A i \in h..(Hooks!Descriptor(h) - 1) : ~emit[i]
  BY <1>2 DEF Hooks!Descriptor
<1> QED
  BY <1>1, <1>3, <1>4 DEF Hooks!NoHook

\* The game calls, and handlers call back.
LEMMA PlayKeepsFrames ==
  ASSUME GameInv, Play
  PROVE  IsStack(mem') /\ FramesOK(mem') /\ UNCHANGED <<emit, word, ptr>>
<1>0. IsStack(mem) /\ FramesOK(mem)
  BY DEF GameInv, HookState
<1>1. ASSUME NEW h \in Hooks!Hook, Hooks!CallHooked(h)
      PROVE  IsStack(mem') /\ FramesOK(mem') /\ UNCHANGED <<emit, word, ptr>>
  <2> DEFINE f == Hooks!ThunkFrame(h)
             below == Append(mem, f)
  <2>1. UNCHANGED <<emit, word, ptr>>
    BY <1>1 DEF Hooks!CallHooked, Hooks!shared
  <2>2. f.kind = "thunk"
    BY DEF Hooks!ThunkFrame, Hooks!Frame
  <2>3. Sound(f) /\ Reaches(f)
    BY <2>2 DEF Sound, Reaches
  <2> HIDE DEF f
  <2>4. IsStack(below) /\ FramesOK(below)
    BY <1>0, <2>3, PushFrame
  <2> HIDE DEF below
  <2>5. CASE mem' = mem
    BY <1>0, <2>1, <2>5
  <2>6. CASE ptr[h] = "handler" /\ mem' # mem
    <3> DEFINE g == Hooks!Frame("handler", h, <<"call", h>>, "prx", Len(mem) + 1, Len(mem) + 1)
    <3>1. mem' = Append(below, g)
      BY <1>1, <2>6 DEF Hooks!CallHooked, Hooks!WildJump, Hooks!Enter, below, f
    <3>2. Sound(g) /\ Reaches(g)
      BY <2>6 DEF Sound, Reaches, Hooks!Answers, Hooks!Frame
    <3> HIDE DEF g
    <3> QED
      BY <2>1, <2>4, <3>1, <3>2, PushFrame
  <2>7. CASE ptr[h] # "handler" /\ mem' # mem
    <3> DEFINE d == Hooks!Descriptor(h)
               g == Hooks!Frame("original", d, <<"call", h>>, "elf", Len(mem) + 1, Len(mem) + 1)
    <3>1. mem' = Append(below, g)
      BY <1>1, <2>7 DEF Hooks!CallHooked, Hooks!WildJump, Hooks!EnterOriginal, Hooks!Enter, below, f
    <3>2. emit[h] => d = h
      BY OwnDescriptor
    <3> HIDE DEF d
    <3>3. Sound(g) /\ Reaches(g)
      BY <2>7, <3>2 DEF Sound, Reaches, Hooks!Usable, Hooks!Answers, Hooks!Frame
    <3> HIDE DEF g
    <3> QED
      BY <2>1, <2>4, <3>1, <3>3, PushFrame
  <2> QED
    BY <2>5, <2>6, <2>7
<1>2. ASSUME NEW h \in Hooks!Hook, Hooks!CallOriginal(h)
      PROVE  IsStack(mem') /\ FramesOK(mem') /\ UNCHANGED <<emit, word, ptr>>
  <2>1. UNCHANGED <<emit, word, ptr>>
    BY <1>2 DEF Hooks!CallOriginal, Hooks!shared
  <2>2. CASE mem' = mem
    BY <1>0, <2>1, <2>2
  <2>3. CASE mem' # mem
    <3> DEFINE d == Hooks!Descriptor(h)
               g == Hooks!Frame("original", d, <<"original", h>>, "elf", r31, at)
    <3>1. mem' = Append(mem, g)
      BY <1>2, <2>3 DEF Hooks!CallOriginal, Hooks!WildJump, Hooks!EnterOriginal, Hooks!Enter
    <3>2. emit[h] => d = h
      BY OwnDescriptor
    <3> HIDE DEF d
    <3>3. Sound(g) /\ Reaches(g)
      BY <3>2 DEF Sound, Reaches, Hooks!Answers, Hooks!Frame
    <3> HIDE DEF g
    <3> QED
      BY <1>0, <2>1, <3>1, <3>3, PushFrame
  <2> QED
    BY <2>2, <2>3
<1>3. CASE Hooks!Return \/ Hooks!Epilog
  BY <1>0, <1>3, PopFrame DEF Hooks!Return, Hooks!Epilog, Hooks!shared
<1> QED
  BY <1>1, <1>2, <1>3 DEF Play, Hooks!Run

\* The loader never goes back to its start, and takes no init call back.
LEMMA LoaderGoesOn ==
  ASSUME TypeOK, CoreInv, [Next]_vars
  PROVE  /\ phase' = "start" => phase = "start"
         /\ \A m \in Module : inits[m] > 0 => inits'[m] > 0
<1>0. inits \in [Module -> Nat]
  BY DEF TypeOK
<1>1. ASSUME NEW m \in Module, RunInit(m)
      PROVE  /\ phase' = phase
             /\ \A x \in Module : inits[x] > 0 => inits'[x] > 0
  BY <1>0, <1>1 DEF RunInit
<1>2. ASSUME NEW m \in Module, \/ DependencyNotFound(m) \/ ResolveDependency(m)
                               \/ DependencyFailed(m) \/ DependencyGood(m)
      PROVE  phase' = phase /\ inits' = inits
  BY <1>2 DEF DependencyNotFound, ResolveDependency, DependencyFailed, DependencyGood
<1>3. ASSUME StartNext \/ StartDone \/ Stop \/ Shutdown \/ Stopped \/ UNCHANGED vars
      PROVE  (phase' = "start" => phase = "start") /\ inits' = inits
  BY <1>3 DEF StartNext, StartDone, Stop, Shutdown, StopNext, StopDone, Stopped, vars
<1> QED
  BY <1>1, <1>2, <1>3 DEF Next, Start, InitModule

LEMMA GameInit == SystemInit => GameInv
<1> SUFFICES ASSUME SystemInit PROVE GameInv
  OBVIOUS
<1>1. /\ emit \in [Hooks!Hook -> BOOLEAN] /\ word = "0x0BADF00D"
      /\ ptr = [h \in Hooks!Hook |-> "trampoline"] /\ mem = <<Hooks!Main>> /\ phase = "start"
  BY DEF SystemInit, Init, Hooks!HooksInit
<1>2. mem \in Seq({Hooks!Main}) /\ Len(mem) = 1 /\ mem[1].kind = "main"
  BY <1>1 DEF Hooks!Main, Hooks!Frame
<1>3. HookState
  BY <1>1, <1>2 DEF HookState, IsStack
<1>4. FramesOK(mem)
  BY <1>2 DEF FramesOK, Sound
<1> QED
  BY <1>1, <1>3, <1>4 DEF GameInv, Quiet, Bound

\* As long as main is the only frame, hooks may be bound.
LEMMA MainIsSound ==
  ASSUME mem = <<Hooks!Main>>, mem' = mem
  PROVE  FramesOK(mem)'
<1>1. Len(mem') = 1 /\ mem'[1].kind = "main"
  BY DEF Hooks!Main, Hooks!Frame
<1> QED
  BY <1>1 DEF FramesOK, Sound

LEMMA GameStep ==
  TypeOK /\ CoreInv /\ GameInv /\ [SystemNext]_<<loaderVars, hookVars>> => GameInv'
<1> SUFFICES ASSUME TypeOK, CoreInv, GameInv, [SystemNext]_<<loaderVars, hookVars>>
             PROVE  GameInv'
  OBVIOUS
<1>0. /\ phase' = "start" => phase = "start"
      /\ \A m \in Module : inits[m] > 0 => inits'[m] > 0
  BY LoaderStep, LoaderGoesOn
<1>1. ASSUME UNCHANGED hookVars, word = "prx" \/ phase' = phase PROVE GameInv'
  <2>1. UNCHANGED <<emit, word, ptr, mem>>
    BY <1>1 DEF hookVars
  <2>2. HookState' /\ FramesOK(mem)'
    BY <2>1 DEF GameInv, HookState, IsStack, FramesOK, Sound, Reaches, Hooks!Usable, Hooks!Answers
  <2>3. Quiet'
    BY <1>0, <1>1, <2>1 DEF GameInv, Quiet
  <2>4. Bound'
    BY <1>0, <2>1 DEF GameInv, Bound
  <2> QED
    BY <2>2, <2>3, <2>4 DEF GameInv
<1>2. CASE StartRuntime
  <2>1. /\ word = "0x0BADF00D" /\ word' = "prx" /\ UNCHANGED <<emit, mem, phase, inits>>
        /\ ptr' = [h \in Hooks!Hook |-> IF h \in HooksOf(Prx) THEN "handler" ELSE ptr[h]]
    BY <1>2 DEF StartRuntime, Hooks!InitRuntime, Hooks!Bind, Hooks!thread, loaderVars, vars
  <2>2. mem = <<Hooks!Main>>
    BY <2>1 DEF GameInv, Quiet
  <2>3. HookState'
    BY <2>1 DEF GameInv, HookState, IsStack
  <2>4. Bound'
    <3> SUFFICES ASSUME NEW h \in Hooks!Hook, ptr'[h] = "handler", Owner[h] \in Module
                 PROVE  inits'[Owner[h]] > 0
      BY DEF Bound
    <3>1. Owner[h] # Prx
      BY LoaderAssumption DEF Module, Prx
    <3> QED
      BY <2>1, <3>1 DEF HooksOf, GameInv, Bound
  <2> QED
    BY <2>1, <2>2, <2>3, <2>4, MainIsSound DEF GameInv, Quiet
<1>3. ASSUME NEW m \in Module, InitAndBind(m), word = "prx" PROVE GameInv'
  <2>1. /\ UNCHANGED <<emit, word, mem>> /\ inits' = [inits EXCEPT ![m] = @ + 1]
        /\ ptr' = [h \in Hooks!Hook |-> IF h \in HooksOf(m) THEN "handler" ELSE ptr[h]]
        /\ Running(m) /\ phase' = phase
    BY <1>3 DEF InitAndBind, RunInit, Hooks!BindAll, Hooks!Bind, Hooks!thread
  <2>2. mem = <<Hooks!Main>>
    BY <2>1, RunningLemma DEF GameInv, Quiet, CoreInv
  <2>3. HookState'
    BY <2>1 DEF GameInv, HookState, IsStack
  <2>4. Bound'
    <3> SUFFICES ASSUME NEW h \in Hooks!Hook, ptr'[h] = "handler", Owner[h] \in Module
                 PROVE  inits'[Owner[h]] > 0
      BY DEF Bound
    <3>1. CASE Owner[h] = m
      BY <2>1, <3>1 DEF TypeOK
    <3>2. CASE Owner[h] # m
      BY <1>0, <2>1, <3>2 DEF HooksOf, GameInv, Bound
    <3> QED
      BY <3>1, <3>2
  <2> QED
    BY <1>3, <2>1, <2>2, <2>3, <2>4, MainIsSound DEF GameInv, Quiet
<1>4. CASE Play
  <2>1. IsStack(mem') /\ FramesOK(mem') /\ UNCHANGED <<emit, word, ptr>>
    BY <1>4, PlayKeepsFrames
  <2>2. UNCHANGED <<phase, inits>> /\ phase = "running"
    BY <1>4 DEF Play, loaderVars, vars
  <2>3. HookState' /\ FramesOK(mem)'
    BY <2>1 DEF GameInv, HookState, FramesOK, Sound, Reaches, Hooks!Usable, Hooks!Answers
  <2> QED
    BY <2>1, <2>2, <2>3 DEF GameInv, Quiet, Bound
<1>5. LoadModules => word = "prx" /\ (UNCHANGED hookVars \/ \E m \in Module : InitAndBind(m))
  BY DEF LoadModules
<1>6. Gone \/ UNCHANGED <<loaderVars, hookVars>> => UNCHANGED hookVars /\ phase' = phase
  BY DEF Gone, loaderVars, vars
<1> QED
  BY <1>1, <1>2, <1>3, <1>4, <1>5, <1>6 DEF SystemNext

\* Hooks are bound before anything calls, and only by modules that are there.
THEOREM GameInvariant == SystemSpec => []GameInv
<1>1. SystemSpec => [](TypeOK /\ CoreInv)
  BY LoaderInGame, TypeCorrect, CoreCorrect, PTL
<1> QED
  BY <1>1, GameInit, GameStep, PTL DEF SystemSpec

\* prx/lib/shk.h and shkgen.py: in every build and every configuration, a call of a
\* hooked function ends in the function it asks for, as long as the trampoline it
\* may need has a body.
THEOREM UsableCallsReachTheirFunctionCorrect == SystemSpec => []UsableCallsReachTheirFunction
<1>1. GameInv => UsableCallsReachTheirFunction
  BY DEF GameInv, FramesOK, Reaches, UsableCallsReachTheirFunction,
         Hooks!UsableCallsReachTheirFunction
<1> QED
  BY <1>1, GameInvariant, PTL

\* In every table without a cycle whose dependencies name modules, code of a module
\* runs only with the module and all it depends on initialised.
THEOREM HandlersAreReadyCorrect == SystemSpec => []HandlersAreReady
<1>1. GameInv /\ NamedDependenciesReady => HandlersAreReady
  <2> SUFFICES ASSUME GameInv, NamedDependenciesReady, Policy!Acyclic, Policy!Complete,
                      NEW i \in 1..Len(mem), mem[i].kind = "handler", Owner[mem[i].of] \in Module
               PROVE  /\ Initialised(Owner[mem[i].of])
                      /\ \A d \in Deps(Owner[mem[i].of]) : Initialised(d)
    BY DEF HandlersAreReady
  <2>1. Initialised(Owner[mem[i].of])
    BY DEF GameInv, FramesOK, Sound, Bound, Initialised
  <2> QED
    BY <2>1 DEF NamedDependenciesReady, DependenciesReady
<1> QED
  BY <1>1, GameInvariant, LoaderInGame, NamedDependenciesReadyCorrect, PTL
=============================================================================
