---------------------------- MODULE ModulePolicy ----------------------------
(***************************************************************************)
(* What the module manager of the PRX promises to the author of a module   *)
(* (prx/lib/module.h, prx/README.md), with no call stack, no flags and no  *)
(* return codes: every module of the table is either loaded, once, after   *)
(* the modules it depends on, or refused for a cause; and what was loaded  *)
(* is unloaded once, after every module has been decided.                  *)
(*                                                                         *)
(* ModuleLoader is shown to implement this.                                *)
(***************************************************************************)
EXTENDS Integers, Sequences

CONSTANTS ModuleCount,  \* number of entries of the module table
          Tables        \* the dependency tables considered

VARIABLES table,        \* table[m]: the dependencies of m (chosen at build time)
          toggle,       \* toggle[m]: the configuration enables m
          life          \* life[m]: where m is in its life

Module == 1..ModuleCount
Deps(m) == {table[m][i] : i \in DOMAIN table[m]}

\* Every dependency stands before its dependent in the table.
Ordered == \A m \in Module : \A d \in Deps(m) : d < m

\* Some ranking of the modules puts every dependency below its dependent.
Acyclic == \E rank \in [Module -> Module] :
             \A m \in Module : \A d \in Deps(m) \cap Module : rank[d] < rank[m]

Init == /\ table \in Tables
        /\ toggle \in [Module -> BOOLEAN]
        /\ life = [m \in Module |-> "pending"]

\* Every name in the table is the name of a module.
Complete == \A m \in Module : Deps(m) \subseteq Module

\* In a cycle some module has to go first, and a table with an unknown name
\* has no promise to keep beyond its own entry.
Load(m) == /\ life[m] = "pending"
           /\ toggle[m]
           /\ Deps(m) \subseteq Module
           /\ Acyclic /\ Complete => \A d \in Deps(m) : life[d] = "loaded"
           /\ life' = [life EXCEPT ![m] = "loaded"]

\* Only in a table that lists a dependent before its dependency may a module
\* be refused without a cause (the status a fresh load reports is undefined).
Refuse(m) == /\ life[m] = "pending"
             /\ \/ ~toggle[m]
                \/ \E d \in Deps(m) : d \in Module => life[d] = "refused"
                \/ ~Ordered
             /\ life' = [life EXCEPT ![m] = "refused"]

Unload(m) == /\ life[m] = "loaded"
             /\ \A x \in Module : life[x] # "pending"
             /\ life' = [life EXCEPT ![m] = "unloaded"]

Next == /\ \E m \in Module : Load(m) \/ Refuse(m) \/ Unload(m)
        /\ UNCHANGED <<table, toggle>>

Spec == Init /\ [][Next]_<<table, toggle, life>>
=============================================================================
