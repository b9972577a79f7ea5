-------------------------------- MODULE Orders --------------------------------
(***************************************************************************)
(* The commands by which the script of a fight orders a unit about:        *)
(* whether it can be targeted, whether it endures a fatal blow, and its    *)
(* tactics (prx/modules/p5/EXFLW/EXFLW.c).  An enemy is looked up by its   *)
(* ID in the list of those in combat (GetBtlUnitInCombat of p5.c), where   *)
(* two may share one, or is the one whose turn it is, which a hook of dc.c *)
(* leaves in enemyBtlUnit.  Who enters, leaves and acts is external.       *)
(***************************************************************************)
EXTENDS Integers, Sequences

CONSTANTS
    Squad,       \* the enemies of an encounter, by their place in memory
    SquadID,     \* their unit IDs
    States,      \* what a script sets a state or tactics to
    Words,       \* flags that the game gives a unit: sets of bits
    Orderees     \* the members that scripts name

ASSUME OrdersAssumption ==
    /\ Squad \subseteq Nat \ 0..10 /\ SquadID \in [Squad -> Nat]
    /\ States \subseteq Int /\ 0 \in States
    /\ \A w \in Words : w \subseteq 0..31
    /\ Words # {} /\ Orderees \subseteq Nat

VARIABLES
    lineup,       \* the enemies in combat, in the order of their list
    acting,       \* the one whose turn it is
    enemyBtlUnit, \* the unit that the hook saw last
    Flags,        \* of every unit: the bits that are set
    TacticsState,
    given,        \* ghost: the flags that the game gave the unit
    told,         \* ghost: the states that are on, as last given to it
    wild          \* ghost: the units that were given a negative state

combatVars == <<lineup, acting, enemyBtlUnit>>
flagVars == <<Flags, given, told, wild>>
orderVars == <<combatVars, flagVars, TacticsState>>

JokerUnit == 1
NoOne == 0
AnyUnit == Squad \cup 1..10
TargetBit == 15
EndureBit == 5
Ordered == {TargetBit, EndureBit}
InCombat == {lineup[i] : i \in DOMAIN lineup}
------------------------------------------------------------------------------
\* GetBtlUnitInCombat: the first in the list with the ID.
Bearers(id) == {i \in DOMAIN lineup : SquadID[lineup[i]] = id}
FirstOf(S) == CHOOSE i \in S : \A j \in S : i <= j
GetBtlUnitInCombat(id) ==
    IF Bearers(id) = {} THEN NoOne ELSE lineup[FirstOf(Bearers(id))]

\* the bits of state << bit, of 32; a positive state counts as 1
Shifted(state, bit) ==
    {k \in bit..31 : \/ state > 0 /\ k = bit
                     \/ state < 0 /\ (state \div 2^(k - bit)) % 2 = 1}
\* a state that is added to the flags, and takes none of them away
WithStateAdded(word, state, bit) == word \cup Shifted(state, bit)

WithState(word, state, bit) == (word \ {bit}) \cup Shifted(state, bit)

SetState(u, state, bit) ==
    /\ Flags' = [Flags EXCEPT ![u] = WithState(@, state, bit)]
    /\ told' = [told EXCEPT ![u] = IF state > 0 THEN @ \cup {bit} ELSE @ \ {bit}]
    /\ wild' = IF state < 0 THEN wild \cup {u} ELSE wild
    /\ UNCHANGED <<given, TacticsState>>

\* AI_CHK_SLIP has the game look at the unit whose turn it is, and
\* FUN_007ed620Hook keeps it.
AI_CHK_SLIP == enemyBtlUnit' = acting

EX_AI_SET_TARGETABLE_STATE(state) ==
    /\ acting # NoOne
    /\ AI_CHK_SLIP
    /\ SetState(enemyBtlUnit', state, TargetBit)
    /\ UNCHANGED <<lineup, acting>>

\* EX_AI_SET_ENID_TARGETABLE_STATE and EX_AI_SET_ENID_ENDURE_STATE
SetStateByID(id, state, bit) ==
    /\ GetBtlUnitInCombat(id) # NoOne
    /\ SetState(GetBtlUnitInCombat(id), state, bit)
    /\ UNCHANGED combatVars

EX_SET_JOKER_ENDURE_STATE(state) ==
    SetState(JokerUnit, state, EndureBit) /\ UNCHANGED combatVars

SetTactics(u, state) ==
    /\ TacticsState' = [TacticsState EXCEPT ![u] = state]
    /\ UNCHANGED <<combatVars, flagVars>>

EX_SET_ENID_TACTICS(id, state) ==
    /\ GetBtlUnitInCombat(id) # NoOne /\ id <= 999
    /\ SetTactics(GetBtlUnitInCombat(id), state)

EX_SET_TACTICS_STATE(member, state) ==
    /\ member # 0 /\ member < 11
    /\ SetTactics(member, state)
------------------------------------------------------------------------------
OrdersInit ==
    /\ lineup = <<>> /\ acting = NoOne /\ enemyBtlUnit = NoOne
    /\ \E w \in Words : given = [u \in AnyUnit |-> w]
    /\ Flags = given
    /\ told = [u \in AnyUnit |-> given[u] \cap Ordered]
    /\ wild = {}
    /\ TacticsState = [u \in AnyUnit |-> 0]

\* A unit that enters has the flags and tactics the game gives it.
Enter(u, w) ==
    /\ u \notin InCombat
    /\ lineup' = Append(lineup, u)
    /\ given' = [given EXCEPT ![u] = w] /\ Flags' = [Flags EXCEPT ![u] = w]
    /\ told' = [told EXCEPT ![u] = w \cap Ordered]
    /\ wild' = wild \ {u}
    /\ TacticsState' = [TacticsState EXCEPT ![u] = 0]
    /\ UNCHANGED <<acting, enemyBtlUnit>>

LeaveCombat(u) ==
    /\ acting = NoOne
    /\ \E i \in DOMAIN lineup :
           /\ lineup[i] = u
           /\ lineup' = SubSeq(lineup, 1, i - 1) \o SubSeq(lineup, i + 1, Len(lineup))
    /\ UNCHANGED <<acting, enemyBtlUnit, flagVars, TacticsState>>

TurnOf(u) ==
    /\ acting = NoOne /\ u \in InCombat
    /\ acting' = u
    /\ UNCHANGED <<lineup, enemyBtlUnit, flagVars, TacticsState>>

TurnEnds ==
    /\ acting # NoOne /\ acting' = NoOne
    /\ UNCHANGED <<lineup, enemyBtlUnit, flagVars, TacticsState>>

OrdersNext ==
    \/ \E u \in Squad : LeaveCombat(u) \/ TurnOf(u) \/ \E w \in Words : Enter(u, w)
    \/ TurnEnds
    \/ \E s \in States : EX_AI_SET_TARGETABLE_STATE(s) \/ EX_SET_JOKER_ENDURE_STATE(s)
    \/ \E u \in Squad, s \in States :
           \/ \E b \in Ordered : SetStateByID(SquadID[u], s, b)
           \/ EX_SET_ENID_TACTICS(SquadID[u], s)
    \/ \E m \in Orderees, s \in States : EX_SET_TACTICS_STATE(m, s)

OrdersSpec == OrdersInit /\ [][OrdersNext]_orderVars
------------------------------------------------------------------------------
OrdersTypeOK ==
    /\ lineup \in Seq(Squad) /\ acting \in Squad \cup {NoOne}
    /\ enemyBtlUnit \in Squad \cup {NoOne}
    /\ Flags \in [AnyUnit -> SUBSET (0..31)] /\ given \in [AnyUnit -> SUBSET (0..31)]
    /\ TacticsState \in [AnyUnit -> States]
    /\ told \in [AnyUnit -> SUBSET Ordered]
    /\ wild \subseteq AnyUnit

(* Whether a unit can be targeted and whether it endures are what it was last
   told by any of the four commands, or else as the game gave it to the fight;
   its other flags stay the game's, whatever order it is given and whoever has
   entered or left since.  That is so for units that no script gave a negative
   state, whose sign fills the bits above. *)
FlagsAsTold ==
    \A u \in AnyUnit \ wild : Flags[u] = told[u] \cup (given[u] \ Ordered)

(* An order reaches one unit at most.  If that is an enemy, it is the one whose
   turn it is, or the one that entered combat first of all with its ID: the
   second of two twins is reached by nobody else's order. *)
Touched == {u \in AnyUnit : Flags'[u] # Flags[u] \/ TacticsState'[u] # TacticsState[u]}
OlderTwin(i) == \E j \in 1..(i - 1) : SquadID[lineup[j]] = SquadID[lineup[i]]
OrdersAreOwn ==
    [][lineup' = lineup =>
           \E u \in AnyUnit :
               /\ Touched \subseteq {u}
               /\ u \in Squad \cap Touched /\ u # acting =>
                      \E i \in DOMAIN lineup : lineup[i] = u /\ ~OlderTwin(i)]_orderVars

(* Orders reach the unit they are for, and leave it as they say. *)
OrdersObeyed == [](OrdersTypeOK /\ FlagsAsTold) /\ OrdersAreOwn
===============================================================================
