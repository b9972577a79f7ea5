-------------------------------- MODULE Enemies --------------------------------
(***************************************************************************)
(* Enemies with personas, summons and voice lines of their own.  A script  *)
(* of an enemy leaves its wishes in globals (EnemyPersona, SummonCustomBED  *)
(* and count 420: prx/modules/p5/EXFLW/EXFLW.c), and hooks of               *)
(* prx/modules/p5/dc/dc.c fulfil them when the game carries the action     *)
(* out.  The globals are shared by all enemies; whose turn it is, and what *)
(* the game asks during it, is external.                                   *)
(***************************************************************************)
EXTENDS Integers, Sequences, FiniteSets

CONSTANTS
    Foes,        \* unit IDs of the enemies that fight
    Wishes,      \* personas a script asks for; 0 for none
    BEDs,        \* effects a summon asks for; 0 for the game's
    VoiceCues,    \* voice lines a script sets count 420 to
    Defaults,    \* personas the game has for an enemy; 0 for none
    Summons,     \* arguments of a summon: sequences of four enemy IDs
    MaskSkills   \* skills of the black mask that have lines

ASSUME EnemiesAssumption ==
    /\ Foes \subseteq Nat \ {0, 1}              \* the numbers of NoUnit and Joker
    /\ 0 \in Wishes \cap Defaults /\ Wishes \cup Defaults \subseteq Nat
    /\ 0 \in BEDs /\ BEDs \subseteq Nat /\ VoiceCues \subseteq Nat \ {0}
    /\ \A s \in Summons : Len(s) = 4
    /\ MaskSkills \subseteq Nat

VARIABLES
    rules,            \* enablePersonaEnemies and enableAkechiMod (rigid)
    EnemyPersona, SummonCustomBED, count420,     \* the globals
    unit, act,        \* whose turn it is, and what was decided
    wish,             \* ghost: persona and effect the turn's script asked for
    argArray,         \* arguments of the action, argCount of them
    stockPersona,     \* StockPersona[0].personaID of the enemies
    personaShown, effect,  \* persona and effect seen in this turn, or Unseen
    Field1C,          \* lines of the black mask so far, by their parity
    lines             \* ghosts about the lines: the custom one's number and
                      \* speaker, the last of two that alternate, a repetition

foeVars == <<rules, EnemyPersona, SummonCustomBED, count420, unit, act, wish,
             argArray, stockPersona, personaShown, effect, Field1C, lines>>
globals == <<EnemyPersona, SummonCustomBED>>
looks == <<stockPersona, personaShown, effect>>
voice == <<count420, Field1C, lines>>

Joker == 1
NoUnit == 0
Unseen == -1
SummonSkill == 406                \* 0x196
NoWish == [persona |-> 0, bed |-> 0]
IsEnemy == unit \in Foes
------------------------------------------------------------------------------
(* The commands of a script: FLW_AI_ACT_SKILL, FLW_AI_ACT_ATTACK and the two
   that the mod adds. *)
Decide(a) == IsEnemy /\ act = "thinking" /\ act' = a

FLW_AI_ACT_SKILL ==                      \* and FLW_AI_ACT_ATTACK
    /\ Decide("ordinary")
    /\ EnemyPersona' = 0 /\ SummonCustomBED' = 0
    /\ UNCHANGED <<rules, unit, wish, argArray, looks, voice>>

EX_FLW_AI_ACT_PERSONA_SKILL(p) ==
    /\ Decide("persona")
    /\ EnemyPersona' = IF rules.enablePersonaEnemies THEN p ELSE 0
    /\ wish' = [wish EXCEPT !.persona = IF rules.enablePersonaEnemies THEN p ELSE 0]
    /\ UNCHANGED <<rules, SummonCustomBED, unit, argArray, looks, voice>>

\* The first enemy is called as it is, the others up to the first that is none.
Called(s) ==
    LET gaps == {i \in 2..4 : s[i] <= 0}
    IN  SubSeq(s, 1, IF gaps = {} THEN 4
                     ELSE (CHOOSE i \in gaps : \A j \in gaps : i <= j) - 1)

EX_AI_SUMMON_UNITS(s, bed) ==
    /\ Decide("summon")
    /\ SummonCustomBED' = bed
    /\ wish' = [wish EXCEPT !.bed = bed]
    /\ argArray' = argArray \o Called(s)
    /\ UNCHANGED <<rules, EnemyPersona, unit, looks, voice>>

\* SET_COUNT( 420, cue ): a line for the action that follows.
SetCue(cue) ==
    /\ IsEnemy /\ act = "thinking"
    /\ count420' = cue
    /\ lines' = [lines EXCEPT !.times = 0, !.by = NoUnit]
    /\ UNCHANGED <<rules, globals, unit, act, wish, argArray, looks, Field1C>>
------------------------------------------------------------------------------
\* What is shown of an enemy whose script asked for nothing.
OwnPersona(e, result) ==
    CASE e = 232 /\ rules.enableAkechiMod -> 239
      [] e = 217 /\ result = 210          -> 240
      [] OTHER                            -> result

\* SetEnemyAkechiPersonaHook, with the game's result; a player shows her own.
SetEnemyAkechiPersona(result) ==
    /\ act # "thinking"
    /\ IF IsEnemy
       THEN LET p == IF EnemyPersona > 0 THEN EnemyPersona
                                         ELSE OwnPersona(unit, result)
            IN  /\ stockPersona' = [stockPersona EXCEPT ![unit] = p]
                /\ personaShown' = IF personaShown = Unseen THEN p ELSE personaShown
                /\ EnemyPersona' = 0
       ELSE UNCHANGED <<stockPersona, personaShown, EnemyPersona>>
    /\ UNCHANGED <<rules, SummonCustomBED, unit, act, wish, argArray, effect, voice>>

\* LoadBEDFileHook, asked for the effect of the summoning skill.
LoadBEDFile ==
    /\ act \in {"ordinary", "persona", "summon"}
    /\ effect' = SummonCustomBED
    /\ UNCHANGED <<rules, globals, unit, act, wish, argArray, stockPersona, personaShown, voice>>

\* EnemyHasCombatCutinHook: true if the game, or the last persona, says so.
EnemyHasCombatCutin(result) == result \/ stockPersona[unit] # 0
------------------------------------------------------------------------------
\* a line that stays in its count
SpeakKept ==
    /\ lines' = [lines EXCEPT !.times = IF @ < 2 THEN @ + 1 ELSE @, !.by = unit]
    /\ UNCHANGED <<count420, Field1C>>

(* Voice lines.  A function that speaks for an enemy plays the custom line, if
   there is one, and takes it out of the count. *)
SpeakCustom ==
    /\ count420' = 0
    /\ lines' = [lines EXCEPT !.times = @ + 1, !.by = unit]
    /\ UNCHANGED Field1C

\* setBlackMaskCueIDHook, by skill: 0 for no line; two skills alternate.
Alternating == {370, 371}
MaskCue(s) ==
    CASE s \in 10..15                      -> 3
      [] s \in 20..25                      -> 2
      [] s \in (60..63) \cup {66}          -> 7
      [] s \in {70, 71, 72}                 -> 9
      [] s \in {202, 212}                   -> 4
      [] s = 243                            -> 5
      [] s \in {262, 272}                   -> 6
      [] s = 348                            -> 8
      [] s \in Alternating                  -> IF Field1C = 0 THEN 11 ELSE 10
      [] s = 673                            -> 11
      [] s = 674                            -> 10
      [] OTHER                              -> 0

setBlackMaskCueID(s) ==
    IF count420 > 0
    THEN SpeakCustom
    ELSE /\ Field1C' = IF s \in Alternating THEN 1 - Field1C ELSE Field1C
         /\ lines' = IF s \in Alternating
                     THEN [lines EXCEPT !.last = MaskCue(s),
                                        !.echo = @ \/ lines.last = MaskCue(s)]
                     ELSE lines
         /\ UNCHANGED count420

\* The hooks that look at the kind of unit first: CombatPersonaCueIDHook,
\* EnemyAkechiSkillCueID and PlayJokerSkillCueID.
SpeakSkill ==
    IF IsEnemy /\ count420 > 0 THEN SpeakCustom ELSE UNCHANGED voice

\* FUN_00b25348Hook: an enemy speaks like the black mask, about no skill.
SpeakTurn ==
    IF IsEnemy THEN setBlackMaskCueID(0) ELSE UNCHANGED voice

Speak ==
    /\ act \notin {"thinking", "none"}
    /\ \/ SpeakSkill \/ SpeakTurn
       \/ IsEnemy /\ \E s \in MaskSkills : setBlackMaskCueID(s)
    /\ UNCHANGED <<rules, globals, unit, act, wish, argArray, looks>>
------------------------------------------------------------------------------
FoesInit ==
    /\ rules \in [enablePersonaEnemies : BOOLEAN, enableAkechiMod : BOOLEAN]
    /\ EnemyPersona = 0 /\ SummonCustomBED = 0 /\ count420 = 0
    /\ unit = NoUnit /\ act = "none" /\ wish = NoWish
    /\ argArray = <<>>
    /\ stockPersona = [e \in Foes |-> 0] /\ personaShown = Unseen /\ effect = Unseen
    /\ Field1C = 0
    /\ lines = [times |-> 0, by |-> NoUnit, last |-> 0, echo |-> FALSE]

BeginTurn(u) ==
    /\ unit = NoUnit
    /\ unit' = u /\ act' = IF u \in Foes THEN "thinking" ELSE "player"
    /\ wish' = NoWish /\ argArray' = <<>> /\ personaShown' = Unseen /\ effect' = Unseen
    /\ UNCHANGED <<rules, globals, stockPersona, voice>>

\* An action may be over before anything of it is shown or said, and an enemy
\* may decide on something the mod does not know of.
EndTurn ==
    /\ unit # NoUnit
    /\ unit' = NoUnit /\ act' = "none"
    /\ wish' = NoWish /\ argArray' = <<>> /\ personaShown' = Unseen /\ effect' = Unseen
    /\ UNCHANGED <<rules, globals, stockPersona, voice>>

FoesNext ==
    \/ \E u \in Foes \cup {Joker} : BeginTurn(u)
    \/ FLW_AI_ACT_SKILL
    \/ \E p \in Wishes : EX_FLW_AI_ACT_PERSONA_SKILL(p)
    \/ \E s \in Summons, bed \in BEDs : EX_AI_SUMMON_UNITS(s, bed)
    \/ \E cue \in VoiceCues : SetCue(cue)
    \/ unit # NoUnit /\ \E result \in Defaults : SetEnemyAkechiPersona(result)
    \/ LoadBEDFile \/ Speak \/ EndTurn

FoesSpec == FoesInit /\ [][FoesNext]_foeVars
------------------------------------------------------------------------------
\* Types of all variables.
FoesTypeOK ==
    /\ EnemyPersona \in Wishes /\ SummonCustomBED \in BEDs
    /\ count420 \in VoiceCues \cup {0}
    /\ unit \in Foes \cup {Joker, NoUnit}
    /\ act \in {"none", "thinking", "player", "ordinary", "persona", "summon"}
    /\ wish.persona \in Wishes /\ wish.bed \in BEDs
    /\ stockPersona \in [Foes -> Wishes \cup Defaults \cup {239, 240}]
    /\ personaShown \in {Unseen} \cup Wishes \cup Defaults \cup {239, 240}
    /\ effect \in {Unseen} \cup BEDs
    /\ Field1C \in 0..1 /\ lines.times \in Nat

(* An enemy shows the persona that its own script asked for, and in a turn in
   which it asked for none, one of its own: what an enemy before it wished
   for, and did not come to show, is forgotten.  The effect of a summon is in
   the same way the one asked for, or the game's.  (A summon makes no promise
   about personas, nor an act with a persona about effects: neither of the two
   commands clears the other's global.) *)
ShownAsScripted ==
    /\ personaShown # Unseen /\ act = "persona" /\ wish.persona > 0 =>
           personaShown = wish.persona
    /\ personaShown # Unseen /\ act \in {"ordinary", "persona"} /\ wish.persona = 0 =>
           \E result \in Defaults : personaShown = OwnPersona(unit, result)
    /\ effect # Unseen /\ act # "persona" => effect = wish.bed

(* A line that a script sets is spoken once at most, and by an enemy, whichever
   of the functions that speak the game happens to call, and in which turn. *)
CustomLineOnce == lines.times <= 1 /\ lines.by # Joker

(* The black mask does not say the same thing twice running when it repeats
   the skills that have two lines, whatever is spoken in between. *)
MaskVaries == ~lines.echo

(* Enemies do, show and say what the script of their own turn asked for. *)
FoesAsScripted == FoesTypeOK /\ ShownAsScripted /\ CustomLineOnce /\ MaskVaries
===============================================================================
