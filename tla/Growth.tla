-------------------------------- MODULE Growth --------------------------------
(***************************************************************************)
(* How scripts raise a member of the party (prx/modules/p5/EXFLW/EXFLW.c): *)
(* its level with the experience and the stats that belong to it, another  *)
(* persona, its skills, and the way back to the persona it joined with.    *)
(* Fights raise it too; they are the game's.                               *)
(***************************************************************************)
EXTENDS Integers, Sequences

CONSTANTS
    Member,         \* the unit that is looked at, neither Joker nor beyond Kasumi
    Ids, Targets,   \* what the commands are called with
    BaseLevel, BaseStats,   \* of its first persona in PERSONA.TBL
    ExpRequired,    \* for each level from 2 on
    Gain,           \* what a persona's stats gain with each level from 1 on
    LearnSet,       \* the skills that a persona learns
    Trained         \* bound: levels above are reached by commands only

OwnPersonas == DOMAIN LearnSet
First == 200 + Member
EmptySlot == 0
SkillSlots == 0..7
Bare == [i \in SkillSlots |-> EmptySlot]
Learnable(e) == e.LvReq \in Nat /\ e.skillID \in Nat /\ e.canLearn \in BOOLEAN

(* A first persona above level 1, which has no experience in the table, with its
   first skills among the first eight entries: those behind would be written
   over the stats. *)
ASSUME GrowthAssumption ==
    /\ Member \in 2..10 /\ First \in OwnPersonas
    /\ BaseLevel \in 2..99 /\ BaseStats \in [0..5 -> 0..255]
    /\ ExpRequired \in [0..97 -> Nat] /\ \A i \in 1..97 : ExpRequired[i - 1] < ExpRequired[i]
    /\ \A p \in OwnPersonas :
           /\ Gain[p] \in [0..97 -> [0..4 -> Nat]]
           /\ \A i \in DOMAIN LearnSet[p] : Learnable(LearnSet[p][i])
    /\ Ids \subseteq Int /\ Targets \subseteq Int /\ Trained \in 2..99

VARIABLES
    member,     \* its StockPersona[0]: five stats, and the first of the bonuses behind them
    been        \* ghost: the personas it has had since it was first or last reset

growthVars == <<member, been>>
------------------------------------------------------------------------------
IsMember(id) == id \in 2..10 /\ id = Member

(* A row of the persona's table raises five of the stats.  The command sums rows
   up in words that are stored in bytes at the end, which comes to the same. *)
WithRow(stats, persona, row) ==
    [j \in 0..5 |-> IF j = 5 THEN stats[j] ELSE (stats[j] + Gain[persona][row][j]) % 256]

RowOfLevel(lv) == lv - 1

\* by one row for each level but the last
LevelsBelow(from, to) == to - from - 1

LevelsGained(from, to) == to - from

\* The stats after so many rows from the one of a level, up to the last level.
GrownFrom(stats, persona, lv) ==
    LET grown[n \in 0..(99 - lv)] ==
            IF n = 0 THEN stats
            ELSE WithRow(grown[n - 1], persona, RowOfLevel(lv) + n - 1)
    IN  grown

Grown(stats, persona, from, to) == GrownFrom(stats, persona, from)[LevelsGained(from, to)]

ExpOf(lv) == ExpRequired[lv - 2]

\* Levels are from 1 to 99, and nobody is lowered.
IsHigher(target) == target \in 1..99 /\ member.lv < target

EX_SET_PERSONA_LV(id, target) ==
    /\ IsMember(id) /\ IsHigher(target)
    /\ member' = [member EXCEPT !.lv = target, !.exp = IF target > 1 THEN ExpOf(target) ELSE 0,
                                !.stats = Grown(@, member.persona, member.lv, target)]
    /\ UNCHANGED been

Becomes(persona) ==
    /\ member' = [member EXCEPT !.persona = persona]
    /\ been' = been \cup {persona}

EX_FLW_PersonaEvolution(id, persona) == IsMember(id) /\ Becomes(persona)

\* PERSONA_EVOLUTIONHook: the game's evolution, but for those who are evolved.
PERSONA_EVOLUTIONHook(id) ==
    /\ IsMember(id) /\ member.persona <= 210
    /\ \E p \in OwnPersonas \ {First} : Becomes(p)

\* This command accepts Joker, and a number on either side.
EX_CLEAR_PERSONA_SKILLS(id) ==
    /\ id \in 0..11 /\ id = Member
    /\ member' = [member EXCEPT !.skills = Bare]
    /\ UNCHANGED been

\* Each of the initial skills is written into the slot with its entry's number.
InitialSkills(p) ==
    LET initial(i) == /\ i + 1 \in DOMAIN LearnSet[p]
                      /\ LearnSet[p][i + 1].LvReq = 0 /\ LearnSet[p][i + 1].skillID > 0
    IN  [i \in SkillSlots |-> IF initial(i) THEN LearnSet[p][i + 1].skillID ELSE EmptySlot]

AtFirst ==
    [persona |-> First, lv |-> BaseLevel, exp |-> ExpOf(BaseLevel), stats |-> BaseStats,
     skills |-> InitialSkills(First)]

\* The sixth stat is the first of the bonuses.
EX_RESET_PARTY_MEMBER_PERSONA(id) ==
    /\ id = Member
    /\ member' = AtFirst /\ been' = {First}

(* EX_GET_LEARNABLE_SKILL: the skill of an entry, if its level is reached and was
   not before.  Whether anything can be learnt is asked of the first entry. *)
LearnableSkill(p, e, previous) ==
    LET s == LearnSet[p][e] IN
    IF LearnSet[p][1].canLearn /\ s.LvReq # 0 /\ s.LvReq >= previous /\ member.lv >= s.LvReq
    THEN s.skillID ELSE EmptySlot

\* A script asks entry by entry, and the game puts what is offered in a free slot.
Learn(e, previous, slot) ==
    LET s == LearnableSkill(member.persona, e, previous)
    IN  /\ s # EmptySlot /\ member.skills[slot] = EmptySlot
        /\ \A i \in 0..(slot - 1) : member.skills[i] # EmptySlot
        /\ \A i \in SkillSlots : member.skills[i] # s
        /\ member' = [member EXCEPT !.skills[slot] = s]
        /\ UNCHANGED been
------------------------------------------------------------------------------
\* External: fights, which bring a member up to the next level, or close to it.
Fight ==
    /\ member.lv < Trained
    /\ \/ member' = [member EXCEPT !.exp = ExpRequired[member.lv - 1] - 1]
       \/ member' = [member EXCEPT
              !.lv = @ + 1, !.exp = ExpRequired[member.lv - 1],
              !.stats = WithRow(@, member.persona, RowOfLevel(member.lv))]
    /\ UNCHANGED been

GrowthInit == member = AtFirst /\ been = {First}

GrowthNext ==
    \/ \E id \in Ids : \/ \E target \in Targets : EX_SET_PERSONA_LV(id, target)
                       \/ \E p \in OwnPersonas : EX_FLW_PersonaEvolution(id, p)
                       \/ PERSONA_EVOLUTIONHook(id)
                       \/ EX_CLEAR_PERSONA_SKILLS(id)
                       \/ EX_RESET_PARTY_MEMBER_PERSONA(id)
    \/ \E e \in DOMAIN LearnSet[member.persona], previous \in Targets, slot \in SkillSlots :
           Learn(e, previous, slot)
    \/ Fight

GrowthSpec == GrowthInit /\ [][GrowthNext]_growthVars
------------------------------------------------------------------------------
\* Types of all variables; no command lowers a member beyond its first level.
GrowthTypeOK ==
    /\ member.persona \in OwnPersonas /\ member.lv \in BaseLevel..99 /\ member.exp \in Nat
    /\ member.stats \in [0..5 -> 0..255] /\ member.skills \in [SkillSlots -> Nat]
    /\ been \subseteq OwnPersonas /\ member.persona \in been

(* Level and experience say the same, whether they came by command, by fights or
   by a reset: the game raises a member by its experience, and would raise one
   that has too much again at once, or too little never in time. *)
ExpMatchesLevel ==
    /\ ExpRequired[member.lv - 2] <= member.exp
    /\ member.lv < 99 => member.exp < ExpRequired[member.lv - 1]

(* A member that has kept its first persona has the stats of its level, whichever
   way it came there: one command over many levels, several commands, or fights
   in between add every row of the table once. *)
StatsMatchLevel ==
    been = {First} =>
        member.stats = GrownFrom(BaseStats, First, BaseLevel)[member.lv - BaseLevel]

(* Every skill has been earned: a persona that it has had since the last reset
   learns it at the member's level or below.  A reset takes those of the levels
   that it takes. *)
SkillsAreEarned ==
    \A i \in SkillSlots : member.skills[i] # EmptySlot =>
        \E p \in been : \E e \in DOMAIN LearnSet[p] :
            /\ LearnSet[p][e].skillID = member.skills[i]
            /\ LearnSet[p][e].LvReq <= member.lv

(* What a member has become is what its level and its personas account for. *)
GrowthIsEarned == GrowthTypeOK /\ ExpMatchesLevel /\ StatsMatchLevel /\ SkillsAreEarned
==============================================================================
