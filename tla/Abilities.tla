------------------------------ MODULE Abilities ------------------------------
(***************************************************************************)
(* What confidants give a party in combat, as dc.c extends it to Akechi and*)
(* Kasumi: who may follow up, pass the baton, wake and protect others      *)
(* (CheckPartyMemberConfidantCombatAbilities), who endures a fatal blow    *)
(* (CheckUnitIsEndure), when Joker's last hit point ends an encounter      *)
(* (AkechiEncounterCheckEnd), and the skill that an accessory adds to the  *)
(* end of a unit's list (FUN_00829ce8Hook).                                *)
(***************************************************************************)
EXTENDS Integers, FiniteSets

CONSTANTS
    Bonuses,      \* the confidants' bonuses that are obtained in the course of play
    Leftovers,    \* what a register may hold that CheckUnitIsEndure never writes
    Encounters,   \* encounters that are fought
    ListLengths   \* lengths of the units' skill lists

ASSUME AbilitiesAssumption ==
    /\ Bonuses \subseteq Nat \ {0} /\ Leftovers \subseteq Nat /\ Encounters \subseteq Nat
    /\ ListLengths \subseteq Nat \ {0, 1}

VARIABLES
    AutoUnlockBatonPass,  \* the setting (rigid)
    bonuses,              \* those obtained
    encounter,            \* EncounterIDGlobal, 0 on the field
    hasEndured,           \* hasAkechiEndured and hasSumiEndured
    endures,              \* ghost: who has endured by a bonus in this encounter
    jokerLast,            \* Joker has one hit point, and the flag to endure everything
    flag8348,             \* "end the encounter early"
    list, ring,           \* the game's skills in the open list (0: closed), ActiveSkillID
    ActiveGlobalSkillSlot

battleVars == <<encounter, hasEndured, endures, jokerLast, flag8348>>
ringVars == <<list, ring, ActiveGlobalSkillSlot>>
abilityVars == <<AutoUnlockBatonPass, bonuses, battleVars, ringVars>>

Player == 1..10
Late == {9, 10}         \* Akechi and Kasumi
Twice == 2              \* endures is counted no further

AbilitiesInit ==
    /\ AutoUnlockBatonPass \in BOOLEAN
    /\ bonuses = {} /\ encounter = 0
    /\ hasEndured = {} /\ endures = [u \in Late |-> 0]
    /\ jokerLast = FALSE /\ flag8348 = FALSE
    /\ list = 0 /\ ring = 0 /\ ActiveGlobalSkillSlot = 0
------------------------------------------------------------------------------
(* The bonuses of the members, 0 for none.  Kasumi has Morgana's.          *)
NoBonus == 0
FollowUp == <<0, 73, 12, 63, 42, 22, 32, 0, 86, 0>>
BatonPass == <<0, 72, 13, 65, 45, 25, 35, 0, 88, 13>>
Harisen == <<0, 74, 18, 61, 46, 26, 31, 0, 85, 18>>

Protect == <<0, 79, 19, 69, 49, 29, 39, 0, 51, 19>>

Own(player, ability) ==
    CASE ability = 1  -> BatonPass[player]
      [] ability = 2  -> FollowUp[player]
      [] ability = 12 -> BatonPass[player]
      [] ability = 14 -> Harisen[player]
      [] ability = 15 -> Protect[player]
Personal == {1, 2, 12, 14, 15}

\* The abilities that do not depend on who asks.  8 is answered by the game
\* without the bonus, 10 also needs a bullet.
Shared ==
    { <<3, 173>>, <<4, 171>>, <<5, 180>>, <<6, 175>>, <<7, 179>>, <<9, 30>>, <<13, 78>>,
      <<16, 68>>, <<17, 193>>, <<18, 195>>, <<19, 198>>, <<20, 200>>, <<21, 177>> }

IsConfidantBonusObtained(b) == b \in bonuses

CheckPartyMemberConfidantCombatAbilities(player, ability) ==
    \/ ability \in {1, 12} /\ (AutoUnlockBatonPass \/ player = 1)
    \/ ability \in Personal /\ IsConfidantBonusObtained(Own(player, ability))
    \/ \E s \in Shared : s[1] = ability /\ IsConfidantBonusObtained(s[2])

ObtainBonus(b) ==
    /\ b \notin bonuses
    /\ bonuses' = bonuses \cup {b}
    /\ UNCHANGED <<AutoUnlockBatonPass, battleVars, ringVars>>
------------------------------------------------------------------------------
(* An encounter.                                                           *)
Begin(e) ==
    /\ encounter = 0 /\ encounter' = e
    /\ endures' = [u \in Late |-> 0] /\ jokerLast' = FALSE
    /\ UNCHANGED <<AutoUnlockBatonPass, bonuses, hasEndured, flag8348, ringVars>>

\* BattleEndSkillChecks; a game over does not come to it, but flags are then
\* those of a save.
ClearsFlag == flag8348' = FALSE

EndEncounter ==
    /\ encounter # 0 /\ encounter' = 0
    /\ hasEndured' = {} /\ jokerLast' = FALSE
    /\ ClearsFlag
    /\ UNCHANGED <<AutoUnlockBatonPass, bonuses, endures, ringVars>>

GameOver ==
    /\ encounter # 0 /\ encounter' = 0
    /\ jokerLast' = FALSE /\ flag8348' = FALSE
    /\ UNCHANGED <<AutoUnlockBatonPass, bonuses, hasEndured, endures, ringVars>>

\* The first blow counts as endured whether or not there is a bonus.
Remember(u) == hasEndured' = hasEndured \cup ({u} \cap Late)

\* For a second one, and for everybody else, the bonus that is asked for was
\* never set.
EndureBonus(u) ==
    CASE u = 9 /\ u \notin hasEndured  -> {50}
      [] u = 10 /\ u \notin hasEndured -> {17}
      [] OTHER -> Leftovers

CheckUnitIsEndure(u) ==
    /\ encounter # 0
    /\ Remember(u)
    /\ \E b \in EndureBonus(u) :
          endures' = IF u \in Late /\ IsConfidantBonusObtained(b)
                  THEN [endures EXCEPT ![u] = IF @ < Twice THEN @ + 1 ELSE @] ELSE endures
    /\ UNCHANGED <<AutoUnlockBatonPass, bonuses, encounter, jokerLast, flag8348,
                   ringVars>>

JokersPoints ==      \* external: a blow he endures by his flag, or healing
    /\ encounter # 0 /\ jokerLast' = ~jokerLast
    /\ UNCHANGED <<AutoUnlockBatonPass, bonuses, encounter, hasEndured, endures,
                   flag8348, ringVars>>

FirstWithEarlyEnd == 830
AkechiEncounterCheckEnd ==
    /\ encounter >= FirstWithEarlyEnd /\ jokerLast
    /\ flag8348' = TRUE
    /\ UNCHANGED <<AutoUnlockBatonPass, bonuses, encounter, hasEndured, endures,
                   jokerLast, ringVars>>
------------------------------------------------------------------------------
(* The skill list in combat.  The game moves over its own `list` skills, and*)
(* the hook sees where it has come to; the skill of the accessory is behind *)
(* them, at the position `list`.  Where the cursor was last is kept when a  *)
(* list is closed and the next one, perhaps another unit's, is opened.     *)
OpenList(n) ==
    /\ encounter # 0 /\ list = 0
    /\ list' = n /\ ring' = 0
    /\ UNCHANGED <<AutoUnlockBatonPass, bonuses, battleVars, ActiveGlobalSkillSlot>>

CloseList ==
    /\ list # 0 /\ list' = 0 /\ ring' = 0
    /\ UNCHANGED <<AutoUnlockBatonPass, bonuses, battleVars, ActiveGlobalSkillSlot>>

Buttons == {"up", "down", "none"}

\* the game's own movement, external: from the position behind its list it
\* comes to the first, or the last
Moved(button) ==
    CASE button = "down" -> IF ring >= list - 1 THEN 0 ELSE ring + 1
      [] button = "up"   -> IF ring = 0 THEN list - 1 ELSE ring - 1
      [] button = "none" -> ring

\* the count without the skill that was added
CountBefore == list

numOfSkills == list + 1

Skips(slot, active) ==
    \/ slot = numOfSkills - 2 /\ active = 0
    \/ slot = 0 /\ active = numOfSkills - 2

FUN_00829ce8Hook(button) ==
    /\ list # 0
    /\ ring' = IF Skips(ActiveGlobalSkillSlot, Moved(button)) THEN numOfSkills - 1
               ELSE Moved(button)
    /\ ActiveGlobalSkillSlot' = ring'
    /\ UNCHANGED <<AutoUnlockBatonPass, bonuses, battleVars, list>>

AbilitiesNext ==
    \/ \E b \in Bonuses : ObtainBonus(b)
    \/ \E e \in Encounters : Begin(e)
    \/ \E u \in Player : CheckUnitIsEndure(u)
    \/ EndEncounter \/ GameOver \/ JokersPoints \/ AkechiEncounterCheckEnd
    \/ \E n \in ListLengths : OpenList(n)
    \/ CloseList
    \/ \E b \in Buttons : FUN_00829ce8Hook(b)

AbilitiesSpec == AbilitiesInit /\ [][AbilitiesNext]_abilityVars
------------------------------------------------------------------------------
(* Types.  The cursor of an open list stays on it and the added skill; the *)
(* slot that was remembered may be one of another list.                    *)
AbilitiesTypeOK ==
    /\ AutoUnlockBatonPass \in BOOLEAN /\ bonuses \subseteq Bonuses
    /\ encounter \in Encounters \cup {0}
    /\ hasEndured \subseteq Late /\ endures \in [Late -> 0..Twice]
    /\ jokerLast \in BOOLEAN /\ flag8348 \in BOOLEAN
    /\ list \in ListLengths \cup {0} /\ ring \in 0..list
    /\ ActiveGlobalSkillSlot \in UNION {0..n : n \in ListLengths \cup {0}}

(* A confidant's bonus gives something to that confidant alone: obtaining  *)
(* it changes what a single member can do, or what Morgana and Kasumi can, *)
(* who has his bonuses.  The tables are five and written out by hand.      *)
CanDo(player) == {a \in Personal : CheckPartyMemberConfidantCombatAbilities(player, a)}
Gainers == {player \in Player : CanDo(player)' # CanDo(player)}
TraitsAreOwn ==
    [][bonuses' # bonuses =>
           Gainers \subseteq {3, 10} \/ Cardinality(Gainers) <= 1]_abilityVars

(* By their bonus Akechi and Kasumi endure once in an encounter, as long as*)
(* what is left in the register is no bonus that was obtained.             *)
EnduresOnce == bonuses \cap Leftovers = {} => \A u \in Late : endures[u] <= 1

(* The flag that ends an encounter early is never one of an encounter      *)
(* before: only those from 830 on have it.                                 *)
EarlyEndIsThisBattles == flag8348 => encounter >= FirstWithEarlyEnd

(* Once the hook knows where the cursor is, a button moves it to the next  *)
(* position of the ring that the added skill closes, in a list of three    *)
(* skills or more.  (With two, "down" on the first comes to the third.)    *)
Neighbour(button) ==
    CASE button = "down" -> IF ring = list THEN 0 ELSE ring + 1
      [] button = "up"   -> IF ring = 0 THEN list ELSE ring - 1
      [] button = "none" -> ring
Settled == list > 2 /\ ActiveGlobalSkillSlot = ring
CursorMovesToNeighbour ==
    [][\A b \in Buttons : Settled /\ FUN_00829ce8Hook(b) => ring' = Neighbour(b)]_abilityVars

(* Abilities are their confidant's, of their encounter, and at their place. *)
AbilitiesFit ==
    /\ [](AbilitiesTypeOK /\ EnduresOnce /\ EarlyEndIsThisBattles)
    /\ TraitsAreOwn
    /\ CursorMovesToNeighbour
==============================================================================
