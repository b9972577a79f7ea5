-------------------------------- MODULE Battle --------------------------------
(***************************************************************************)
(* One encounter after another as the hooks of dc.c, p5e.c and kasumi.c see*)
(* them: contact on the field, set-up with its music, turns, the question  *)
(* whether the battle is over, and its end. What the modules remember of it*)
(* lives in globals of the PRX (p5.h), which outlive a battle and, unlike  *)
(* the game's data, also a game over. The party's slots are Party's.       *)
(*                                                                         *)
(* What the game does by itself (units fall and rise, the player's choices,*)
(* the result of a hook's original) is external: `mode` is the game's      *)
(* place, and the actions say when a hook can be called.                   *)
(***************************************************************************)
EXTENDS Party

CONSTANTS Configs,   \* the configurations: records of the three toggles below
          MaxFoes    \* bound: enemies in an encounter

ASSUME BattleAssumption ==
  /\ Configs \subseteq [ambushOverDLC : BOOLEAN, enableExpandedBGM : BOOLEAN,
                        PreventJokerGameOver : BOOLEAN]
  /\ MaxFoes \in Nat \ {0}

Place == {"field", "starting", "fighting", "checking", "over", "ending", "gameover", "loaded"}
Kind == {"none", "ambush", "ambushed"}
NoUnit == 0
Foe == 256                      \* the structure of an enemy unit

VARIABLES
  config,
  mode,                    \* external: where the game is; "loaded" is the field after a game over
  foes,                    \* external: the enemies that stand
  down,                    \* external: the mates that have fallen
  jokerHP,                 \* currentHP of Joker; 2 is anything above 1
  jokerAilment,            \* the Dead bit of Joker's StatusAilments
  isAmbush, isAmbushed,
  bgm,                     \* the theme the encounter got: "own" is the encounter's or the DLC's
  isPreventGameOver,
  isChallengeBtl, isRound3,
  splash,                  \* the effect that LoadEPL loaded last in this encounter
  currentActingUnit,
  randomizedCombatOutfit,  \* a field that is loaded may draw new outfits
  owed,                    \* the contact whose theme has not been played; only for the properties
  asked,                   \* the encounter's script asked for no game over; likewise
  byContact                \* the encounter began on the field; likewise

life == <<foes, down, jokerHP, jokerAilment>>
music == <<isAmbush, isAmbushed, bgm, owed>>
rounds == <<isChallengeBtl, isRound3, splash>>
loss == <<isPreventGameOver, asked>>
outfits == <<randomizedCombatOutfit, byContact>>
vars == <<config, mode, life, music, rounds, loss, currentActingUnit, outfits, slots>>

\* dcInit; the other globals start as zero.
Init ==
  /\ PartyInit
  /\ config \in Configs
  /\ mode = "field"
  /\ foes = 0 /\ down = {} /\ jokerHP = 2 /\ jokerAilment = FALSE
  /\ isAmbush = FALSE /\ isAmbushed = FALSE /\ bgm = "own" /\ owed = "none"
  /\ isChallengeBtl = FALSE /\ isRound3 = FALSE /\ splash = "plain"
  /\ isPreventGameOver = FALSE /\ asked = FALSE
  /\ currentActingUnit = NoUnit
  /\ randomizedCombatOutfit = TRUE /\ byContact = FALSE

\* isPlayerUnitDead. An empty slot holds 0, whose unit the game never gives HP.
JokerDown == jokerAilment \/ jokerHP = 0
isPlayerUnitDead(u) == u = Empty \/ (u = Joker /\ JokerDown) \/ u \in down
SomeMateStands == \E i \in Mate : ~isPlayerUnitDead(slots[i])

-----------------------------------------------------------------------------
(* Contact and music                                                       *)

OnField == mode \in {"field", "loaded"}
ScriptsRun == mode \notin {"over", "gameover"}

\* a contact that leaves the other kind's flag as it was
FlagOnTop(flag, mine, kind) == flag \/ kind = mine

\* A flag after a contact, which only "none" leaves as it was.
Flag(flag, mine, kind) == IF kind = "none" THEN flag ELSE kind = mine

\* Whether the next field that is loaded draws outfits.
MayRedress(free) == randomizedCombatOutfit' = free

\* FUN_003735d8Hook: the player and an enemy of the field meet.
Contact(kind) ==
  /\ OnField /\ mode' = "starting"
  /\ isAmbush' = Flag(isAmbush, "ambush", kind)
  /\ isAmbushed' = Flag(isAmbushed, "ambushed", kind)
  /\ MayRedress(FALSE)
  /\ owed' = (IF kind = "none" THEN owed ELSE kind) /\ byContact' = TRUE
  /\ UNCHANGED <<config, life, bgm, rounds, loss, currentActingUnit, slots>>

\* External: a script, an event or the console calls an encounter.
CallEncounter ==
  /\ OnField /\ mode' = "starting" /\ byContact' = FALSE
  /\ UNCHANGED <<config, life, music, rounds, loss, currentActingUnit, randomizedCombatOutfit, slots>>

CheckIsEncounterAmbush ==
  /\ mode = "starting" /\ MayRedress(FALSE)
  /\ UNCHANGED <<config, mode, life, music, rounds, loss, currentActingUnit, byContact, slots>>

\* LoadDLCBGM: with music for Joker's outfit (dlc) the contact is forgotten, unless
\* the configuration lets ambush themes win.
Forgotten(dlc) == dlc /\ ~config.ambushOverDLC

\* LoadDLCBGM when the game or EX_FORCE_LOAD_DLC_BGM calls it between encounters.
LoadDLCBGM(dlc) ==
  /\ ScriptsRun
  /\ isAmbush' = (isAmbush /\ ~Forgotten(dlc)) /\ isAmbushed' = (isAmbushed /\ ~Forgotten(dlc))
  /\ UNCHANGED <<config, mode, life, bgm, owed, rounds, loss, currentActingUnit, outfits, slots>>

\* The theme of an encounter, after LoadDLCBGM. lastSurprise: its music would be
\* the game's usual one.
Theme(lastSurprise, dlc) ==
  IF ~config.enableExpandedBGM \/ ~lastSurprise \/ Forgotten(dlc) THEN "own"
  ELSE IF isAmbush THEN "ambush"
  ELSE IF isAmbushed /\ config.ambushOverDLC THEN "ambushed" ELSE "own"

\* challenge rounds that go on in the next encounter
RoundsGoOn == splash' = "plain" /\ UNCHANGED <<isRound3, isChallengeBtl>>

RoundsReset == splash' = "plain" /\ isRound3' = FALSE /\ isChallengeBtl' = FALSE

\* a request that holds for the encounters after it
StillPrevented == asked' = FALSE /\ UNCHANGED isPreventGameOver

NotPrevented == asked' = FALSE /\ isPreventGameOver' = FALSE

\* SetUpEncounterFlagsHook, whose PrepareDLCBGM is the game's call of LoadDLCBGM.
SetUpEncounterFlags(lastSurprise, dlc) ==
  LET theme == Theme(lastSurprise, dlc)
  IN  /\ mode = "starting" /\ mode' = "fighting"
      /\ NotPrevented /\ currentActingUnit' = NoUnit /\ RoundsReset
      /\ bgm' = theme
      /\ isAmbush' = (isAmbush /\ ~Forgotten(dlc) /\ theme # "ambush")
      /\ isAmbushed' = (isAmbushed /\ ~Forgotten(dlc) /\ theme # "ambushed")
      /\ owed' = (IF theme = "own" THEN owed ELSE "none")
      /\ foes' \in 1..MaxFoes
      /\ UNCHANGED <<config, down, jokerHP, jokerAilment, outfits, slots>>

-----------------------------------------------------------------------------
(* The battle                                                              *)

EX_PREVENT_PLAYER_LOSS ==
  /\ ScriptsRun
  /\ isPreventGameOver' = TRUE /\ asked' = TRUE
  /\ UNCHANGED <<config, mode, life, music, rounds, currentActingUnit, outfits, slots>>

EX_SET_CHALLENGE_BATTLE ==
  /\ ScriptsRun
  /\ isChallengeBtl' = TRUE
  /\ UNCHANGED <<config, mode, life, music, isRound3, splash, loss, currentActingUnit, outfits, slots>>

\* LoadEPLHook, for the effect that appears when enemies do
LoadEPL ==
  /\ mode = "fighting"
  /\ IF ~isChallengeBtl THEN splash' = "plain" /\ UNCHANGED <<isRound3, isChallengeBtl>>
     ELSE IF isRound3
     THEN splash' = "round3" /\ isRound3' = FALSE /\ isChallengeBtl' = FALSE
     ELSE splash' = "round2" /\ isRound3' = TRUE /\ UNCHANGED isChallengeBtl
  /\ UNCHANGED <<config, mode, life, music, loss, currentActingUnit, outfits, slots>>

\* FUN_006c9c60Hook: a unit's turn
StartTurn(u) ==
  /\ mode = "fighting"
  /\ u = Foe \/ (u \in Members(slots) /\ ~isPlayerUnitDead(u))
  /\ currentActingUnit' = u
  /\ UNCHANGED <<config, mode, life, music, rounds, loss, outfits, slots>>

\* FUN_00b00cc8Hook, FUN_00afdd78Hook, FUN_00afddb8Hook: an all-out attack, a jump back
LeaveStage ==
  /\ mode = "fighting" /\ currentActingUnit' = NoUnit
  /\ UNCHANGED <<config, mode, life, music, rounds, loss, outfits, slots>>

\* External: what a unit does fells others, one or more before the game asks
\* whether the battle is over.
Fall(u) ==
  /\ mode \in {"fighting", "checking"} /\ mode' = "checking"
  /\ \/ u = Foe /\ foes > 0 /\ foes' = foes - 1 /\ UNCHANGED <<down, jokerHP, jokerAilment>>
     \/ u = Joker /\ ~JokerDown /\ jokerHP' = 0 /\ jokerAilment' = TRUE /\ UNCHANGED <<foes, down>>
     \/ /\ u \in Members(slots) \ ({Joker} \cup down) /\ down' = down \cup {u}
        /\ UNCHANGED <<foes, jokerHP, jokerAilment>>
  /\ UNCHANGED <<config, music, rounds, loss, currentActingUnit, outfits, slots>>

\* External: a unit is revived.
Rise(u) ==
  /\ mode = "fighting" /\ isPlayerUnitDead(u)
  /\ IF u = Joker THEN jokerHP' = 2 /\ jokerAilment' = FALSE /\ UNCHANGED down
                  ELSE down' = down \ {u} /\ UNCHANGED <<jokerHP, jokerAilment>>
  /\ UNCHANGED <<config, mode, foes, music, rounds, loss, currentActingUnit, outfits, slots>>

-----------------------------------------------------------------------------
(* Its end                                                                 *)

\* External: what FUN_006a75c4 answers in the game, where Joker's fall is a defeat.
OriginalIsOver(jokerDown) == jokerDown \/ foes = 0

\* HP 1 and no Dead ailment
StandUp == jokerHP' = 1 /\ jokerAilment' = FALSE

\* a question that takes every fallen Joker for spared
SparedAlone == config.PreventJokerGameOver /\ JokerDown

\* The battle goes on without Joker.
Spared == config.PreventJokerGameOver /\ JokerDown /\ SomeMateStands

IsOver == IF Spared THEN foes = 0 ELSE OriginalIsOver(JokerDown)

\* FUN_006a75c4Hook: is the battle over? Without enemies it has to be, so that
\* Joker stands up for the original.
FUN_006a75c4Hook ==
  /\ mode = "checking"
  /\ mode' = (IF IsOver THEN "over" ELSE "fighting")
  /\ IF Spared /\ foes = 0 THEN StandUp ELSE UNCHANGED <<jokerHP, jokerAilment>>
  /\ UNCHANGED <<config, foes, down, music, rounds, loss, currentActingUnit, outfits, slots>>

\* CheckAllPartyMembersDead, which looks at the first slot: is it a game over?
CheckAllPartyMembersDead ==
  /\ mode = "over"
  /\ mode' = IF isPlayerUnitDead(slots[0]) /\ ~isPreventGameOver THEN "gameover" ELSE "ending"
  /\ UNCHANGED <<config, life, music, rounds, loss, currentActingUnit, outfits, slots>>

\* FUN_00650700Hook: the player escapes.
Escape ==
  /\ mode = "fighting" /\ mode' = "ending"
  /\ currentActingUnit' = Joker
  /\ IF JokerDown /\ config.PreventJokerGameOver THEN StandUp ELSE UNCHANGED <<jokerHP, jokerAilment>>
  /\ UNCHANGED <<config, foes, down, music, rounds, loss, outfits, slots>>

\* setBgmHook with the music of the victory screen
VictoryMusic ==
  /\ mode = "ending" /\ foes = 0
  /\ MayRedress(TRUE) /\ currentActingUnit' = Joker
  /\ UNCHANGED <<config, mode, life, music, rounds, loss, byContact, slots>>

ActorLeaves == currentActingUnit' = NoUnit

\* the end of a battle as it is without a request
HPAsFallen == jokerHP

\* A defeat that was prevented leaves Joker with 1 HP.
HPAfterBattle == IF jokerHP = 0 /\ isPreventGameOver THEN 1 ELSE jokerHP

\* BattleEndSkillChecks. Its original, the game's own end, stands the mates up and
\* may or may not take the Dead ailment from Joker (external).
BattleEndSkillChecks ==
  /\ mode = "ending" /\ mode' = "field"
  /\ MayRedress(TRUE) /\ ActorLeaves
  /\ jokerHP' = HPAfterBattle
  /\ jokerAilment' \in {jokerAilment, FALSE}
  /\ down' = {} /\ foes' = 0 /\ bgm' = "own"
  /\ UNCHANGED <<config, isAmbush, isAmbushed, owed, rounds, loss, byContact, slots>>

\* External: after a game over a save is loaded. No hook runs.
LoadSave ==
  /\ mode = "gameover" /\ mode' = "loaded"
  /\ jokerHP' = 2 /\ jokerAilment' = FALSE /\ down' = {} /\ foes' = 0 /\ bgm' = "own"
  /\ UNCHANGED <<config, isAmbush, isAmbushed, owed, rounds, loss, currentActingUnit, outfits, slots>>

\* The console runs between frames; a battle that is found over ends in the frame.
Console == /\ mode # "over" /\ PartyNext
           /\ UNCHANGED <<config, mode, life, music, rounds, loss, currentActingUnit, outfits>>

Next ==
  \/ \E kind \in Kind : Contact(kind)
  \/ CallEncounter \/ CheckIsEncounterAmbush
  \/ \E dlc \in BOOLEAN : LoadDLCBGM(dlc)
  \/ \E lastSurprise, dlc \in BOOLEAN : SetUpEncounterFlags(lastSurprise, dlc)
  \/ EX_PREVENT_PLAYER_LOSS \/ EX_SET_CHALLENGE_BATTLE \/ LoadEPL
  \/ \E u \in Members(slots) \cup {Foe} : StartTurn(u) \/ Fall(u)
  \/ LeaveStage
  \/ \E u \in Members(slots) : Rise(u)
  \/ FUN_006a75c4Hook \/ CheckAllPartyMembersDead
  \/ Escape \/ VictoryMusic \/ BattleEndSkillChecks \/ LoadSave
  \/ Console

Spec == Init /\ [][Next]_vars

-----------------------------------------------------------------------------
\* Types.
TypeOK ==
  /\ PartyTypeOK
  /\ config \in Configs /\ mode \in Place
  /\ foes \in 0..MaxFoes /\ down \subseteq Unit /\ jokerHP \in 0..2 /\ jokerAilment \in BOOLEAN
  /\ isAmbush \in BOOLEAN /\ isAmbushed \in BOOLEAN /\ bgm \in {"own", "ambush", "ambushed"}
  /\ isChallengeBtl \in BOOLEAN /\ isRound3 \in BOOLEAN /\ splash \in {"plain", "round2", "round3"}
  /\ isPreventGameOver \in BOOLEAN /\ asked \in BOOLEAN
  /\ currentActingUnit \in Unit \cup {Foe}
  /\ randomizedCombatOutfit \in BOOLEAN /\ owed \in Kind /\ byContact \in BOOLEAN

\* A theme is played for the last contact that called for one, and only once: not
\* for an earlier one of the other kind, and not again in the next encounter.
ThemeIsOwed ==
  [][\A l, d \in BOOLEAN : SetUpEncounterFlags(l, d) => bgm' \in {"own", owed}]_vars

\* The music of an outfit gives way to the theme of a contact only where the
\* configuration says so, also when the outfit changed after an earlier contact.
OutfitMusicKept ==
  [][\A l \in BOOLEAN : SetUpEncounterFlags(l, TRUE) /\ bgm' # "own" => config.ambushOverDLC]_vars

\* From a contact on the field until the victory or the end no field that is
\* loaded draws new outfits, whatever encounters ended how before.
OutfitsKept ==
  byContact /\ mode \in {"starting", "fighting", "checking", "over"} => ~randomizedCombatOutfit

\* The splash of the third round comes right after the second's, in one encounter.
RoundsInOrder == [][splash' = "round3" => splash \in {"round2", "round3"}]_vars

\* A script's request holds for the encounter it is made in: a defeat after it is
\* no game over, and one in a later encounter is, even after a victory or a loaded
\* save in between.
PreventedWhereAsked ==
  [][CheckAllPartyMembersDead => (mode' = "gameover" <=> JokerDown /\ ~asked)]_vars

\* With PreventJokerGameOver the game is over only when nobody in the party stands,
\* and the battle goes on only when somebody does.
OverWhenAllAreDown ==
  [][config.PreventJokerGameOver =>
       /\ CheckAllPartyMembersDead /\ mode' = "gameover" => \A i \in Slot : isPlayerUnitDead(slots[i])
       /\ FUN_006a75c4Hook /\ mode' = "fighting" => \E i \in Slot : ~isPlayerUnitDead(slots[i])]_vars

\* Joker never returns to the field with 0 HP, by whichever of victory, escape and
\* prevented defeat the battle ends.
JokerWalksAway == mode = "field" => jokerHP > 0

\* After a battle that did not end in a game over no colour is taken from a unit
\* of it, whose structure is gone.
NoActorAfterBattle == mode = "field" => currentActingUnit = NoUnit

\* The music of an encounter is chosen by its own contact and the configuration.
ContactMusic == ThemeIsOwed /\ OutfitMusicKept

\* What an encounter has changed ends with it: outfits may be drawn again after it
\* and not before, no unit of it is left, and Joker is up.
EncounterEnds == TypeOK /\ OutfitsKept /\ NoActorAfterBattle /\ JokerWalksAway
=============================================================================
