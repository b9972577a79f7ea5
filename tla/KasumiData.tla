------------------------------ MODULE KasumiData ------------------------------
(***************************************************************************)
(* Kasumi (unit 10) in the save and in battle.  The game's saves have no   *)
(* room for her: prx/modules/p5/p5.c keeps her data in three of the four   *)
(* stock personas of Futaba (unit 8), who has none, when a save is written  *)
(* and takes it back when one is read.  prx/modules/p5/kasumi/kasumi.c     *)
(* gives her a first equipment and replaces the counting of bullets.       *)
(* All fields have the width of the place they are kept in.                *)
(***************************************************************************)
EXTENDS Integers, FiniteSets

CONSTANTS
    Versions,    \* values of a field other than the one it has at first
    Files,       \* save files
    Shots        \* changes of the number of bullets

ASSUME DataAssumption == 0 \notin Versions /\ Versions # {} /\ Shots \subseteq Int

VARIABLES
    kasumi,      \* her fields
    futaba,      \* stock persona and field of it -> what it holds
    files,       \* futaba, as the save files have it
    atSave,      \* ghost: kasumi when each file was written
    restored,    \* ghost: the file that was read last, if nothing came after it
    bullets, boost   \* numOfBullets of a unit, IsConfidantBonusObtained(165)

dataVars == <<kasumi, futaba, files, atSave, restored, bullets, boost>>

NoFile == "none"
Halfword == 65536     \* a bullet count is kept in 16 bits

(* WriteKasumiData, by the field of Kasumi that is kept.  Her persona is kept
   field by field in the persona of the same shape. *)
WrittenTo ==
    [Field06        |-> <<1, "personaID">>,   Field1A       |-> <<1, "_x6">>,
     currentHP      |-> <<1, "personaExp">>,  currentSP     |-> <<1, "_x2C">>,
     Field42        |-> <<1, "SkillID0">>,    meleeID       |-> <<1, "SkillID1">>,
     protectorID    |-> <<1, "SkillID2">>,    accessoryID   |-> <<1, "SkillID3">>,
     outfitID       |-> <<1, "SkillID4">>,    rangedWeaponID |-> <<1, "SkillID5">>,
     TacticsState   |-> <<2, "SkillID0">>,    Field29A      |-> <<2, "SkillID1">>,
     HPGainNextLv   |-> <<2, "SkillID2">>,    SPGainNextLv  |-> <<2, "SkillID3">>,
     Field28E       |-> <<2, "personaExp">>,  Field296      |-> <<2, "_x2C">>,
     persona        |-> <<3, "rest">>,        personaID     |-> <<3, "personaID">>]

\* HP from where the level's experience is
TakenAcross ==
    [f \in DOMAIN WrittenTo |->
        IF f = "currentHP" THEN WrittenTo["Field28E"] ELSE WrittenTo[f]]

\* ReadKasumiData.
TakenFrom ==
    [Field06        |-> <<1, "personaID">>,   Field1A       |-> <<1, "_x6">>,
     Field42        |-> <<1, "SkillID0">>,    meleeID       |-> <<1, "SkillID1">>,
     protectorID    |-> <<1, "SkillID2">>,    accessoryID   |-> <<1, "SkillID3">>,
     outfitID       |-> <<1, "SkillID4">>,    rangedWeaponID |-> <<1, "SkillID5">>,
     TacticsState   |-> <<2, "SkillID0">>,    Field29A      |-> <<2, "SkillID1">>,
     HPGainNextLv   |-> <<2, "SkillID2">>,    SPGainNextLv  |-> <<2, "SkillID3">>,
     Field28E       |-> <<2, "personaExp">>,  Field296      |-> <<2, "_x2C">>,
     persona        |-> <<3, "rest">>,        personaID     |-> <<3, "personaID">>,
     currentHP      |-> <<1, "personaExp">>,  currentSP     |-> <<1, "_x2C">>]

Kept == DOMAIN WrittenTo
Slots == {WrittenTo[f] : f \in Kept}
Empty == [s \in Slots |-> 0]
Newborn == [f \in Kept |-> 0]
------------------------------------------------------------------------------
\* FUN_0060dd98Hook: the data are put away, then the game writes the file.
Save(file) ==
    /\ futaba' = [s \in Slots |-> kasumi[CHOOSE f \in Kept : WrittenTo[f] = s]]
    /\ files' = [files EXCEPT ![file] = futaba']
    /\ atSave' = [atSave EXCEPT ![file] = kasumi]
    /\ UNCHANGED <<kasumi, restored, bullets, boost>>

(* FUN_0034e128Hook: the game reads the file, then the data are taken back.  A
   file without her persona is of a game without the mod: it says nothing. *)
Load(file) ==
    /\ futaba' = files[file]
    /\ kasumi' = IF futaba'[<<3, "personaID">>] = 0 THEN kasumi
                 ELSE [f \in Kept |-> futaba'[TakenFrom[f]]]
    /\ restored' = IF futaba'[<<3, "personaID">>] = 0 THEN NoFile ELSE file
    /\ UNCHANGED <<files, atSave, bullets, boost>>

\* The game is played: some of her fields get new values.
Play ==
    /\ \E v \in Versions :
           kasumi' \in { [kasumi EXCEPT !.currentHP = v],
                         [kasumi EXCEPT !.meleeID = v, !.accessoryID = 0],
                         [f \in Kept |-> v] }
    /\ restored' = NoFile
    /\ UNCHANGED <<futaba, files, atSave, bullets, boost>>

\* The console is switched off and on: the files are all that is left.
Restart ==
    /\ kasumi' = Newborn /\ futaba' = Empty
    /\ restored' = NoFile
    /\ bullets' = 0 /\ boost' = FALSE
    /\ UNCHANGED <<files, atSave>>
------------------------------------------------------------------------------
(* Bullets of a unit, here the largest magazine (12, or 24). *)
GetMaxBullets == IF boost THEN 24 ELSE 12

SetBulletsToMax ==
    /\ bullets' = GetMaxBullets
    /\ UNCHANGED <<kasumi, futaba, files, atSave, restored, boost>>

(* The sum is compared as an unsigned word, and kept as a halfword, whatever
   the comparison said. *)
SetBullets(targetBullets) ==
    /\ bullets' = (bullets + targetBullets) % Halfword
    /\ UNCHANGED <<kasumi, futaba, files, atSave, restored, boost>>

Befriend ==
    /\ ~boost /\ boost' = TRUE
    /\ UNCHANGED <<kasumi, futaba, files, atSave, restored, bullets>>

\* The game shoots what there is; what it gives back may be more than there is
\* room for, which SetBullets is there to prevent.
Shoot == \E n \in Shots : n < 0 /\ bullets + n >= 0 /\ SetBullets(n)
Reload == \E n \in Shots : n > 0 /\ bullets < GetMaxBullets /\ SetBullets(n)
------------------------------------------------------------------------------
DataInit ==
    /\ kasumi = Newborn /\ futaba = Empty
    /\ files = [f \in Files |-> Empty] /\ atSave = [f \in Files |-> Newborn]
    /\ restored = NoFile
    /\ bullets = 0 /\ boost = FALSE

DataNext ==
    \/ \E file \in Files : Save(file) \/ Load(file)
    \/ Play \/ Restart
    \/ SetBulletsToMax \/ Befriend \/ Shoot \/ Reload

DataSpec == DataInit /\ [][DataNext]_dataVars
------------------------------------------------------------------------------
\* Types of all variables.
DataTypeOK ==
    /\ kasumi \in [Kept -> Versions \cup {0}]
    /\ futaba \in [Slots -> Versions \cup {0}]
    /\ files \in [Files -> [Slots -> Versions \cup {0}]]
    /\ atSave \in [Files -> [Kept -> Versions \cup {0}]]
    /\ restored \in Files \cup {NoFile}
    /\ bullets \in 0..(Halfword - 1) /\ boost \in BOOLEAN

(* She is after loading what she was when the file was saved, field by field,
   whatever was played and loaded in between and across a restart: every field
   has a place of its own, and comes back from where it went. *)
KasumiSurvives == restored # NoFile => kasumi = atSave[restored]

(* kasumi.c:1912: "prevent going over max". *)
BulletsWithinMax == bullets <= GetMaxBullets

(* Kasumi's data, types and contents, over saves, loads and restarts. *)
DataSurvives == DataTypeOK /\ KasumiSurvives
===============================================================================
