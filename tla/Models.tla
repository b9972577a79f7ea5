-------------------------------- MODULE Models --------------------------------
(***************************************************************************)
(* prx/modules/p5/p5e/p5e.c: the music and the models of the title screen, *)
(* the outfits the party fights in, the clothes of cutscenes, and the      *)
(* order of the mod's CPK archives.  When outfits may be drawn at all is   *)
(* a matter of the battles (Battle).                                       *)
(***************************************************************************)
EXTENDS Random, Sequences, FiniteSets

CONSTANTS
    Seeds,       \* ticks at start, and so the random numbers
    Outfits,     \* model IDs of outfits a member can wear in combat
    Dresses,     \* model IDs asked for in cutscenes
    Wardrobe,    \* the members who change clothes
    Settings     \* configurations, and whether it is mid-winter

ASSUME ModelsAssumption ==
    /\ Seeds \subseteq 1..(RANDOM_MAX - 1)
    /\ Outfits \subseteq Nat /\ Dresses \subseteq Nat /\ Wardrobe \subseteq 1..10
    /\ \A c \in Settings : c.extraModCPK \in Nat

VARIABLES
    settings,        \* one of Settings (rigid)
    seed,
    titleScreenBGM,
    drawing,         \* the value to get away from, or -1 outside the loop
    music,           \* music of the title screen, 0 while there is none
    titleModel,      \* Joker's model on the title screen, or -1
    gear,            \* GearEffect[0] of the members' outfits
    loaded,          \* the last human model that was loaded
    priority         \* of the archives that are bound, by their number

modelsVars == <<settings, seed, titleScreenBGM, drawing, music, titleModel,
                gear, loaded, priority>>
title == <<titleScreenBGM, drawing, music, titleModel>>

Idle == -1
Loop == 0..2                       \* P5, P5R, P5S
Nobody == [characterID |-> 0, modelID |-> 0]
Units == 1..10

\* What stands in front of, in and behind the list of a unit's models.
Stray == 9999
From(lo, hi) == [i \in 1..(hi - lo + 1) |-> lo + i - 1]
ModelIDs ==
    << <<51, 52, 66, 67, 71, 72>> \o From(151, 177),                      \* Joker
       <<51>> \o From(151, 156) \o From(158, 177),
       <<51>> \o From(158, 177),
       <<51, 72, 103, 74, 83>> \o From(151, 156) \o From(158, 177),
       <<51>> \o From(151, 154) \o <<156>> \o From(158, 177),
       <<51, 83>> \o From(151, 156) \o From(158, 177),
       <<51>> \o From(151, 156) \o From(158, 177),
       <<51, 153, 154, 156, 157>> \o From(158, 177) \o <<180>>,
       <<51>> \o From(151, 154) \o From(158, 177) \o <<180>>,
       <<5, 6, 51>> \o From(151, 156) \o From(158, 170) \o From(172, 176)
           \o From(21, 26) \o <<71, 74, 79, 81, 83, 84>> >>               \* Violet

\* The bound each draw is made with; Violet's is her list's length.
LastIndex(u) == IF u = 10 THEN 39 ELSE Len(ModelIDs[u]) - 1
ModelAt(u, index) ==
    IF index < Len(ModelIDs[u]) THEN ModelIDs[u][index + 1] ELSE Stray
------------------------------------------------------------------------------
(* RandomizeTitleScreenBGM, one draw at a time. *)
Draw ==
    /\ drawing # Idle
    /\ seed' = randomInt(seed)
    /\ titleScreenBGM' = DrawFrom(seed', 2)
    /\ drawing' = IF titleScreenBGM' = drawing THEN drawing ELSE Idle
    /\ UNCHANGED <<settings, music, titleModel, gear, loaded, priority>>

\* The music a title screen gets: 901 and 970 are added by the mod.
BGMOfTitle(t) == CASE t = 1 -> 901 [] t = 2 -> 970 [] OTHER -> 101

RoyalTitle == settings.P5RTitleBGM

\* setBgmHook with music 101 in sequence 1.
setBgmTitle ==
    /\ drawing = Idle /\ music = 0
    /\ music' = IF RoyalTitle THEN BGMOfTitle(titleScreenBGM) ELSE 101
    /\ loaded' = Nobody                  \* the screen starts afresh
    /\ drawing' = IF RoyalTitle /\ titleScreenBGM \in Loop
                  THEN titleScreenBGM ELSE Idle
    /\ UNCHANGED <<settings, seed, titleScreenBGM, titleModel, gear, priority>>

\* the setting is looked at for the music only
ModelWhateverSet == titleScreenBGM

\* Model 49 of Joker: GenericCharacterModelLoaderHook.
ModelOfTitle == IF RoyalTitle THEN titleScreenBGM ELSE 0

LoadTitleModel ==
    /\ drawing = Idle /\ music = 0
    /\ titleModel' = ModelOfTitle
    /\ UNCHANGED <<settings, seed, titleScreenBGM, drawing, music, gear, loaded,
                   priority>>

\* Back on the title screen after a game.
LeaveTitle ==
    /\ drawing = Idle /\ music # 0
    /\ music' = 0 /\ titleModel' = Idle
    /\ UNCHANGED <<settings, seed, titleScreenBGM, drawing, gear, loaded, priority>>
------------------------------------------------------------------------------
(* FUN_000bee20Hook: a field is loaded, and everybody gets dressed. *)
SeedsFrom(s) ==
    LET f[u \in 0..10] == IF u = 0 THEN s ELSE randomInt(f[u - 1])
    IN  f

LoadField ==
    /\ drawing = Idle /\ music = 0 /\ settings.randomCombatOutfit
    /\ LET f == SeedsFrom(seed)
       IN  /\ seed' = f[10]
           /\ gear' = [u \in Units |-> ModelAt(u, DrawFrom(f[u], LastIndex(u)))]
    /\ UNCHANGED <<settings, title, loaded, priority>>

\* Someone changes clothes in the menu; the table is the game's otherwise.
WearOutfit(u, outfit) ==
    /\ drawing = Idle /\ music = 0 /\ ~settings.randomCombatOutfit
    /\ gear' = [gear EXCEPT ![u] = outfit]
    /\ UNCHANGED <<settings, seed, title, loaded, priority>>

\* What the outfit's entry says is the model, unless it says nothing.
GetCombatModelMinorIDFromOutfit(unitID, result) ==
    IF unitID \in Units /\ gear[unitID] # 0 THEN gear[unitID] ELSE result

\* charModelReplacementTableEntry.
Replaced ==
    << {51, 52, 81, 103, 113}, {51, 81, 103, 106}, {51, 61, 81, 101},
       {51, 81, 106, 107}, {51, 81, 103, 106}, {51, 81, 104, 107},
       {51, 81, 102, 10}, {51, 81, 102, 106}, {51, 52, 81, 102, 104},
       {51, 102, 106, 107} >>

WithOutfit(characterID, modelID) ==
    LET outfit == GetCombatModelMinorIDFromOutfit(characterID, 51)
    IN  IF /\ characterID \in Units /\ settings.enableCutsceneOutfits
           /\ modelID \in Replaced[characterID] /\ outfit # 51
        THEN outfit ELSE modelID

WithCoat(characterID, modelID) ==
    IF ~settings.midWinter THEN modelID
    ELSE CASE characterID \in Units \cup {1011, 1003} /\ modelID = 2 -> 5
           [] characterID \in Units \cup {1011, 1003} /\ modelID = 4 -> 6
           [] characterID = 2104 /\ modelID = 0                      -> 6
           [] OTHER                                                  -> modelID

\* GenericCharacterModelLoaderHook with model type 2 or 5: a human.
LoadHuman(characterID, modelID, darkAkechi) ==
    LET asked == IF characterID = 9 /\ modelID = 51 /\ darkAkechi THEN 52 ELSE modelID
    IN  /\ drawing = Idle /\ music = 0
        /\ loaded' = [characterID |-> characterID,
                      modelID |-> WithCoat(characterID,
                                           WithOutfit(characterID, asked))]
        /\ UNCHANGED <<settings, seed, title, gear, priority>>
------------------------------------------------------------------------------
\* With n extra archives, the mod's own first.
Priority(i, n) == IF i = 0 THEN 30 + n + 1 ELSE 30 + n - (i - 1)

(* criFs_InitializeHook: the mod's archive is number 0, the extra ones are
   numbered as they are named; binding one can fail. *)
BindCPKs ==
    /\ priority = <<>> /\ settings.enableModCPK
    /\ LET n == settings.extraModCPK
       IN  \E found \in SUBSET (0..n) :
               /\ found # {}
               /\ priority' = [i \in found |-> Priority(i, n)]
    /\ UNCHANGED <<settings, seed, title, gear, loaded>>
------------------------------------------------------------------------------
ModelsInit ==
    /\ settings \in Settings /\ seed \in Seeds
    /\ titleScreenBGM = 99 /\ drawing = 99      \* p5eInit
    /\ music = 0 /\ titleModel = Idle
    /\ gear = [u \in Units |-> 0] /\ loaded = Nobody /\ priority = <<>>

ModelsNext ==
    \/ Draw \/ setBgmTitle \/ LoadTitleModel \/ LeaveTitle \/ LoadField
    \/ \E u \in Wardrobe, outfit \in Outfits : WearOutfit(u, outfit)
    \/ \E c \in {1, 9, 1003, 2104}, d \in Dresses, dark \in BOOLEAN :
           LoadHuman(c, d, dark)
    \/ BindCPKs

ModelsSpec == ModelsInit /\ [][ModelsNext]_modelsVars /\ WF_modelsVars(Draw)
------------------------------------------------------------------------------
\* Types of all variables.
ModelsTypeOK ==
    /\ seed \in 0..(RANDOM_MAX - 1)
    /\ titleScreenBGM \in 0..3 \cup {99} /\ drawing \in Loop \cup {Idle, 99}
    /\ music \in {0, 101, 901, 970} /\ titleModel \in 0..3 \cup {Idle}
    /\ gear \in [Units -> Nat] /\ loaded.modelID \in Nat
    /\ \A i \in DOMAIN priority : priority[i] \in Nat

(* The title screen shows the game its music is from, wherever the loading of
   the model falls before the music, and whichever was drawn. *)
TitleMatchesMusic ==
    music # 0 /\ titleModel # Idle => music = BGMOfTitle(titleModel)

(* The loop that looks for other music ends, for the seeds at hand: it does
   not for 0, or in the cycle of 0x50000000, which draws 1 for ever. *)
MusicIsFound == (drawing # Idle) ~> (drawing = Idle)

(* In mid-winter nobody of the party is seen in what the rest of the year is
   worn, even where the outfit for combat replaces what was asked for. *)
NobodyFreezes ==
    settings.midWinter /\ loaded.characterID \in Units =>
        loaded.modelID \notin {2, 4}

(* Archives are searched in the order they are listed: the mod's own first,
   each extra one before the next, and every one of them before the game's,
   which stay at 30 or less; a missing one leaves no tie. *)
ArchivesInOrder ==
    \A i, j \in DOMAIN priority :
        /\ priority[i] > 30
        /\ i < j => priority[i] > priority[j]

(* random.h: "Generates a random signed integer between min (inclusive) and
   max (inclusive)": the music is one of the three there are. *)
DrawsInRange == titleScreenBGM \in Loop \cup {99}

(* What is loaded fits together: title and music, outfit and season, archives
   and their order. *)
ModelsFit == ModelsTypeOK /\ TitleMatchesMusic /\ NobodyFreezes /\ ArchivesInOrder
===============================================================================
