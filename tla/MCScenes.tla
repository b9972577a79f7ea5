------------------------------ MODULE MCScenes ------------------------------
(* What the game's modules add to its scenes, one part after the other: the  *)
(* menus of the party, shops, the calendar and the confidants, models and    *)
(* music, the navigator, Kasumi's data, enemies that are scripted, Akechi's  *)
(* looks, the tables, the abilities, the growth of members, the files of the *)
(* navigators and the orders of scripts. The title's music is drawn first,   *)
(* when p5e starts. A behaviour is then one part's; the others stay as they  *)
(* begin.                                                                    *)
EXTENDS Healing, Shop, Daily, Models, Navigator, KasumiData, Enemies, Looks, Tables,
        Abilities, Growth, Guides, Orders, TLC

VARIABLE part     \* rigid

menuVars == <<listVars, healVars>>
sceneVars == <<part, menuVars, shopVars, dailyVars, modelsVars, naviVars, dataVars,
               foeVars, lookVars, tableVars, abilityVars, growthVars, guideVars, orderVars>>

(* Parties of eight, with a gap before the end of the list, and of three;     *)
(* skills and items of each kind.                                             *)
AllSaves == {[game |-> (1..9) \ {3}, enableKasumi |-> TRUE, flag2138 |-> TRUE],
             [game |-> 1..3, enableKasumi |-> TRUE, flag2138 |-> FALSE]}
Skill(k, h, s) == [kind |-> k, hp |-> h, sp |-> s]
AllSkills == {Skill("one", 0, 1), Skill("all", 1, 0), Skill("escape", 1, 1)}

(* Shops with each currency, with two, and the one that buys clothes back.    *)
Good(i, p, n, s) == [id |-> i, price |-> p, itemsPerUnit |-> n, shops |-> s]
AllGoods == {Good(1, 1, 1, {72, 75, 76, 85, 1}), Good(2, 2, 3, {1, 76}),
             Good(4096 + 14, 1, 1, {UsedClothes})}

(* Icons: one that the game has, one of its own that it has not, two that     *)
(* stand for flags; the flags of both seasons.                                *)
AllAnswers == {[i \in {3, 10, 2704, 2671} |-> IF i = 3 THEN 1 ELSE 0]}
AllFlagSets == {{}, {4182, 1175, 3583, 2815}}

Setting(w, r, c, t, n) ==
    [midWinter |-> w, randomCombatOutfit |-> r, enableCutsceneOutfits |-> c,
     P5RTitleBGM |-> t, enableModCPK |-> n > 0, extraModCPK |-> n]
AllSettings == {Setting(FALSE, FALSE, FALSE, FALSE, 2), Setting(TRUE, FALSE, TRUE, TRUE, 0),
                Setting(FALSE, TRUE, TRUE, TRUE, 0), Setting(TRUE, TRUE, TRUE, FALSE, 0)}

(* Two ailments at once; Kasumi's own lines; others', with names and without. *)
Cast(k, f, n, a, d) ==
    [enableKasumi |-> k, fighters |-> f, named |-> n, ailments |-> a, curses |-> d]
AllCasts == {Cast(TRUE, {}, {}, {0, 11}, {}), Cast(TRUE, {10}, {1, 2, 9}, {11}, {"eva"}),
             Cast(FALSE, {1, 7, 10}, {7, 2, 9}, {}, {})}

AllShots == {-6, 12}
AllSummons == {<<300, 301, 0, 302>>, <<300, 301, 302, 303>>}

Option(a, c, r) == [enableAkechiMod |-> a, EnableCustomColors |-> c, EnableRandomColors |-> r]
AllOptions == {Option(TRUE, TRUE, FALSE), Option(FALSE, TRUE, TRUE),
               Option(FALSE, FALSE, FALSE)}
VoiceOf(s, a) == [silent |-> s, abc |-> a, voiceID |-> 9]
AllVoices == {VoiceOf(FALSE, 254), VoiceOf(FALSE, 255), VoiceOf(FALSE, 1), VoiceOf(TRUE, 254)}

(* Segments that are empty, shorter than their table, odd in length, as long    *)
(* and longer: over the next table, over one read before, over no table.  Fields*)
(* that are 0, and halves of them; rows that are not there are looked up too.   *)
AllCapacity == [unit |-> <<8, 16, 12, 8, 16>>, elsai |-> <<20, 28>>, skill |-> <<16, 28>>]
AllPlaces == [unit |-> <<0, 8, 48, 24, 32>>, elsai |-> <<28, 0>>, skill |-> <<0, 18>>]
TableFile(p, l, z) == [parser |-> p, lengths |-> l, zeros |-> z]
SomeZeros == {n \in 0..200 : n % 6 \in {2, 3} \/ n % 16 = 5}
AllTableFiles ==
    {TableFile("unit", l, SomeZeros) :
         l \in {<<8, 16, 12, 5, 16>>, <<0, 4, 2, 5, 16>>, <<7, 14, 12, 8, 14>>,
               <<5, 16, 12, 8, 16>>, <<8, 13, 11, 8, 13>>, <<6, 16, 7, 5, 16>>,
               <<8, 16, 12, 13, 16>>, <<8, 26, 12, 5, 5>>, <<8, 16, 20, 12, 0>>,
               <<40, 4, 12, 8, 7>>, <<8, 16, 12, 5, 28>>, <<10, 16, 12, 8, 21>>}}
    \cup {TableFile("elsai", <<a, b>>, {8, 9}) : a \in {0, 12, 20, 27}, b \in {24, 27, 28, 36}}
    \cup {TableFile("skill", <<a, 28>>, {8, 9}) : a \in {10, 12, 16, 19, 25}}
AllUnitIDs == {0, 1, 3, 4, -1}

(* Every bonus that is asked for, but only those of the blows that are        *)
(* endured stay while the game goes on.                                       *)
AllBonuses ==
    ({17, 50} \cup {Own(p, a) : p \in Player, a \in Personal}
              \cup {s[2] : s \in Shared}) \ {NoBonus}
FewBonuses ==
    bonuses \subseteq {17, 50} \/ (Cardinality(bonuses) = 1 /\ encounter = 0
                                      /\ ActiveGlobalSkillSlot = 0)

(* Twins, one of which has been disturbed at most, or else Joker or a member. *)
AllWords == {{}, {5, 20}}
Twins == [u \in 11..12 |-> 200]
AllStates == {-2, 0, 2}
OneDisturbed == Cardinality({u \in AnyUnit : Flags[u] # {} \/ TacticsState[u] # 0}) <= 1

(* A member who learns skills with its first persona and with the next one,   *)
(* at levels that fights reach and at others; each set of text files.         *)
RyujiGain == [p \in {202, 212} |-> [i \in 0..97 |-> [j \in 0..4 |-> ((i * (j + 1)) + (p % 7)) % 5]]]
Threshold == [i \in 0..97 |-> (i + 2) * (i + 2) * 10]
FirstStats == [j \in 0..5 |-> IF j = 5 THEN 0 ELSE j + 2]
Entry(l, s) == [LvReq |-> l, canLearn |-> TRUE, skillID |-> s]
RyujiSkills == 202 :> <<Entry(0, 10), Entry(0, 11), Entry(4, 12), Entry(98, 13)>>
               @@ 212 :> <<Entry(0, 20), Entry(5, 21), Entry(0, 0)>>
AllInstallations ==
    {[enableExternalNavi |-> e, readable |-> r] : e \in BOOLEAN, r \in {{3, 8, 9}, {3, 8}}}
------------------------------------------------------------------------------
Parts == {"menus", "shop", "daily", "models", "navigator", "data", "foes", "looks",
          "tables", "abilities", "growth", "guides", "orders"}

\* What there are several choices for at first is fixed unless it is the part.
Pin(p, condition) == part = p \/ condition

MCInit ==
    /\ part \in Parts
    /\ HealInit /\ Pin("menus", ~save.flag2138 /\ freeHP = 0 /\ freeSP = 0)
    /\ ShopInit
    /\ DailyInit /\ Pin("daily", /\ ~announceWeekday /\ flags = {} /\ active = {}
                                 /\ day = 229 /\ count321 = 0)
                 /\ (active # {} => day = 237)      \* confidants have no weekday
    /\ ModelsInit /\ Pin("models", settings = Setting(FALSE, FALSE, FALSE, FALSE, 2)
                                       /\ seed = 202715204)
    /\ NaviInit /\ Pin("navigator", ~cast.enableKasumi)
    /\ DataInit
    /\ FoesInit /\ Pin("foes", ~rules.enablePersonaEnemies /\ ~rules.enableAkechiMod)
    /\ LooksInit /\ Pin("looks", option = Option(FALSE, FALSE, FALSE) /\ persona = 209)
    /\ TablesInit /\ Pin("tables", tableFile = TableFile("skill", <<16, 28>>, {8, 9}))
    /\ AbilitiesInit /\ Pin("abilities", ~AutoUnlockBatonPass)
    /\ GrowthInit
    /\ GuidesInit /\ Pin("guides", install.enableExternalNavi /\ Another \in install.readable)
    /\ OrdersInit /\ OneDisturbed

\* p5eInit, whichever part is played.
Drawing ==
    /\ drawing # Idle /\ Draw
    /\ UNCHANGED <<part, menuVars, shopVars, dailyVars, naviVars, dataVars, foeVars, lookVars,
                   tableVars, abilityVars, growthVars, guideVars, orderVars>>

Playing(p) == part = p /\ drawing = Idle /\ UNCHANGED part
Resting(p, variables) == IF part = p THEN TRUE ELSE UNCHANGED variables

MCNext ==
    \/ Drawing
    \/ /\ \/ Playing("menus") /\ HealNext
          \/ Playing("shop") /\ ShopNext
          \/ Playing("daily") /\ DailyNext
          \/ Playing("models") /\ ModelsNext
          \/ Playing("navigator") /\ NaviNext
          \/ Playing("data") /\ DataNext
          \/ Playing("foes") /\ FoesNext
          \/ Playing("looks") /\ LooksNext
          \/ Playing("tables") /\ TablesNext
          \/ Playing("abilities") /\ AbilitiesNext /\ FewBonuses'
          \/ Playing("growth") /\ GrowthNext
          \/ Playing("guides") /\ GuidesNext
          \/ Playing("orders") /\ OrdersNext /\ OneDisturbed'
       /\ Resting("menus", menuVars) /\ Resting("shop", shopVars)
       /\ Resting("daily", dailyVars) /\ Resting("models", modelsVars)
       /\ Resting("navigator", naviVars) /\ Resting("data", dataVars)
       /\ Resting("foes", foeVars) /\ Resting("looks", lookVars)
       /\ Resting("tables", tableVars) /\ Resting("abilities", abilityVars)
       /\ Resting("growth", growthVars) /\ Resting("guides", guideVars)
       /\ Resting("orders", orderVars)

MCSpec == MCInit /\ [][MCNext]_sceneVars /\ WF_sceneVars(Drawing)
=============================================================================
