--------------------------------- MODULE Looks ---------------------------------
(***************************************************************************)
(* What members of the party look and sound like in battle:                *)
(* prx/modules/p5/dc/dc.c.  Akechi (unit 9) has a second costume, worn     *)
(* with every persona but the first, and a dozen hooks of the game's       *)
(* loaders that exchange his files have a copy each of the condition.  The *)
(* red copy of the model is painted in the colour of whoever acts, or in a *)
(* colour that runs round the wheel.                                       *)
(***************************************************************************)
EXTENDS Integers, FiniteSets

CONSTANTS
    Options,       \* configurations
    Personas,      \* personas that Akechi can have
    Voices,        \* enemies by what the table of voices says of them
    Actors,        \* players that take turns (0 is an enemy)
    Frames         \* frame counts that the drawing starts a turn with

ASSUME LooksAssumption ==
    /\ \A o \in Options : /\ o.enableAkechiMod \in BOOLEAN
                          /\ o.EnableCustomColors \in BOOLEAN
                          /\ o.EnableRandomColors \in BOOLEAN
    /\ Personas \subseteq Nat /\ Actors \subseteq 0..10 /\ Frames \subseteq 0..1440

VARIABLES
    option,             \* one of Options (rigid)
    persona,            \* GetEquippedPersonaFunction(9)
    inBattle,
    seen,               \* the looks of his files that were loaded for this battle
    currentActingUnit,  \* Nobody, 0 for an enemy, or a player
    FrameTiming,        \* modulo a turn of the wheel: 1440 frames
    colour              \* the colour that was returned last

lookVars == <<option, persona, inBattle, seen, currentActingUnit, FrameTiming,
              colour>>

Persona_RobinHood == 209
Akechi == 9
NoActor == -1
Wheel == 1440
------------------------------------------------------------------------------
(* The hooks of the loaders.  A file of Akechi comes in two looks; which one is
   loaded is each hook's own decision, with a condition of its own. *)
File(asset, look) == [asset |-> asset, look |-> look]
Light(file) == File(file, "light")
Darkened(file) == File(file, "dark")

LoadPartyPanelSPD(file) ==
    IF option.enableAkechiMod /\ file = "panel" /\ persona # Persona_RobinHood
    THEN Darkened(file) ELSE Light(file)

LoadBEDFileHook(file) ==
    IF \/ option.enableAkechiMod /\ file = "gun" /\ persona # Persona_RobinHood
       \/ option.enableAkechiMod /\ file = "skill416" /\ persona # Persona_RobinHood
    THEN Darkened(file) ELSE Light(file)

LoadCombatCutin(file) ==
    IF \/ option.enableAkechiMod /\ file = "cutin" /\ persona # Persona_RobinHood
       \/ option.enableAkechiMod /\ file = "allout" /\ persona # Persona_RobinHood
    THEN Darkened(file) ELSE Light(file)

Load2DUIDDS(file) ==
    IF \/ file = "wanted" /\ option.enableAkechiMod /\ persona # Persona_RobinHood
       \/ file = "chara" /\ option.enableAkechiMod /\ persona # Persona_RobinHood
    THEN Darkened(file) ELSE Light(file)

LoadBCDFunction(file) ==
    IF file = "goodbye" /\ option.enableAkechiMod /\ persona # Persona_RobinHood
    THEN Darkened(file) ELSE Light(file)

LoadPartyPanelPLG(file) ==
    IF file = "active" /\ option.enableAkechiMod /\ persona # Persona_RobinHood
    THEN Darkened(file) ELSE Light(file)

FUN_00927d50(file) ==
    IF file = "gap" /\ persona # Persona_RobinHood /\ option.enableAkechiMod
    THEN Darkened(file) ELSE Light(file)

FUN_3b9644(file) ==
    IF file = "expression" /\ persona # Persona_RobinHood /\ option.enableAkechiMod
    THEN Darkened(file) ELSE Light(file)

\* a copy of the condition that forgets the persona
LoadAnimationPackAnyway(file) ==
    IF file = "animation" /\ option.enableAkechiMod THEN Darkened(file) ELSE Light(file)

LoadAnimationPack(file) ==
    IF file = "animation" /\ option.enableAkechiMod /\ persona # Persona_RobinHood
    THEN Darkened(file) ELSE Light(file)

\* LoadPlayerCombatVoicePack: the pack of a player, bp09_01 for the dark look.
LoadPlayerCombatVoicePack(playerID) ==
    CASE playerID # Akechi -> Light("voice")
      [] playerID = Akechi /\ persona # Persona_RobinHood /\ option.enableAkechiMod ->
             Darkened("voice9")
      [] OTHER -> Light("voice9")

\* LoadGenericEnemyVoicePack: demons have none, a VoicePackABC of 0xFE stands for a
\* player's pack, with the condition once more, the others are the enemy's own.
PackOfPlayer(voiceID) ==
    CASE voiceID # Akechi -> Light("voice")
      [] voiceID = Akechi /\ persona # Persona_RobinHood /\ option.enableAkechiMod ->
             Darkened("voice9")
      [] OTHER -> Light("voice9")

LoadGenericEnemyVoicePack(enemy) ==
    CASE enemy.silent        -> Light("none")
      [] enemy.abc \in 0..2  -> Light("shadow")
      [] enemy.abc = 254     -> PackOfPlayer(enemy.voiceID)
      [] OTHER               -> Light("boss")     \* BlackMaskBossVoice

Loadable ==
    {LoadPartyPanelSPD("panel"), LoadBEDFileHook("gun"), LoadBEDFileHook("skill416"),
     LoadCombatCutin("cutin"), LoadCombatCutin("allout"), Load2DUIDDS("wanted"),
     Load2DUIDDS("chara"), LoadBCDFunction("goodbye"), LoadPartyPanelPLG("active"),
     FUN_00927d50("gap"), FUN_3b9644("expression"), LoadAnimationPack("animation"),
     LoadPlayerCombatVoicePack(Akechi)}
        \cup {LoadGenericEnemyVoicePack(e) : e \in Voices}

LoadFile ==
    /\ inBattle
    /\ \E f \in Loadable :
           seen' = IF f.asset \in {"none", "shadow", "boss", "voice"} THEN seen
                   ELSE seen \cup {f.look}
    /\ UNCHANGED <<option, persona, inBattle, currentActingUnit, FrameTiming, colour>>
------------------------------------------------------------------------------
\* FUN_00917934Hook: which colour, by the member.
ColourOf(u) ==
    CASE u = Akechi /\ persona = Persona_RobinHood -> "CrowColor1"
      [] u = Akechi /\ persona # Persona_RobinHood -> "CrowColor2"
      [] OTHER                                     -> "member"

Paint(name, red, green, blue) == [name |-> name, r |-> red, g |-> green, b |-> blue]
Unpainted == Paint("game", 0, 0, 0)

(* hsv2rgb with full saturation, one byte a colour: the hue in degrees falls
   into sectors of sixty; floats may cut a whole number to the one below. *)
Channel(k) == {(255 * k) \div 60} \cup
           (IF (255 * k) % 60 = 0 /\ k \in 1..59 THEN {(255 * k) \div 60 - 1} ELSE {})

hsv2rgb(h) ==
    LET k == h % 60
    IN  CASE h \div 60 = 0 -> {Paint("wheel", 255, t, 0) : t \in Channel(k)}
          [] h \div 60 = 1 -> {Paint("wheel", q, 255, 0) : q \in Channel(60 - k)}
          [] h \div 60 = 2 -> {Paint("wheel", 0, 255, t) : t \in Channel(k)}
          [] h \div 60 = 3 -> {Paint("wheel", 0, q, 255) : q \in Channel(60 - k)}
          [] h \div 60 = 4 -> {Paint("wheel", t, 0, 255) : t \in Channel(k)}
          [] OTHER         -> {Paint("wheel", 255, 0, q) : q \in Channel(60 - k)}

\* Only red and black are exchanged, and only for a player who acts.
AskColour(exchanged) ==
    /\ IF exchanged /\ currentActingUnit > 0 /\ option.EnableCustomColors
       THEN IF option.EnableRandomColors
            THEN /\ FrameTiming' = (FrameTiming + 1) % Wheel
                 /\ colour' \in hsv2rgb(FrameTiming' \div 4)
            ELSE /\ colour' = Paint(ColourOf(currentActingUnit), 0, 0, 0)
                 /\ UNCHANGED FrameTiming
       ELSE colour' = Unpainted /\ UNCHANGED FrameTiming
    /\ UNCHANGED <<option, persona, inBattle, seen, currentActingUnit>>

\* FUN_006c9c60Hook: somebody's turn begins, with a random hue.
TakeTurn(u) ==
    /\ inBattle
    /\ currentActingUnit' = u /\ FrameTiming' \in {f % Wheel : f \in Frames}
    /\ colour' = Unpainted                     \* nothing is painted yet
    /\ UNCHANGED <<option, persona, inBattle, seen>>

\* Jumping back and the all-out attack end a turn; FUN_00650700Hook and the
\* music of the victory make it Joker's.
NobodyActs ==
    /\ inBattle
    /\ currentActingUnit' = NoActor /\ colour' = Unpainted
    /\ UNCHANGED <<option, persona, inBattle, seen, FrameTiming>>

JokerActs ==
    /\ inBattle
    /\ currentActingUnit' = 1 /\ colour' = Unpainted
    /\ UNCHANGED <<option, persona, inBattle, seen, FrameTiming>>
------------------------------------------------------------------------------
LooksInit ==
    /\ option \in Options /\ persona \in Personas
    /\ inBattle = FALSE /\ seen = {}
    /\ currentActingUnit = NoActor /\ FrameTiming = 0 /\ colour = Unpainted

BeginBattle ==
    /\ ~inBattle
    /\ inBattle' = TRUE /\ seen' = {}
    /\ currentActingUnit' = NoActor /\ colour' = Unpainted
    /\ UNCHANGED <<option, persona, FrameTiming>>

\* Afterwards nobody acts, and the story may give Akechi another persona.
EndBattle ==
    /\ inBattle
    /\ inBattle' = FALSE /\ seen' = {}
    /\ currentActingUnit' = NoActor /\ colour' = Unpainted
    /\ persona' \in Personas
    /\ UNCHANGED <<option, FrameTiming>>

LooksNext ==
    \/ BeginBattle \/ EndBattle \/ LoadFile \/ NobodyActs \/ JokerActs
    \/ \E u \in Actors : TakeTurn(u)
    \/ \E exchanged \in BOOLEAN : AskColour(exchanged)

LooksSpec == LooksInit /\ [][LooksNext]_lookVars
------------------------------------------------------------------------------
\* Types of all variables.
LooksTypeOK ==
    /\ persona \in Personas /\ inBattle \in BOOLEAN
    /\ currentActingUnit \in Actors \cup {NoActor, 1}
    /\ FrameTiming \in 0..(Wheel - 1)
    /\ seen \subseteq {"dark", "light"}
    /\ colour \in [name : {"game", "wheel", "member", "CrowColor1", "CrowColor2"},
                    r : 0..255, g : 0..255, b : 0..255]

(* In one battle everything that is loaded for Akechi, his voice in an enemy's
   mouth and his colour included, is of one look. *)
OneLook ==
    /\ Cardinality(seen) <= 1
    /\ option.enableAkechiMod =>
           /\ colour.name = "CrowColor1" => "dark" \notin seen
           /\ colour.name = "CrowColor2" => "light" \notin seen

(* The wheel of colours turns without a jump, where one sector meets the next
   and where it closes, and is never grey. *)
Near(a, b) == a - b \in -5..5
WheelIsSmooth ==
    [][colour.name = "wheel" /\ colour'.name = "wheel" =>
           /\ Near(colour.r, colour'.r)
           /\ Near(colour.g, colour'.g)
           /\ Near(colour.b, colour'.b)
           /\ {0, 255} \subseteq {colour'.r, colour'.g, colour'.b}]_lookVars

(* Looks and colours do not contradict each other, nor jump. *)
LooksAgree == [](LooksTypeOK /\ OneLook) /\ WheelIsSmooth
===============================================================================
