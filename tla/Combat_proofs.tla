----------------------------- MODULE Combat_proofs -----------------------------
(* Theorems about what happens in combat: enemies that are scripted, what    *)
(* the navigator says, and the orders of scripts.                            *)
EXTENDS Enemies, Navigator, Orders, Abilities, Looks, TLAPS, FiniteSetTheorems, WellFoundedInduction

(***************************************************************************)
(* Enemies, whatever enemies fight and whatever their scripts ask for.      *)
(***************************************************************************)
FoesShape ==
    /\ rules \in [enablePersonaEnemies : BOOLEAN, enableAkechiMod : BOOLEAN]
    /\ wish \in [persona : Wishes, bed : BEDs]
    /\ lines \in [times : Nat, by : Foes \cup {NoUnit}, last : Int, echo : BOOLEAN]

\* Whose turn it is says what may have been decided.
TurnAndAct ==
    /\ act = "none" <=> unit = NoUnit
    /\ act = "player" <=> unit = Joker
    /\ act \in {"none", "thinking", "player"} =>
           wish = NoWish /\ personaShown = Unseen /\ effect = Unseen

\* The globals are the wish of the turn from the decision until they are used.
WishIsKept ==
    /\ act = "ordinary" => wish = NoWish /\ EnemyPersona = 0 /\ SummonCustomBED = 0
    /\ act = "persona" /\ personaShown = Unseen => EnemyPersona = wish.persona
    /\ act = "summon" => SummonCustomBED = wish.bed

\* A line that waits has not been spoken; the line of the black mask that comes
\* next is the other one.
LineWaits == count420 > 0 => lines.times = 0
MaskTurns == lines.last \in {0, IF Field1C = 0 THEN 10 ELSE 11}

\* The inductive invariant
FoesInv == /\ FoesTypeOK /\ ShownAsScripted /\ CustomLineOnce /\ MaskVaries
           /\ FoesShape /\ TurnAndAct /\ WishIsKept /\ LineWaits /\ MaskTurns

LEMMA FoesInitial == FoesInit => FoesInv
<1> SUFFICES ASSUME FoesInit PROVE FoesInv
    OBVIOUS
<1>1. 0 \in Wishes /\ 0 \in Defaults /\ 0 \in BEDs
    BY EnemiesAssumption
<1>2. NoWish \in [persona : Wishes, bed : BEDs]
    BY <1>1 DEF NoWish
<1>3. FoesTypeOK /\ FoesShape
    BY <1>1, <1>2 DEF FoesInit, FoesTypeOK, FoesShape, NoWish
<1> QED
    BY <1>3 DEF FoesInit, FoesInv, ShownAsScripted, CustomLineOnce, MaskVaries, TurnAndAct,
                WishIsKept, LineWaits, MaskTurns, NoUnit, Joker, Unseen

\* The lines of a step that says nothing are as they were.
LEMMA SilentStep ==
    ASSUME FoesInv, UNCHANGED voice
    PROVE  /\ CustomLineOnce' /\ MaskVaries' /\ LineWaits' /\ MaskTurns'
           /\ count420' \in VoiceCues \cup {0} /\ Field1C' \in 0..1 /\ lines'.times \in Nat
           /\ lines' \in [times : Nat, by : Foes \cup {NoUnit}, last : Int, echo : BOOLEAN]
BY DEF FoesInv, voice, CustomLineOnce, MaskVaries, LineWaits, MaskTurns, FoesTypeOK, FoesShape

\* What a step that only speaks leaves alone.
LEMMA SpokenStep ==
    ASSUME FoesInv, UNCHANGED <<rules, globals, unit, act, wish, argArray, looks>>,
           count420' \in VoiceCues \cup {0}, Field1C' \in 0..1,
           lines' \in [times : Nat, by : Foes \cup {NoUnit}, last : Int, echo : BOOLEAN],
           CustomLineOnce', MaskVaries', LineWaits', MaskTurns'
    PROVE  FoesInv'
<1>1. UNCHANGED <<rules, EnemyPersona, SummonCustomBED, unit, act, wish, stockPersona,
                  personaShown, effect>>
    BY DEF globals, looks
<1>2. FoesTypeOK' /\ FoesShape'
    BY <1>1 DEF FoesInv, FoesTypeOK, FoesShape
<1>3. ShownAsScripted' /\ TurnAndAct' /\ WishIsKept'
    BY <1>1 DEF FoesInv, ShownAsScripted, OwnPersona, TurnAndAct, WishIsKept
<1> QED
    BY <1>2, <1>3 DEF FoesInv

LEMMA OrdinaryStep ==
    ASSUME FoesInv, FLW_AI_ACT_SKILL
    PROVE  FoesInv'
<1>1. /\ unit \in Foes /\ act = "thinking" /\ act' = "ordinary"
      /\ EnemyPersona' = 0 /\ SummonCustomBED' = 0
      /\ UNCHANGED <<rules, unit, wish, stockPersona, personaShown, effect>>
      /\ UNCHANGED voice
    BY DEF FLW_AI_ACT_SKILL, Decide, IsEnemy, looks
<1>2. wish = NoWish /\ personaShown = Unseen /\ effect = Unseen
    BY <1>1 DEF FoesInv, TurnAndAct
<1>3. FoesTypeOK' /\ FoesShape'
    BY <1>1, SilentStep, EnemiesAssumption DEF FoesInv, FoesTypeOK, FoesShape
<1>4. TurnAndAct' /\ WishIsKept' /\ ShownAsScripted'
    BY <1>1, <1>2, EnemiesAssumption
       DEF FoesInv, TurnAndAct, WishIsKept, ShownAsScripted, NoUnit, Joker
<1> QED
    BY <1>1, <1>3, <1>4, SilentStep DEF FoesInv

LEMMA PersonaStep ==
    ASSUME FoesInv, NEW p \in Wishes, EX_FLW_AI_ACT_PERSONA_SKILL(p)
    PROVE  FoesInv'
<1> DEFINE q == IF rules.enablePersonaEnemies THEN p ELSE 0
<1>1. /\ unit \in Foes /\ act = "thinking" /\ act' = "persona"
      /\ EnemyPersona' = q /\ wish' = [wish EXCEPT !.persona = q]
      /\ UNCHANGED <<rules, SummonCustomBED, unit, stockPersona, personaShown, effect>>
      /\ UNCHANGED voice
    BY DEF EX_FLW_AI_ACT_PERSONA_SKILL, Decide, IsEnemy, looks
<1>2. personaShown = Unseen /\ effect = Unseen
    BY <1>1 DEF FoesInv, TurnAndAct
<1>3. q \in Wishes
    BY EnemiesAssumption
<1> HIDE DEF q
<1>4. wish' \in [persona : Wishes, bed : BEDs] /\ wish'.persona = q
    BY <1>1, <1>3 DEF FoesInv, FoesShape
<1>5. FoesTypeOK' /\ FoesShape'
    BY <1>1, <1>3, <1>4, SilentStep DEF FoesInv, FoesTypeOK, FoesShape
<1>6. TurnAndAct' /\ WishIsKept' /\ ShownAsScripted'
    BY <1>1, <1>2, <1>4, EnemiesAssumption
       DEF FoesInv, TurnAndAct, WishIsKept, ShownAsScripted, NoUnit, Joker
<1> QED
    BY <1>1, <1>5, <1>6, SilentStep DEF FoesInv

LEMMA SummonStep ==
    ASSUME FoesInv, NEW s \in Summons, NEW bed \in BEDs, EX_AI_SUMMON_UNITS(s, bed)
    PROVE  FoesInv'
<1>1. /\ unit \in Foes /\ act = "thinking" /\ act' = "summon"
      /\ SummonCustomBED' = bed /\ wish' = [wish EXCEPT !.bed = bed]
      /\ UNCHANGED <<rules, EnemyPersona, unit, stockPersona, personaShown, effect>>
      /\ UNCHANGED voice
    BY DEF EX_AI_SUMMON_UNITS, Decide, IsEnemy, looks
<1>2. personaShown = Unseen /\ effect = Unseen
    BY <1>1 DEF FoesInv, TurnAndAct
<1>3. wish' \in [persona : Wishes, bed : BEDs] /\ wish'.bed = bed
    BY <1>1 DEF FoesInv, FoesShape
<1>4. FoesTypeOK' /\ FoesShape'
    BY <1>1, <1>3, SilentStep DEF FoesInv, FoesTypeOK, FoesShape
<1>5. TurnAndAct' /\ WishIsKept' /\ ShownAsScripted'
    BY <1>1, <1>2, <1>3, EnemiesAssumption
       DEF FoesInv, TurnAndAct, WishIsKept, ShownAsScripted, NoUnit, Joker
<1> QED
    BY <1>1, <1>4, <1>5, SilentStep DEF FoesInv

LEMMA CueStep ==
    ASSUME FoesInv, NEW cue \in VoiceCues, SetCue(cue)
    PROVE  FoesInv'
<1>1. /\ count420' = cue /\ lines' = [lines EXCEPT !.times = 0, !.by = NoUnit]
      /\ UNCHANGED <<rules, globals, unit, act, wish, argArray, looks>> /\ Field1C' = Field1C
    BY DEF SetCue
<1>2. /\ lines' \in [times : Nat, by : Foes \cup {NoUnit}, last : Int, echo : BOOLEAN]
      /\ lines'.times = 0 /\ lines'.by = NoUnit /\ lines'.last = lines.last
      /\ lines'.echo = lines.echo
    BY <1>1 DEF FoesInv, FoesShape
<1>3. CustomLineOnce' /\ MaskVaries' /\ LineWaits' /\ MaskTurns'
    BY <1>1, <1>2
       DEF FoesInv, CustomLineOnce, MaskVaries, LineWaits, MaskTurns, NoUnit, Joker
<1>4. count420' \in VoiceCues \cup {0} /\ Field1C' \in 0..1
    BY <1>1 DEF FoesInv, FoesTypeOK
<1> QED
    BY <1>1, <1>2, <1>3, <1>4, SpokenStep

\* What is shown of an enemy is what its script wished for, or one of its own.
LEMMA ShowStep ==
    ASSUME FoesInv, unit # NoUnit, NEW result \in Defaults, SetEnemyAkechiPersona(result)
    PROVE  FoesInv'
<1>1. /\ act # "thinking"
      /\ UNCHANGED <<rules, SummonCustomBED, unit, act, wish, effect>> /\ UNCHANGED voice
    BY DEF SetEnemyAkechiPersona
<1>2. CASE unit \notin Foes
    <2>1. UNCHANGED <<stockPersona, personaShown, EnemyPersona>>
        BY <1>2 DEF SetEnemyAkechiPersona, IsEnemy
    <2> QED
        BY <1>1, <2>1, SilentStep
           DEF FoesInv, FoesTypeOK, FoesShape, TurnAndAct, WishIsKept, ShownAsScripted, OwnPersona
<1>3. CASE unit \in Foes
    <2> DEFINE p == IF EnemyPersona > 0 THEN EnemyPersona ELSE OwnPersona(unit, result)
    <2>1. /\ stockPersona' = [stockPersona EXCEPT ![unit] = p]
          /\ personaShown' = IF personaShown = Unseen THEN p ELSE personaShown
          /\ EnemyPersona' = 0
        BY <1>3 DEF SetEnemyAkechiPersona, IsEnemy
    <2>2. EnemyPersona \in Wishes /\ EnemyPersona \in Nat
        BY EnemiesAssumption DEF FoesInv, FoesTypeOK
    <2>3. OwnPersona(unit, result) \in Defaults \cup {239, 240}
        BY DEF OwnPersona
    <2>4. p \in Wishes \cup Defaults \cup {239, 240} /\ p # Unseen
        BY <2>2, <2>3, EnemiesAssumption DEF Unseen
    <2>5. act \in {"ordinary", "persona", "summon"}
        BY <1>1, <1>3, EnemiesAssumption DEF FoesInv, FoesTypeOK, TurnAndAct, NoUnit, Joker
    <2>6. /\ EnemyPersona > 0 => p = EnemyPersona
          /\ ~(EnemyPersona > 0) => p = OwnPersona(unit, result)
        OBVIOUS
    <2> HIDE DEF p
    <2>7. FoesTypeOK' /\ FoesShape'
        BY <1>1, <1>3, <2>1, <2>4, SilentStep, EnemiesAssumption DEF FoesInv, FoesTypeOK, FoesShape
    <2>8. TurnAndAct' /\ WishIsKept'
        BY <1>1, <2>1, <2>4, <2>5 DEF FoesInv, TurnAndAct, WishIsKept
    <2>9. ShownAsScripted'
        <3>1. CASE personaShown # Unseen
            <4>1. personaShown' = personaShown
                BY <2>1, <3>1
            <4> QED
                BY <1>1, <4>1 DEF FoesInv, ShownAsScripted, OwnPersona
        <3>2. CASE personaShown = Unseen
            <4>1. personaShown' = p
                BY <2>1, <3>2
            <4>2. act = "persona" => EnemyPersona = wish.persona
                BY <3>2 DEF FoesInv, WishIsKept
            <4>3. act = "ordinary" => EnemyPersona = 0 /\ wish.persona = 0
                BY DEF FoesInv, WishIsKept, NoWish
            <4>4. act = "persona" /\ wish.persona > 0 => p = wish.persona
                BY <2>6, <4>2
            <4>5. act \in {"ordinary", "persona"} /\ wish.persona = 0 =>
                      p = OwnPersona(unit, result)
                BY <2>6, <4>2, <4>3
            <4>6. \A r \in Defaults : OwnPersona(unit, r)' = OwnPersona(unit, r)
                BY <1>1 DEF OwnPersona
            <4> QED
                BY <1>1, <4>1, <4>4, <4>5, <4>6 DEF FoesInv, ShownAsScripted
        <3> QED
            BY <3>1, <3>2
    <2> QED
        BY <1>1, <2>7, <2>8, <2>9, SilentStep DEF FoesInv
<1> QED
    BY <1>2, <1>3

LEMMA EffectStep ==
    ASSUME FoesInv, LoadBEDFile
    PROVE  FoesInv'
<1>1. /\ act \in {"ordinary", "persona", "summon"} /\ effect' = SummonCustomBED
      /\ UNCHANGED <<rules, EnemyPersona, SummonCustomBED, unit, act, wish, stockPersona,
                     personaShown>>
      /\ UNCHANGED voice
    BY DEF LoadBEDFile, globals
<1>2. act # "persona" => SummonCustomBED = wish.bed
    BY <1>1 DEF FoesInv, WishIsKept, NoWish
<1>3. FoesTypeOK' /\ FoesShape' /\ TurnAndAct' /\ WishIsKept'
    BY <1>1, SilentStep DEF FoesInv, FoesTypeOK, FoesShape, TurnAndAct, WishIsKept
<1>4. ShownAsScripted'
    BY <1>1, <1>2 DEF FoesInv, ShownAsScripted, OwnPersona
<1> QED
    BY <1>1, <1>3, <1>4, SilentStep DEF FoesInv

\* The two skills that alternate have the line that is not the last one.
LEMMA OtherLine ==
    ASSUME NEW s \in Alternating
    PROVE  MaskCue(s) = IF Field1C = 0 THEN 11 ELSE 10
BY DEF MaskCue, Alternating

LEMMA CustomSpoken ==
    ASSUME FoesInv, IsEnemy, count420 > 0, SpeakCustom
    PROVE  /\ CustomLineOnce' /\ MaskVaries' /\ LineWaits' /\ MaskTurns'
           /\ count420' \in VoiceCues \cup {0} /\ Field1C' \in 0..1
           /\ lines' \in [times : Nat, by : Foes \cup {NoUnit}, last : Int, echo : BOOLEAN]
<1>1. lines.times = 0
    BY DEF FoesInv, LineWaits
<1>2. /\ count420' = 0 /\ Field1C' = Field1C /\ unit \in Foes
      /\ lines' = [lines EXCEPT !.times = 1, !.by = unit]
    BY <1>1 DEF SpeakCustom, IsEnemy
<1>3. /\ lines' \in [times : Nat, by : Foes \cup {NoUnit}, last : Int, echo : BOOLEAN]
      /\ lines'.times = 1 /\ lines'.by = unit /\ lines'.last = lines.last
      /\ lines'.echo = lines.echo
    BY <1>2 DEF FoesInv, FoesShape
<1>4. unit # Joker
    BY <1>2, EnemiesAssumption DEF Joker
<1> QED
    BY <1>2, <1>3, <1>4
       DEF FoesInv, FoesTypeOK, CustomLineOnce, MaskVaries, LineWaits, MaskTurns

LEMMA MaskSpoken ==
    ASSUME FoesInv, IsEnemy, NEW s \in Int, setBlackMaskCueID(s)
    PROVE  /\ CustomLineOnce' /\ MaskVaries' /\ LineWaits' /\ MaskTurns'
           /\ count420' \in VoiceCues \cup {0} /\ Field1C' \in 0..1
           /\ lines' \in [times : Nat, by : Foes \cup {NoUnit}, last : Int, echo : BOOLEAN]
<1>1. CASE count420 > 0
    BY <1>1, CustomSpoken DEF setBlackMaskCueID
<1>2. CASE ~(count420 > 0) /\ s \notin Alternating
    <2>1. UNCHANGED voice
        BY <1>2 DEF setBlackMaskCueID, voice
    <2> QED
        BY <2>1, SilentStep
<1>3. CASE ~(count420 > 0) /\ s \in Alternating
    <2> DEFINE cue == IF Field1C = 0 THEN 11 ELSE 10
    <2>1. /\ count420' = count420 /\ Field1C' = 1 - Field1C
          /\ lines' = [lines EXCEPT !.last = cue, !.echo = lines.echo \/ lines.last = cue]
        BY <1>3, OtherLine DEF setBlackMaskCueID
    <2>2. /\ lines.last # cue /\ lines.echo = FALSE /\ Field1C \in 0..1 /\ cue \in Int
          /\ lines \in [times : Nat, by : Foes \cup {NoUnit}, last : Int, echo : BOOLEAN]
        BY DEF FoesInv, MaskTurns, MaskVaries, FoesTypeOK, FoesShape
    <2> HIDE DEF cue
    <2>3. lines' = [lines EXCEPT !.last = cue, !.echo = FALSE]
        BY <2>1, <2>2
    <2>4. /\ lines' \in [times : Nat, by : Foes \cup {NoUnit}, last : Int, echo : BOOLEAN]
          /\ lines'.times = lines.times /\ lines'.by = lines.by
          /\ lines'.last = cue /\ lines'.echo = FALSE
        BY <2>2, <2>3
    <2>5. MaskTurns'
        BY <2>1, <2>2, <2>4 DEF MaskTurns, cue
    <2> QED
        BY <2>1, <2>2, <2>4, <2>5
           DEF FoesInv, FoesTypeOK, CustomLineOnce, MaskVaries, LineWaits
<1> QED
    BY <1>1, <1>2, <1>3

LEMMA SpeakStep ==
    ASSUME FoesInv, Speak, MaskSkills \subseteq Int
    PROVE  FoesInv'
<1>1. UNCHANGED <<rules, globals, unit, act, wish, argArray, looks>>
    BY DEF Speak
<1>2. /\ CustomLineOnce' /\ MaskVaries' /\ LineWaits' /\ MaskTurns'
      /\ count420' \in VoiceCues \cup {0} /\ Field1C' \in 0..1
      /\ lines' \in [times : Nat, by : Foes \cup {NoUnit}, last : Int, echo : BOOLEAN]
    <2>1. CASE UNCHANGED voice
        BY <2>1, SilentStep
    <2>2. CASE IsEnemy /\ count420 > 0 /\ SpeakCustom
        BY <2>2, CustomSpoken
    <2>3. CASE IsEnemy /\ setBlackMaskCueID(0)
        BY <2>3, MaskSpoken
    <2>4. CASE IsEnemy /\ \E s \in MaskSkills : setBlackMaskCueID(s)
        BY <2>4, MaskSpoken
    <2> QED
        BY <2>1, <2>2, <2>3, <2>4 DEF Speak, SpeakSkill, SpeakTurn
<1> QED
    BY <1>1, <1>2, SpokenStep

LEMMA TurnStep ==
    ASSUME FoesInv, EndTurn \/ \E u \in Foes \cup {Joker} : BeginTurn(u)
    PROVE  FoesInv'
<1>1. /\ wish' = NoWish /\ personaShown' = Unseen /\ effect' = Unseen
      /\ UNCHANGED <<rules, EnemyPersona, SummonCustomBED, stockPersona>> /\ UNCHANGED voice
    BY DEF BeginTurn, EndTurn, globals
<1>2. \/ unit' = NoUnit /\ act' = "none"
      \/ unit' \in Foes /\ act' = "thinking"
      \/ unit' = Joker /\ act' = "player"
    BY EnemiesAssumption DEF BeginTurn, EndTurn, Joker
<1>3. NoWish \in [persona : Wishes, bed : BEDs]
    BY EnemiesAssumption DEF NoWish
<1>4. FoesTypeOK' /\ FoesShape'
    BY <1>1, <1>2, <1>3, SilentStep DEF FoesInv, FoesTypeOK, FoesShape
<1>5. TurnAndAct' /\ WishIsKept' /\ ShownAsScripted'
    BY <1>1, <1>2, EnemiesAssumption DEF TurnAndAct, WishIsKept, ShownAsScripted, NoUnit, Joker
<1> QED
    BY <1>1, <1>4, <1>5, SilentStep DEF FoesInv

LEMMA FoesStep == FoesInv /\ [FoesNext]_foeVars => FoesInv'
<1> SUFFICES ASSUME FoesInv, [FoesNext]_foeVars PROVE FoesInv'
    OBVIOUS
<1>1. MaskSkills \subseteq Int
    BY EnemiesAssumption
<1>2. ASSUME UNCHANGED foeVars PROVE FoesInv'
    <2>1. UNCHANGED <<rules, EnemyPersona, SummonCustomBED, unit, act, wish, stockPersona,
                      personaShown, effect>> /\ UNCHANGED voice
        BY <1>2 DEF foeVars, voice
    <2> QED
        BY <2>1, SilentStep
           DEF FoesInv, FoesTypeOK, FoesShape, TurnAndAct, WishIsKept, ShownAsScripted, OwnPersona
<1> QED
    BY <1>1, <1>2, OrdinaryStep, PersonaStep, SummonStep, CueStep, ShowStep, EffectStep, SpeakStep,
       TurnStep DEF FoesNext

\* What a turn's script asked for stays what the globals say until it is shown.
THEOREM FoesInvariant == FoesSpec => []FoesInv
    BY FoesInitial, FoesStep, PTL DEF FoesSpec

\* dc.c, SetEnemyAkechiPersonaHook, LoadBEDFileHook, setBlackMaskCueIDHook and the
\* commands of EXFLW.c: enemies show what the script of their own turn asked for,
\* say a line of their own once, and the black mask does not repeat itself.
THEOREM FoesAsScriptedCorrect == FoesSpec => []FoesAsScripted
<1>1. FoesInv => FoesAsScripted
    BY DEF FoesInv, FoesAsScripted
<1> QED
    BY <1>1, FoesInvariant, PTL

(***************************************************************************)
(* The navigator, whoever fights and whatever happens to Kasumi.            *)
(***************************************************************************)
\* A set of naturals that is not empty has a least element.
LEMMA LeastOf ==
    ASSUME NEW T, T \subseteq Nat, T # {}
    PROVE  \E x \in T : \A y \in T : ~(y < x)
<1>1. \E x \in T : \A y \in T : ~(<<y, x>> \in OpToRel(<, Nat))
    BY NatLessThanWellFounded, WFMin
<1> QED
    BY <1>1 DEF OpToRel

\* There is a last one of the ailments that are new.
LEMMA LastAilment ==
    ASSUME NEW S, S \subseteq 0..11, S # {}
    PROVE  \E a \in S : \A b \in S : b <= a
<1> DEFINE T == {11 - a : a \in S}
<1>1. T \subseteq Nat /\ T # {}
    OBVIOUS
<1>2. PICK x \in T : \A y \in T : ~(y < x)
    BY <1>1, LeastOf
<1>3. PICK a \in S : x = 11 - a
    BY <1>2
<1>4. ASSUME NEW b \in S PROVE b <= a
    <2>1. 11 - b \in T
        OBVIOUS
    <2>2. ~(11 - b < 11 - a)
        BY <1>2, <1>3, <2>1
    <2> QED
        BY <2>2
<1> QED
    BY <1>4

\* The events and the numbers of their lines.
LEMMA Numbers ==
    /\ Events = {"low", "downed", "dodged", "all", "down4", "down3", "down2", "down1", "missed"}
    /\ Base["low"] = 61 /\ Base["downed"] = 71 /\ Base["dodged"] = 81 /\ Base["all"] = 291
    /\ Base["down4"] = 300 /\ Base["down3"] = 309 /\ Base["down2"] = 318 /\ Base["down1"] = 327
    /\ Base["missed"] = 399
    /\ KasumiLine["low"] = 874 /\ KasumiLine["downed"] = 875 /\ KasumiLine["dodged"] = 876
    /\ KasumiLine["all"] = 894 /\ KasumiLine["down4"] = 895 /\ KasumiLine["down3"] = 896
    /\ KasumiLine["down2"] = 897 /\ KasumiLine["down1"] = 898 /\ KasumiLine["missed"] = 906
BY DEF Events, Base, KasumiLine

\* A line of a member, by the event and the place of the member.
LEMMA MemberLine ==
    ASSUME NEW c, NEW event \in Events, NEW u \in (1..9) \ {8}
    PROVE  Message(c, event, u) = Base[event] + IF u \in c.named THEN Place(u) ELSE 8
BY DEF Message, Kasumi

LEMMA KasumisLine ==
    ASSUME NEW c, NEW event \in Events
    PROVE  Message(c, event, Kasumi) \in {Silent, KasumiLine[event]}
BY DEF Message, Kasumi

LEMMA PlaceIs ==
    ASSUME NEW u \in (1..9) \ {8}
    PROVE  Place(u) \in 0..7 /\ \A v \in (1..9) \ {8} : Place(v) = Place(u) => v = u
BY DEF Place

\* The lines of two events do not overlap, nor do Kasumi's and the others'.
LEMMA Apart ==
    ASSUME NEW e \in Events, NEW f \in Events, NEW m \in 0..8, NEW n \in 0..8
    PROVE  /\ Base[e] \in Nat /\ Base[f] \in Nat
           /\ Base[e] + m = Base[f] + n => e = f /\ m = n
           /\ Base[e] + m \in 60..407
BY Numbers

LEMMA KasumisApart ==
    ASSUME NEW e \in Events, NEW f \in Events
    PROVE  /\ KasumiLine[e] \in 873..907
           /\ KasumiLine[e] = KasumiLine[f] => e = f
BY Numbers

\* What a line says of the one it is about.
LEMMA LineTells ==
    ASSUME NEW c, NEW e \in Events, NEW f \in Events,
           NEW u \in (1..10) \ {8}, NEW v \in (1..10) \ {8},
           Message(c, e, u) = Message(c, f, v), Message(c, e, u) # Silent
    PROVE  e = f /\ (u # v => u \notin c.named \cup {Kasumi} /\ v \notin c.named \cup {Kasumi})
<1> DEFINE Offset(w) == IF w \in c.named THEN Place(w) ELSE 8
<1>1. ASSUME NEW w \in (1..9) \ {8} PROVE Offset(w) \in 0..8
    BY PlaceIs
<1>2. CASE u = Kasumi /\ v = Kasumi
    <2>1. Message(c, e, u) = KasumiLine[e] /\ Message(c, f, v) = KasumiLine[f]
        BY <1>2, KasumisLine
    <2> QED
        BY <1>2, <2>1, KasumisApart
<1>3. CASE u # Kasumi /\ v # Kasumi
    <2>1. u \in (1..9) \ {8} /\ v \in (1..9) \ {8}
        BY <1>3 DEF Kasumi
    <2>2. Message(c, e, u) = Base[e] + Offset(u) /\ Message(c, f, v) = Base[f] + Offset(v)
        BY <2>1, MemberLine
    <2>3. Offset(u) \in 0..8 /\ Offset(v) \in 0..8
        BY <1>1, <2>1
    <2>4. e = f /\ Offset(u) = Offset(v)
        <3> HIDE DEF Offset
        <3>1. PICK m \in 0..8, n \in 0..8 : m = Offset(u) /\ n = Offset(v)
            BY <2>3
        <3> HIDE DEF Offset
        <3>2. Base[e] + m = Base[f] + n
            BY <2>2, <3>1
        <3>3. e = f /\ m = n
            BY <3>1, <3>2, Numbers
        <3> QED
            BY <3>1, <3>3
    <2>5. u # v => u \notin c.named /\ v \notin c.named
        BY <2>1, <2>4, PlaceIs
    <2> QED
        BY <1>3, <2>4, <2>5
<1>4. ASSUME NEW x \in Events, NEW y \in Events, NEW w \in (1..9) \ {8},
             Message(c, x, w) = Message(c, y, Kasumi), Message(c, x, w) # Silent
      PROVE  FALSE
    <2>1. Message(c, x, w) = Base[x] + Offset(w) /\ Offset(w) \in 0..8
        BY <1>1, MemberLine
    <2>2. Base[x] + Offset(w) = KasumiLine[y]
        BY <1>4, <2>1, KasumisLine
    <2>3. Base[x] + Offset(w) \in 60..407 /\ KasumiLine[y] \in 873..907
        <3>1. PICK m \in 0..8 : m = Offset(w)
            BY <2>1
        <3> HIDE DEF Offset
        <3>2. Base[x] + m \in 60..407 /\ KasumiLine[y] \in 873..907
            BY <3>1, Numbers
        <3> QED
            BY <3>1, <3>2
    <2> QED
        BY <2>2, <2>3, SMTT(30)
<1>5. u # Kasumi => u \in (1..9) \ {8}
    BY DEF Kasumi
<1>6. v # Kasumi => v \in (1..9) \ {8}
    BY DEF Kasumi
<1> QED
    BY <1>2, <1>3, <1>4, <1>5, <1>6

\* The line of one event and one member who fights
LineOf(event, u) == Message(cast, event, u)

\* A line that is being spoken is that of its event and its unit, or of several.
SaidRight ==
    said.event \in Events =>
        \/ said.message \in {60, 70}
        \/ /\ said.unit \in (1..10) \ {8} /\ said.message # Silent
           /\ said.message = LineOf(said.event, said.unit)

\* What was due is marked, said or not: the ailments one by one, wounds and curses.
Marked(m) ==
    \/ \E a \in hasUzukiAilmentAnnounce : m = 881 + a
    \/ m = 880 /\ "hp" \in UzukiWarned
    \/ m = 877 /\ "atk" \in UzukiWarned
    \/ m = 878 /\ "def" \in UzukiWarned
    \/ m = 879 /\ "eva" \in UzukiWarned
PastIsMarked == \A m \in past : Marked(m)

\* The inductive invariant
NaviInv == NaviTypeOK /\ WarnedInTime /\ SaidRight /\ PastIsMarked

LEMMA NaviInitial == NaviInit => NaviInv
<1> SUFFICES ASSUME NaviInit PROVE NaviInv
    OBVIOUS
<1>1. said.event = "none" /\ said.message = Silent
    BY DEF NaviInit, Nothing
<1>2. NaviTypeOK
    BY <1>1, ZenonT(30) DEF NaviInit, NaviTypeOK
<1> QED
    BY <1>1, <1>2, Numbers DEF NaviInit, NaviInv, WarnedInTime, SaidRight, PastIsMarked

\* A step that touches neither the marks nor what they stand for.
LEMMA SayStep ==
    ASSUME NaviInv, UNCHANGED <<cast, marks, ghosts>>,
           ailments' \subseteq 0..11, lowHP' \in BOOLEAN, debuffs' \subseteq Debuffs,
           busy' \in BOOLEAN, field2c' \in {Silent} \cup (873..907),
           said'.message \in {Silent} \cup (60..407) \cup (873..907), SaidRight'
    PROVE  NaviInv'
<1>1. UNCHANGED <<cast, hasUzukiAilmentAnnounce, UzukiWarned, past, late>>
    BY DEF marks, ghosts
<1>2. NaviTypeOK'
    BY <1>1 DEF NaviInv, NaviTypeOK
<1>3. WarnedInTime' /\ PastIsMarked'
    BY <1>1 DEF NaviInv, WarnedInTime, PastIsMarked, Marked
<1> QED
    BY <1>2, <1>3 DEF NaviInv

\* A line of an event is one that the types allow, and tells of who it is.
LEMMA CallStep ==
    ASSUME NaviInv, NEW event, NEW u, NEW m, CallNaviDialogue(event, u, m),
           UNCHANGED <<cast, health, marks, ghosts>>, field2c' \in {Silent} \cup (873..907),
           m \in {Silent} \cup (60..407) \cup (873..907),
           event \in Events => \/ m \in {60, 70}
                               \/ u \in (1..10) \ {8} /\ m = LineOf(event, u)
    PROVE  NaviInv'
<1>1. UNCHANGED <<cast, ailments, lowHP, debuffs>>
    BY DEF health
<1>2. CASE m = Silent
    <2>1. UNCHANGED <<busy, said>>
        BY <1>2 DEF CallNaviDialogue
    <2>2. SaidRight'
        BY <1>1, <2>1 DEF NaviInv, SaidRight, LineOf, Message
    <2> QED
        BY <1>1, <2>1, <2>2, SayStep DEF NaviInv, NaviTypeOK
<1>3. CASE m # Silent
    <2>1. busy' = TRUE /\ said' = [event |-> event, unit |-> u, message |-> m]
        BY <1>3 DEF CallNaviDialogue
    <2>2. said'.event = event /\ said'.unit = u /\ said'.message = m
        BY <2>1
    <2>3. LineOf(event, u)' = LineOf(event, u)
        BY <1>1 DEF LineOf, Message
    <2>4. SaidRight'
        BY <1>3, <2>2, <1>1 DEF SaidRight, LineOf, Message
    <2> QED
        BY <1>1, <2>1, <2>2, <2>4, SayStep DEF NaviInv, NaviTypeOK
<1> QED
    BY <1>2, <1>3

\* Whoever fights has a line of each event, or is passed over in silence.
LEMMA FighterLine ==
    ASSUME NaviInv, NEW event \in Events, NEW u \in cast.fighters
    PROVE  /\ u \in (1..10) \ {8}
           /\ Message(cast, event, u) \in {Silent} \cup (60..407) \cup (873..907)
<1>1. u \in (1..10) \ {8}
    BY NavigatorAssumption DEF NaviInv, NaviTypeOK
<1>2. CASE u = Kasumi
    <2>1. Message(cast, event, u) \in {Silent, KasumiLine[event]}
        BY <1>2, KasumisLine
    <2> QED
        BY <1>1, <2>1, KasumisApart
<1>3. CASE u # Kasumi
    <2>1. u \in (1..9) \ {8}
        BY <1>1, <1>3 DEF Kasumi
    <2>2. Message(cast, event, u) = Base[event] + (IF u \in cast.named THEN Place(u) ELSE 8)
        BY <2>1, MemberLine
    <2>3. PICK m \in 0..8 : m = IF u \in cast.named THEN Place(u) ELSE 8
        BY <2>1, PlaceIs
    <2>4. Base[event] + m \in 60..407
        BY Apart, ZenonT(30)
    <2> QED
        BY <1>1, <2>2, <2>3, <2>4
<1> QED
    BY <1>1, <1>2, <1>3

LEMMA RemarkStep ==
    ASSUME NaviInv, NEW event \in Events, NEW u \in cast.fighters, NEW down,
           NEW lately, Remark(event, u, down, lately)
    PROVE  NaviInv'
<1>1. /\ CallNaviDialogue(event, u, Message(cast, event, u))
      /\ UNCHANGED <<cast, health, marks, ghosts>> /\ field2c' = field2c
    BY DEF Remark
<1> QED
    BY <1>1, FighterLine, CallStep DEF NaviInv, NaviTypeOK, LineOf

LEMMA HurtStep ==
    ASSUME NaviInv, NEW event \in Events, NEW u \in cast.fighters, NEW n,
           Hurt(event, u, n)
    PROVE  NaviInv'
<1> DEFINE m == IF n = 1 THEN Message(cast, event, u) ELSE Several[event]
<1>1. /\ event \in {"low", "downed"} /\ CallNaviDialogue(event, u, m)
      /\ UNCHANGED <<cast, health, marks, ghosts>> /\ field2c' = field2c
    BY DEF Hurt, Several
<1>2. Several[event] \in {60, 70}
    BY <1>1 DEF Several
<1>3. /\ m \in {Silent} \cup (60..407) \cup (873..907) /\ u \in (1..10) \ {8}
      /\ m \in {60, 70} \/ m = LineOf(event, u)
    BY <1>2, FighterLine DEF LineOf
<1> HIDE DEF m
<1> QED
    BY <1>1, <1>3, CallStep DEF NaviInv, NaviTypeOK

LEMMA KnockStep ==
    ASSUME NaviInv, NEW n \in 0..5, NEW k \in 1..5, KasumiKnocksDown(n, k)
    PROVE  NaviInv'
<1>1. /\ CallNaviDialogue("knock", Kasumi, KnockDownLine(n, k))
      /\ UNCHANGED <<cast, health, marks, ghosts>> /\ field2c' = field2c
    BY DEF KasumiKnocksDown
<1>2. KnockDownLine(n, k) \in {Silent} \cup (873..907)
    BY DEF KnockDownLine
<1>3. "knock" \notin Events
    BY Numbers
<1> QED
    BY <1>1, <1>2, <1>3, CallStep DEF NaviInv, NaviTypeOK

LEMMA ActStep ==
    ASSUME NaviInv, NEW event \in {"crit", "up", "weakness", "away", "died"},
           NEW spoke \in BOOLEAN, KasumiActs(event, spoke)
    PROVE  NaviInv'
<1> DEFINE line  == CASE event = "crit" -> 905 [] event = "up" -> 893
                      [] event = "weakness" -> 904 [] event = "away" -> 907
                      [] event = "died" -> 873
<1>1. line \in 873..907 /\ event \notin Events
    BY Numbers
<1>2. UNCHANGED <<cast, health, marks, ghosts>>
    BY DEF KasumiActs
<1>3. \/ busy' = (busy \/ spoke) /\ UNCHANGED <<said, field2c>>
      \/ /\ CallNaviDialogue(event, Kasumi, line)
         /\ field2c' = IF event = "weakness" THEN line ELSE field2c
    BY DEF KasumiActs
<1> HIDE DEF line
<1>4. CASE busy' = (busy \/ spoke) /\ UNCHANGED <<said, field2c>>
    <2>1. busy' \in BOOLEAN
        BY <1>4 DEF NaviInv, NaviTypeOK
    <2>2. UNCHANGED <<cast, ailments, lowHP, debuffs>>
        BY <1>2 DEF health
    <2>3. SaidRight'
        BY <1>4, <2>2 DEF NaviInv, SaidRight, LineOf, Message
    <2> QED
        BY <1>2, <1>4, <2>1, <2>2, <2>3, SayStep DEF NaviInv, NaviTypeOK
<1>5. CASE /\ CallNaviDialogue(event, Kasumi, line)
           /\ field2c' = IF event = "weakness" THEN line ELSE field2c
    <2>1. field2c' \in {Silent} \cup (873..907)
        BY <1>1, <1>5 DEF NaviInv, NaviTypeOK
    <2> QED
        BY <1>1, <1>2, <1>5, <2>1, CallStep
<1> QED
    BY <1>3, <1>4, <1>5

\* What is most urgent has a line that no mark stands for yet, or none.
LEMMA WarningIsNew ==
    ASSUME NaviInv, WarningLine(Urgent) # Silent
    PROVE  /\ WarningLine(Urgent) \in 877..892 /\ ~Marked(WarningLine(Urgent))
           /\ \/ /\ Urgent = "ailment"
                 /\ \E a \in ailments : WarningLine(Urgent) = 881 + a
              \/ Urgent = "hp" /\ WarningLine(Urgent) = 880
              \/ Urgent = "atk" /\ WarningLine(Urgent) = 877
              \/ Urgent = "def" /\ WarningLine(Urgent) = 878
              \/ Urgent = "eva" /\ WarningLine(Urgent) = 879
<1>1. ailments \subseteq 0..11 /\ hasUzukiAilmentAnnounce \subseteq 0..11
    BY DEF NaviInv, NaviTypeOK
<1>2. CASE Urgent = "ailment"
    <2>1. NewAilments # {} /\ NewAilments \subseteq 0..11
        BY <1>1, <1>2 DEF Urgent, NewAilments
    <2> DEFINE last == CHOOSE a \in NewAilments : \A b \in NewAilments : b <= a
    <2>2. last \in NewAilments
        BY <2>1, LastAilment
    <2>3. WarningLine(Urgent) = 881 + last
        BY <1>2 DEF WarningLine
    <2> HIDE DEF last
    <2>4. last \in ailments /\ last \notin hasUzukiAilmentAnnounce /\ last \in 0..11
        BY <1>1, <2>2 DEF NewAilments
    <2> QED
        BY <1>1, <1>2, <2>3, <2>4 DEF Marked
<1>3. CASE Urgent # "ailment"
    <2>1. \/ Urgent = "hp" /\ "hp" \notin UzukiWarned
          \/ Urgent = "atk" /\ "atk" \notin UzukiWarned
          \/ Urgent = "def" /\ "def" \notin UzukiWarned
          \/ Urgent = "eva" /\ "eva" \notin UzukiWarned
        BY <1>3 DEF Urgent, WarningLine
    <2> QED
        BY <1>1, <2>1 DEF WarningLine, Marked
<1> QED
    BY <1>2, <1>3

\* Whatever is due is marked by the call, as one of the warnings.
LEMMA DueIsMarked ==
    ASSUME NaviInv, MarkWarning(Urgent), NEW k \in Due(Urgent)
    PROVE  k \in 877..892 /\ Marked(k)'
<1>1. ailments \subseteq 0..11
    BY DEF NaviInv, NaviTypeOK
<1>2. CASE Urgent = "ailment"
    <2>1. PICK a \in ailments : k = 881 + a
        BY <1>2 DEF Due
    <2>2. a \in hasUzukiAilmentAnnounce'
        BY <1>2, <2>1 DEF MarkWarning
    <2> QED
        BY <1>1, <2>1, <2>2 DEF Marked
<1>3. CASE Urgent # "ailment"
    <2>1. k = WarningLine(Urgent) /\ k # Silent
        BY <1>3 DEF Due
    <2>2. \/ k = 880 /\ Urgent = "hp"
          \/ k = 877 /\ Urgent = "atk"
          \/ k = 878 /\ Urgent = "def"
          \/ k = 879 /\ Urgent = "eva"
        BY <1>3, <2>1, WarningIsNew
    <2>3. Urgent \in {"hp"} \cup Debuffs => Urgent \in UzukiWarned'
        BY DEF MarkWarning
    <2> QED
        BY <2>2, <2>3 DEF Marked, Debuffs
<1> QED
    BY <1>2, <1>3

LEMMA WarnStep ==
    ASSUME NaviInv, NEW down, NEW lately, WarnAilment(down, lately)
    PROVE  NaviInv'
<1>0. PICK m : m = WarningLine(Urgent)
    OBVIOUS
<1>1. /\ UNCHANGED <<cast, ailments, lowHP, debuffs>> /\ MarkWarning(Urgent)
    BY DEF WarnAilment, health
<1>2. /\ hasUzukiAilmentAnnounce \subseteq hasUzukiAilmentAnnounce'
      /\ hasUzukiAilmentAnnounce' \subseteq 0..11
      /\ UzukiWarned \subseteq UzukiWarned' /\ UzukiWarned' \subseteq {"hp"} \cup Debuffs
    <2>1. /\ ailments \subseteq 0..11 /\ hasUzukiAilmentAnnounce \subseteq 0..11
          /\ UzukiWarned \subseteq {"hp"} \cup Debuffs
        BY DEF NaviInv, NaviTypeOK
    <2> QED
        BY <1>1, <2>1 DEF MarkWarning
<1>3. \A k : Marked(k) => Marked(k)'
    BY <1>2 DEF Marked
<1>4. /\ past' = past \cup Due(Urgent) /\ past' \subseteq 877..892
      /\ PastIsMarked'
    <2>1. past' = past \cup Due(Urgent)
        BY DEF WarnAilment
    <2>2. \A k \in Due(Urgent) : k \in 877..892 /\ Marked(k)'
        BY <1>1, DueIsMarked
    <2>3. past \subseteq 877..892 /\ \A k \in past : Marked(k)
        BY DEF NaviInv, NaviTypeOK, PastIsMarked
    <2>4. past' \subseteq 877..892
        <3>1. PICK warnings, due : warnings = 877..892 /\ due = Due(Urgent)
            OBVIOUS
        <3>2. due \subseteq warnings /\ past \subseteq warnings /\ past' = past \cup due
            BY <2>1, <2>2, <2>3, <3>1
        <3>3. past' \subseteq warnings
            BY <3>2, Zenon
        <3> QED
            BY <3>1, <3>3
    <2>5. \A k \in past' : Marked(k)'
        BY <1>3, <2>1, <2>2, <2>3
    <2> QED
        BY <2>1, <2>4, <2>5 DEF PastIsMarked
<1>5. CASE UNCHANGED <<said, field2c, late>> /\ busy' \in {busy, TRUE}
    <2>1. busy' \in BOOLEAN
        <3>1. busy \in BOOLEAN
            BY DEF NaviInv, NaviTypeOK
        <3> QED
            BY <1>5, <3>1
    <2>2. NaviTypeOK'
        BY <1>1, <1>2, <1>4, <1>5, <2>1 DEF NaviInv, NaviTypeOK
    <2>3. WarnedInTime' /\ SaidRight'
        BY <1>1, <1>5 DEF NaviInv, WarnedInTime, SaidRight, LineOf, Message
    <2> QED
        BY <1>4, <2>2, <2>3 DEF NaviInv
<1>6. CASE /\ m # Silent /\ CallNaviDialogue("warning", Kasumi, m) /\ field2c' = m
           /\ late' = (late \/ m \in past)
    <2>1. m \in 877..892 /\ ~Marked(m)
        BY <1>0, <1>6, WarningIsNew
    <2>2. busy' = TRUE /\ said' = [event |-> "warning", unit |-> Kasumi, message |-> m]
        BY <1>6 DEF CallNaviDialogue
    <2>3. "warning" \notin Events
        BY Numbers
    <2>4. m \notin past
        BY <2>1 DEF NaviInv, PastIsMarked
    <2>5. said'.event = "warning" /\ said'.message = m
        BY <2>2
    <2>6. ~late'
        BY <1>6, <2>4 DEF NaviInv, WarnedInTime
    <2>7. NaviTypeOK'
        BY <1>1, <1>2, <1>4, <1>6, <2>1, <2>2, <2>5, <2>6 DEF NaviInv, NaviTypeOK
    <2>8. WarnedInTime' /\ SaidRight'
        BY <2>3, <2>5, <2>6 DEF WarnedInTime, SaidRight
    <2> QED
        BY <1>4, <2>7, <2>8 DEF NaviInv
<1> QED
    BY <1>0, <1>5, <1>6 DEF WarnAilment

LEMMA NaviStep == NaviInv /\ [NaviNext]_naviVars => NaviInv'
<1> SUFFICES ASSUME NaviInv, [NaviNext]_naviVars PROVE NaviInv'
    OBVIOUS
<1>1. ASSUME BattleEndSkillChecks PROVE NaviInv'
    <2>1. said'.event = "none" /\ said'.message = Silent
        BY <1>1 DEF BattleEndSkillChecks, Nothing
    <2>2. NaviTypeOK'
        <3>1. lowHP' \in BOOLEAN /\ busy' \in BOOLEAN /\ late' \in BOOLEAN
            BY <1>1 DEF BattleEndSkillChecks
        <3>2. cast' \in Casts /\ field2c' \in {Silent} \cup (873..907)
            BY <1>1 DEF BattleEndSkillChecks, NaviInv, NaviTypeOK
        <3> QED
            BY <1>1, <2>1, <3>1, <3>2 DEF BattleEndSkillChecks, NaviTypeOK
    <2> QED
        BY <1>1, <2>1, <2>2, Numbers
           DEF BattleEndSkillChecks, NaviInv, WarnedInTime, SaidRight, PastIsMarked
<1>2. ASSUME LineEnds PROVE NaviInv'
    <2>1. /\ UNCHANGED <<cast, marks, ghosts>> /\ UNCHANGED <<ailments, lowHP, debuffs, field2c>>
          /\ busy' = FALSE /\ said' = Nothing
        BY <1>2 DEF LineEnds, health
    <2>2. said'.event = "none" /\ said'.message = Silent /\ "none" \notin Events
        BY <2>1, Numbers DEF Nothing
    <2>3. SaidRight'
        BY <2>2 DEF SaidRight
    <2>4. /\ ailments' \subseteq 0..11 /\ lowHP' \in BOOLEAN /\ debuffs' \subseteq Debuffs
          /\ field2c' \in {Silent} \cup (873..907)
        BY <2>1 DEF NaviInv, NaviTypeOK
    <2>5. busy' \in BOOLEAN
        BY <2>1
    <2> QED
        BY <2>1, <2>2, <2>3, <2>4, <2>5, SayStep
<1>3. ASSUME Suffer PROVE NaviInv'
    <2>1. UNCHANGED <<cast, marks, ghosts>> /\ UNCHANGED <<busy, field2c, said, cast>>
        BY <1>3 DEF Suffer
    <2>2. ailments' \subseteq 0..11 /\ lowHP' \in BOOLEAN /\ debuffs' \subseteq Debuffs
        <3>1. /\ ailments \subseteq 0..11 /\ lowHP \in BOOLEAN /\ debuffs \subseteq Debuffs
              /\ cast.ailments \subseteq 0..11 /\ cast.curses \subseteq Debuffs
            BY NavigatorAssumption DEF NaviInv, NaviTypeOK, Debuffs
        <3>2. ailments' \subseteq 0..11
            BY <1>3, <3>1 DEF Suffer
        <3>3. lowHP' \in BOOLEAN
            BY <1>3, <3>1 DEF Suffer
        <3>4. debuffs' \subseteq Debuffs
            BY <1>3, <3>1 DEF Suffer
        <3> QED
            BY <3>2, <3>3, <3>4
    <2>3. SaidRight'
        BY <2>1 DEF NaviInv, SaidRight, LineOf, Message
    <2> QED
        BY <2>1, <2>2, <2>3, SayStep DEF NaviInv, NaviTypeOK
<1>4. ASSUME UNCHANGED naviVars PROVE NaviInv'
    <2>1. UNCHANGED <<cast, marks, ghosts>>
          /\ UNCHANGED <<cast, ailments, lowHP, debuffs, busy, field2c, said>>
        BY <1>4 DEF naviVars, marks, ghosts
    <2>2. SaidRight'
        BY <2>1 DEF NaviInv, SaidRight, LineOf, Message
    <2> QED
        BY <2>1, <2>2, SayStep DEF NaviInv, NaviTypeOK
<1> QED
    BY <1>1, <1>2, <1>3, <1>4, RemarkStep, HurtStep, KnockStep, ActStep, WarnStep DEF NaviNext

\* What was due in a battle, said or not, stays marked until the battle ends.
THEOREM NaviInvariant == NaviSpec => []NaviInv
    BY NaviInitial, NaviStep, PTL DEF NaviSpec

\* kasumi.c, PartyMemberWarnAilment_NaviDialogue and the functions for what members
\* do: no warning twice in a battle or late, and every line tells what happened and to whom.
THEOREM LinesAreRightCorrect == NaviSpec => []LinesAreRight
<1>1. NaviInv => TellsEventAndUnit
    <2> SUFFICES ASSUME NaviInv, said.event \in Events, said.message \notin {60, 70},
                        NEW event \in Events, NEW u \in (1..10) \ {8},
                        Message(cast, event, u) = said.message
                 PROVE  /\ event = said.event
                        /\ u # said.unit => {u, said.unit} \cap (cast.named \cup {Kasumi}) = {}
        BY DEF TellsEventAndUnit
    <2>1. /\ said.unit \in (1..10) \ {8} /\ said.message # Silent
          /\ said.message = Message(cast, said.event, said.unit)
        BY DEF NaviInv, SaidRight, LineOf
    <2>2. PICK v \in (1..10) \ {8}, f \in Events : v = said.unit /\ f = said.event
        BY <2>1
    <2>3. Message(cast, event, u) = Message(cast, f, v) /\ Message(cast, event, u) # Silent
        BY <2>1, <2>2
    <2>4. event = f /\ (u # v => /\ u \notin cast.named \cup {Kasumi}
                                 /\ v \notin cast.named \cup {Kasumi})
        BY <2>2, <2>3, LineTells
    <2> QED
        BY <2>2, <2>4
<1>2. NaviInv => LinesAreRight
    BY <1>1 DEF NaviInv, LinesAreRight
<1> QED
    BY <1>2, NaviInvariant, PTL

(***************************************************************************)
(* The orders of scripts, for every squad and whatever flags the game gives *)
(* its units.                                                               *)
(***************************************************************************)
\* The inductive invariant
OrdersInv == OrdersTypeOK /\ FlagsAsTold

\* A state that is not negative sets its bit, or none.
LEMMA ShiftedIs ==
    ASSUME NEW state \in Int, NEW bit \in Ordered
    PROVE  /\ Shifted(state, bit) \subseteq 0..31
           /\ state > 0 => Shifted(state, bit) = {bit}
           /\ state = 0 => Shifted(state, bit) = {}
BY DEF Shifted, Ordered, TargetBit, EndureBit

\* The units that stand in the list, by place; Joker and the members are none.
LEMMA UnitsAre ==
    /\ Squad \subseteq AnyUnit /\ 1..10 \subseteq AnyUnit
    /\ \A u \in Squad : u \notin 1..10 /\ u # NoOne
BY OrdersAssumption DEF AnyUnit, NoOne

\* An enemy that is found by its ID is the first with it.
LEMMA FoundFirst ==
    ASSUME OrdersTypeOK, NEW id, GetBtlUnitInCombat(id) # NoOne
    PROVE  \E i \in DOMAIN lineup :
               /\ lineup[i] = GetBtlUnitInCombat(id) /\ lineup[i] \in Squad
               /\ ~OlderTwin(i)
<1>1. lineup \in Seq(Squad) /\ DOMAIN lineup = 1..Len(lineup) /\ Len(lineup) \in Nat
    BY DEF OrdersTypeOK
<1>2. Bearers(id) # {} /\ Bearers(id) \subseteq Nat
    BY <1>1 DEF GetBtlUnitInCombat, Bearers
<1>3. PICK x \in Bearers(id) : \A y \in Bearers(id) : ~(y < x)
    BY <1>2, LeastOf
<1>4. \A j \in Bearers(id) : x <= j
    BY <1>2, <1>3
<1>5. PICK i \in Bearers(id) : i = FirstOf(Bearers(id)) /\ \A j \in Bearers(id) : i <= j
    BY <1>4 DEF FirstOf
<1>6. GetBtlUnitInCombat(id) = lineup[i] /\ i \in DOMAIN lineup /\ SquadID[lineup[i]] = id
    BY <1>2, <1>5 DEF GetBtlUnitInCombat, Bearers
<1>7. ~OlderTwin(i)
    <2> SUFFICES ASSUME NEW j \in 1..(i - 1), 
                        SquadID[lineup[j]] = SquadID[lineup[i]]
                 PROVE FALSE
        BY DEF OlderTwin
    <2>1. i \in 1..Len(lineup)
        BY <1>1, <1>6
    <2>2. j \in DOMAIN lineup /\ j < i
        BY <1>1, <2>1
    <2>3. j \in Bearers(id)
        BY <1>6, <2>2 DEF Bearers
    <2> QED
        BY <1>5, <2>1, <2>2, <2>3
<1> QED
    BY <1>1, <1>6, <1>7

LEMMA OrdersInitial == OrdersInit => OrdersInv
<1> SUFFICES ASSUME OrdersInit PROVE OrdersInv
    OBVIOUS
<1>1. PICK w \in Words : given = [u \in AnyUnit |-> w]
    BY DEF OrdersInit
<1>2. w \subseteq 0..31 /\ 0 \in States
    BY OrdersAssumption
<1>3. /\ told = [u \in AnyUnit |-> w \cap Ordered]
      /\ Flags = given /\ TacticsState = [u \in AnyUnit |-> 0] /\ wild = {}
      /\ lineup = <<>> /\ acting = NoOne /\ enemyBtlUnit = NoOne
    BY <1>1 DEF OrdersInit
<1>4. /\ given \in [AnyUnit -> SUBSET (0..31)] /\ Flags \in [AnyUnit -> SUBSET (0..31)]
      /\ TacticsState \in [AnyUnit -> States] /\ lineup \in Seq(Squad)
    BY <1>1, <1>2, <1>3
<1>5. told \in [AnyUnit -> SUBSET Ordered]
    BY <1>3
<1>6. FlagsAsTold
    BY <1>1, <1>3 DEF FlagsAsTold
<1> QED
    BY <1>3, <1>4, <1>5, <1>6 DEF OrdersInv, OrdersTypeOK

\* A command that sets a state of one unit keeps what was told to the others.
LEMMA SetStateStep ==
    ASSUME OrdersInv, NEW u \in AnyUnit, NEW state \in States, NEW bit \in Ordered,
           SetState(u, state, bit), lineup' = lineup, acting' = acting,
           enemyBtlUnit' \in Squad \cup {NoOne}
    PROVE  /\ OrdersInv' /\ TacticsState' = TacticsState
           /\ \A v \in AnyUnit : v # u => Flags'[v] = Flags[v]
<1> DEFINE new == IF state > 0 THEN told[u] \cup {bit} ELSE told[u] \ {bit}
<1>1. /\ Flags' = [Flags EXCEPT ![u] = WithState(Flags[u], state, bit)]
      /\ told' = [told EXCEPT ![u] = new]
      /\ wild' = IF state < 0 THEN wild \cup {u} ELSE wild
      /\ UNCHANGED <<given, TacticsState>>
    BY DEF SetState
<1>2. /\ Flags \in [AnyUnit -> SUBSET (0..31)] /\ given \in [AnyUnit -> SUBSET (0..31)]
      /\ told \in [AnyUnit -> SUBSET Ordered] /\ wild \subseteq AnyUnit
      /\ state \in Int
    BY OrdersAssumption DEF OrdersInv, OrdersTypeOK
<1>3. WithState(Flags[u], state, bit) \subseteq 0..31 /\ new \subseteq Ordered
    BY <1>2, ShiftedIs DEF WithState
<1> HIDE DEF new
<1>4. /\ Flags' \in [AnyUnit -> SUBSET (0..31)] /\ Flags'[u] = WithState(Flags[u], state, bit)
      /\ \A v \in AnyUnit : v # u => Flags'[v] = Flags[v]
    BY <1>1, <1>2, <1>3
<1>5. /\ told' \in [AnyUnit -> SUBSET Ordered] /\ told'[u] = new
      /\ \A v \in AnyUnit : v # u => told'[v] = told[v]
    BY <1>1, <1>2, <1>3
<1>6. wild \subseteq wild' /\ wild' \subseteq AnyUnit /\ (state < 0 => u \in wild')
    BY <1>1, <1>2
<1>7. OrdersTypeOK'
    BY <1>1, <1>4, <1>5, <1>6 DEF OrdersInv, OrdersTypeOK
<1>8. FlagsAsTold'
    <2> SUFFICES ASSUME NEW v \in AnyUnit, v \notin wild'
                 PROVE  Flags'[v] = told'[v] \cup (given'[v] \ Ordered)
        BY DEF FlagsAsTold
    <2>1. Flags[v] = told[v] \cup (given[v] \ Ordered)
        BY <1>6 DEF OrdersInv, FlagsAsTold
    <2>2. CASE v # u
        BY <1>1, <1>4, <1>5, <2>1, <2>2
    <2>3. CASE v = u /\ state > 0
        <3>1. Flags'[u] = (Flags[u] \ {bit}) \cup {bit} /\ told'[u] = told[u] \cup {bit}
            BY <1>2, <1>4, <1>5, <2>3, ShiftedIs DEF WithState, new
        <3> QED
            BY <1>1, <2>1, <2>3, <3>1
    <2>4. CASE v = u /\ state = 0
        <3>1. Flags'[u] = Flags[u] \ {bit} /\ told'[u] = told[u] \ {bit}
            BY <1>2, <1>4, <1>5, <2>4, ShiftedIs DEF WithState, new
        <3> QED
            BY <1>1, <2>1, <2>4, <3>1
    <2> QED
        BY <1>2, <1>6, <2>2, <2>3, <2>4
<1> QED
    BY <1>1, <1>4, <1>7, <1>8 DEF OrdersInv

\* Tactics are no flags.
LEMMA SetTacticsStep ==
    ASSUME OrdersInv, NEW u \in AnyUnit, NEW state \in States, SetTactics(u, state)
    PROVE  /\ OrdersInv' /\ lineup' = lineup /\ acting' = acting
           /\ \A v \in AnyUnit : Flags'[v] = Flags[v]
           /\ \A v \in AnyUnit : v # u => TacticsState'[v] = TacticsState[v]
<1>1. /\ UNCHANGED <<lineup, acting, enemyBtlUnit, Flags, given, told, wild>>
      /\ TacticsState' = [TacticsState EXCEPT ![u] = state]
    BY DEF SetTactics, combatVars, flagVars
<1>2. TacticsState' \in [AnyUnit -> States]
    BY <1>1 DEF OrdersInv, OrdersTypeOK
<1> QED
    BY <1>1, <1>2 DEF OrdersInv, OrdersTypeOK, FlagsAsTold

\* One unit is reached, by whichever command, and the list stays.
Reached(u) ==
    /\ Touched \subseteq {u}
    /\ u \in Squad /\ u # acting =>
           \E i \in DOMAIN lineup : lineup[i] = u /\ ~OlderTwin(i)

LEMMA TargetableStep ==
    ASSUME OrdersInv, NEW state \in States, EX_AI_SET_TARGETABLE_STATE(state)
    PROVE  OrdersInv' /\ \E u \in AnyUnit : Reached(u)
<1>1. /\ acting \in Squad /\ enemyBtlUnit' = acting /\ SetState(acting, state, TargetBit)
      /\ UNCHANGED <<lineup, acting>>
    BY DEF EX_AI_SET_TARGETABLE_STATE, AI_CHK_SLIP, OrdersInv, OrdersTypeOK
<1>2. acting \in AnyUnit /\ TargetBit \in Ordered
    BY <1>1, UnitsAre DEF Ordered
<1>3. /\ OrdersInv' /\ TacticsState' = TacticsState
      /\ \A v \in AnyUnit : v # acting => Flags'[v] = Flags[v]
    BY <1>1, <1>2, SetStateStep
<1>4. Reached(acting)
    BY <1>3 DEF Reached, Touched
<1> QED
    BY <1>2, <1>3, <1>4

LEMMA ByIDStep ==
    ASSUME OrdersInv, NEW id, NEW state \in States, NEW bit \in Ordered,
           SetStateByID(id, state, bit)
    PROVE  OrdersInv' /\ \E u \in AnyUnit : Reached(u)
<1>1. PICK u : u = GetBtlUnitInCombat(id)
    OBVIOUS
<1>2. /\ u # NoOne /\ SetState(u, state, bit)
      /\ UNCHANGED <<lineup, acting, enemyBtlUnit>>
    BY <1>1 DEF SetStateByID, combatVars
<1>3. \E i \in DOMAIN lineup : lineup[i] = u /\ lineup[i] \in Squad /\ ~OlderTwin(i)
    BY <1>1, <1>2, FoundFirst DEF OrdersInv
<1>4. u \in AnyUnit
    BY <1>3, UnitsAre
<1>5. enemyBtlUnit' \in Squad \cup {NoOne}
    BY <1>2 DEF OrdersInv, OrdersTypeOK
<1>6. /\ OrdersInv' /\ TacticsState' = TacticsState
      /\ \A v \in AnyUnit : v # u => Flags'[v] = Flags[v]
    BY <1>2, <1>4, <1>5, SetStateStep
<1>7. Reached(u)
    BY <1>3, <1>6 DEF Reached, Touched
<1> QED
    BY <1>4, <1>6, <1>7

LEMMA JokerStep ==
    ASSUME OrdersInv, NEW state \in States, EX_SET_JOKER_ENDURE_STATE(state)
    PROVE  OrdersInv' /\ \E u \in AnyUnit : Reached(u)
<1>1. /\ SetState(JokerUnit, state, EndureBit) /\ UNCHANGED <<lineup, acting, enemyBtlUnit>>
      /\ JokerUnit \in AnyUnit /\ JokerUnit \notin Squad /\ EndureBit \in Ordered
    BY UnitsAre DEF EX_SET_JOKER_ENDURE_STATE, combatVars, JokerUnit, Ordered
<1>2. enemyBtlUnit' \in Squad \cup {NoOne}
    BY <1>1 DEF OrdersInv, OrdersTypeOK
<1>3. /\ OrdersInv' /\ TacticsState' = TacticsState
      /\ \A v \in AnyUnit : v # JokerUnit => Flags'[v] = Flags[v]
    BY <1>1, <1>2, SetStateStep
<1>4. Reached(JokerUnit)
    BY <1>1, <1>3 DEF Reached, Touched
<1> QED
    BY <1>1, <1>3, <1>4

LEMMA TacticsStep ==
    ASSUME OrdersInv, NEW state \in States,
           \/ \E id : EX_SET_ENID_TACTICS(id, state)
           \/ \E m \in Orderees : EX_SET_TACTICS_STATE(m, state)
    PROVE  OrdersInv' /\ \E u \in AnyUnit : Reached(u)
<1>1. ASSUME NEW id, EX_SET_ENID_TACTICS(id, state)
      PROVE  OrdersInv' /\ \E u \in AnyUnit : Reached(u)
    <2>1. PICK u : u = GetBtlUnitInCombat(id)
        OBVIOUS
    <2>2. u # NoOne /\ SetTactics(u, state)
        BY <1>1, <2>1 DEF EX_SET_ENID_TACTICS
    <2>3. \E i \in DOMAIN lineup : lineup[i] = u /\ lineup[i] \in Squad /\ ~OlderTwin(i)
        BY <2>1, <2>2, FoundFirst DEF OrdersInv
    <2>4. u \in AnyUnit
        BY <2>3, UnitsAre
    <2>5. Reached(u) /\ OrdersInv'
        BY <2>2, <2>3, <2>4, SetTacticsStep DEF Reached, Touched
    <2> QED
        BY <2>4, <2>5
<1>2. ASSUME NEW m \in Orderees, EX_SET_TACTICS_STATE(m, state)
      PROVE  OrdersInv' /\ \E u \in AnyUnit : Reached(u)
    <2>1. m \in 1..10 /\ SetTactics(m, state)
        BY <1>2, OrdersAssumption DEF EX_SET_TACTICS_STATE
    <2>2. m \in AnyUnit /\ m \notin Squad
        BY <2>1, UnitsAre
    <2>3. Reached(m) /\ OrdersInv'
        BY <2>1, <2>2, SetTacticsStep DEF Reached, Touched
    <2> QED
        BY <2>2, <2>3
<1> QED
    BY <1>1, <1>2

\* A unit that enters is as the game makes it.
LEMMA EnterStep ==
    ASSUME OrdersInv, NEW u \in Squad, NEW w \in Words, Enter(u, w)
    PROVE  OrdersInv' /\ lineup' # lineup
<1>1. /\ lineup' = Append(lineup, u) /\ UNCHANGED <<acting, enemyBtlUnit>>
      /\ given' = [given EXCEPT ![u] = w] /\ Flags' = [Flags EXCEPT ![u] = w]
      /\ told' = [told EXCEPT ![u] = w \cap Ordered]
      /\ wild' = wild \ {u} /\ TacticsState' = [TacticsState EXCEPT ![u] = 0]
    BY DEF Enter
<1>2. w \subseteq 0..31 /\ 0 \in States /\ u \in AnyUnit
    BY OrdersAssumption, UnitsAre
<1>3. lineup \in Seq(Squad) /\ Len(lineup) \in Nat
    BY DEF OrdersInv, OrdersTypeOK
<1>4. lineup' \in Seq(Squad) /\ Len(lineup') = Len(lineup) + 1
    BY <1>1, <1>3
<1>5. lineup' # lineup
    BY <1>3, <1>4
<1>6. /\ told' \in [AnyUnit -> SUBSET Ordered] /\ told'[u] = w \cap Ordered
      /\ \A v \in AnyUnit : v # u => told'[v] = told[v]
    BY <1>1, <1>2 DEF OrdersInv, OrdersTypeOK
<1>7. /\ given' \in [AnyUnit -> SUBSET (0..31)] /\ Flags' \in [AnyUnit -> SUBSET (0..31)]
      /\ TacticsState' \in [AnyUnit -> States]
      /\ Flags'[u] = w /\ given'[u] = w
      /\ \A v \in AnyUnit : v # u => Flags'[v] = Flags[v] /\ given'[v] = given[v]
    BY <1>1, <1>2 DEF OrdersInv, OrdersTypeOK
<1>8. OrdersTypeOK'
    BY <1>1, <1>4, <1>6, <1>7 DEF OrdersInv, OrdersTypeOK
<1>9. FlagsAsTold'
    <2> SUFFICES ASSUME NEW v \in AnyUnit, v \notin wild'
                 PROVE  Flags'[v] = told'[v] \cup (given'[v] \ Ordered)
        BY DEF FlagsAsTold
    <2>1. CASE v = u
        BY <1>6, <1>7, <2>1
    <2>2. CASE v # u
        <3>1. v \notin wild
            BY <1>1, <2>2
        <3> QED
            BY <1>6, <1>7, <2>2, <3>1 DEF OrdersInv, FlagsAsTold
    <2> QED
        BY <2>1, <2>2
<1> QED
    BY <1>5, <1>8, <1>9 DEF OrdersInv

\* Who leaves or acts is told nothing.
LEMMA ComeAndGoStep ==
    ASSUME OrdersInv,
           \/ \E u \in Squad : LeaveCombat(u) \/ TurnOf(u)
           \/ TurnEnds \/ UNCHANGED orderVars
    PROVE  OrdersInv' /\ UNCHANGED <<Flags, TacticsState>>
<1>1. /\ UNCHANGED <<enemyBtlUnit, Flags, given, told, wild, TacticsState>>
      /\ acting' \in Squad \cup {NoOne}
    BY DEF LeaveCombat, TurnOf, TurnEnds, orderVars, combatVars, flagVars, OrdersInv, OrdersTypeOK
<1>2. lineup' \in Seq(Squad)
    <2>1. lineup \in Seq(Squad)
        BY DEF OrdersInv, OrdersTypeOK
    <2>2. CASE lineup' = lineup
        BY <2>1, <2>2
    <2>3. ASSUME NEW i \in DOMAIN lineup,
                 lineup' = SubSeq(lineup, 1, i - 1) \o SubSeq(lineup, i + 1, Len(lineup))
          PROVE  lineup' \in Seq(Squad)
        <3>1. i \in 1..Len(lineup) /\ Len(lineup) \in Nat
            BY <2>1
        <3>2. SubSeq(lineup, 1, i - 1) \in Seq(Squad)
            BY <2>1, <3>1
        <3>3. SubSeq(lineup, i + 1, Len(lineup)) \in Seq(Squad)
            BY <2>1, <3>1
        <3> QED
            BY <2>3, <3>2, <3>3
    <2> QED
        BY <2>2, <2>3 DEF LeaveCombat, TurnOf, TurnEnds, orderVars, combatVars
<1> QED
    BY <1>1, <1>2 DEF OrdersInv, OrdersTypeOK, FlagsAsTold

LEMMA OrdersStep ==
    ASSUME OrdersInv, [OrdersNext]_orderVars
    PROVE  OrdersInv' /\ (lineup' = lineup => \E u \in AnyUnit : Reached(u))
<1>1. CASE \/ \E u \in Squad : LeaveCombat(u) \/ TurnOf(u)
           \/ TurnEnds \/ UNCHANGED orderVars
    <2>1. OrdersInv' /\ Touched = {}
        BY <1>1, ComeAndGoStep DEF Touched
    <2>2. Reached(JokerUnit) /\ JokerUnit \in AnyUnit
        BY <2>1, UnitsAre DEF Reached, JokerUnit
    <2> QED
        BY <2>1, <2>2
<1>2. CASE \E u \in Squad, w \in Words : Enter(u, w)
    BY <1>2, EnterStep
<1>3. CASE \E s \in States : EX_AI_SET_TARGETABLE_STATE(s) \/ EX_SET_JOKER_ENDURE_STATE(s)
    BY <1>3, TargetableStep, JokerStep
<1>4. CASE \E u \in Squad, s \in States, b \in Ordered : SetStateByID(SquadID[u], s, b)
    BY <1>4, ByIDStep
<1>5. CASE \/ \E u \in Squad, s \in States : EX_SET_ENID_TACTICS(SquadID[u], s)
           \/ \E m \in Orderees, s \in States : EX_SET_TACTICS_STATE(m, s)
    BY <1>5, TacticsStep
<1> QED
    BY <1>1, <1>2, <1>3, <1>4, <1>5 DEF OrdersNext

\* What the flags say is what the unit was told, in every state.
THEOREM OrdersInvariant == OrdersSpec => []OrdersInv
<1>1. OrdersInv /\ [OrdersNext]_orderVars => OrdersInv'
    BY OrdersStep
<1> QED
    BY <1>1, OrdersInitial, PTL DEF OrdersSpec

\* EXFLW.c, the commands for targets, endurance and tactics, and p5.c,
\* GetBtlUnitInCombat: a unit's flags are as it was told last, and an order reaches
\* one unit, the one that acts or the first in combat with the ID.
THEOREM OrdersObeyedCorrect == OrdersSpec => OrdersObeyed
<1> DEFINE OrderIsOwn ==
        lineup' = lineup =>
            \E u \in AnyUnit :
                /\ Touched \subseteq {u}
                /\ u \in Squad \cap Touched /\ u # acting =>
                       \E i \in DOMAIN lineup : lineup[i] = u /\ ~OlderTwin(i)
<1>1. OrdersInv /\ [OrdersNext]_orderVars => [OrderIsOwn]_orderVars
    <2> SUFFICES ASSUME OrdersInv, [OrdersNext]_orderVars PROVE OrderIsOwn
        OBVIOUS
    <2> QED
        BY OrdersStep DEF Reached
<1>2. OrdersInv => OrdersTypeOK /\ FlagsAsTold
    BY DEF OrdersInv
<1> QED
    BY <1>1, <1>2, OrdersInvariant, PTL DEF OrdersSpec, OrdersObeyed, OrdersAreOwn

(***************************************************************************)
(* Abilities, whatever bonuses are obtained, whatever the register holds    *)
(* and however long the skill lists are.                                    *)
(***************************************************************************)

\* Who has endured in this encounter has been remembered.
Remembered ==
    bonuses \cap Leftovers = {} =>
        \A u \in Late : encounter # 0 /\ endures[u] = 1 => u \in hasEndured

\* The inductive invariant
AbilitiesInv == AbilitiesTypeOK /\ EnduresOnce /\ Remembered /\ EarlyEndIsThisBattles

\* The tables, turned around: the bonuses that are a member's.
BonusesOf(p) ==
    CASE p \in {1, 8} -> {0}
      [] p = 2 -> {72, 73, 74, 79}
      [] p = 3 -> {12, 13, 18, 19}
      [] p = 4 -> {61, 63, 65, 69}
      [] p = 5 -> {42, 45, 46, 49}
      [] p = 6 -> {22, 25, 26, 29}
      [] p = 7 -> {31, 32, 35, 39}
      [] p = 9 -> {51, 85, 86, 88}
      [] p = 10 -> {0, 13, 18, 19}

LEMMA OwnIs == \A p \in Player, a \in Personal : Own(p, a) \in BonusesOf(p)
<1> SUFFICES ASSUME NEW p \in Player, NEW a \in Personal PROVE Own(p, a) \in BonusesOf(p)
    OBVIOUS
<1>1. p \in {1, 2, 3, 4, 5, 6, 7, 8, 9, 10} /\ a \in {1, 2, 12, 14, 15}
    BY DEF Player, Personal
<1>2. /\ FollowUp[p] \in BonusesOf(p) /\ BatonPass[p] \in BonusesOf(p)
      /\ Harisen[p] \in BonusesOf(p) /\ Protect[p] \in BonusesOf(p)
    BY <1>1 DEF FollowUp, BatonPass, Harisen, Protect, BonusesOf
<1> QED
    BY <1>1, <1>2 DEF Own

\* No bonus is of two members, but for Morgana's, which are Kasumi's too.
LEMMA BonusesDiffer ==
    \A p, q \in Player : \A b \in BonusesOf(p) \cap BonusesOf(q) :
        b # 0 => p = q \/ {p, q} \subseteq {3, 10}
BY DEF Player, BonusesOf

LEMMA SharedAreNotPersonal == \A s \in Shared : s[1] \notin Personal
BY DEF Shared, Personal

LEMMA AbilitiesInitial == AbilitiesInit => AbilitiesInv
<1> SUFFICES ASSUME AbilitiesInit PROVE AbilitiesInv
    OBVIOUS
<1>1. AutoUnlockBatonPass \in BOOLEAN /\ jokerLast \in BOOLEAN /\ flag8348 \in BOOLEAN
    BY DEF AbilitiesInit
<1>2. AbilitiesTypeOK
    BY <1>1 DEF AbilitiesInit, AbilitiesTypeOK, Twice
<1>3. EnduresOnce /\ Remembered /\ EarlyEndIsThisBattles
    BY DEF AbilitiesInit, EnduresOnce, Remembered, EarlyEndIsThisBattles
<1> QED
    BY <1>2, <1>3 DEF AbilitiesInv

LEMMA EndureStep ==
    ASSUME AbilitiesInv, NEW u \in Player, CheckUnitIsEndure(u)
    PROVE  AbilitiesInv'
<1>1. /\ encounter # 0 /\ hasEndured' = hasEndured \cup ({u} \cap Late)
      /\ UNCHANGED <<AutoUnlockBatonPass, bonuses, encounter, jokerLast, flag8348, ringVars>>
    BY DEF CheckUnitIsEndure, Remember
<1>2. PICK b \in EndureBonus(u) :
          endures' = IF u \in Late /\ b \in bonuses
                     THEN [endures EXCEPT ![u] = IF @ < Twice THEN @ + 1 ELSE @] ELSE endures
    BY DEF CheckUnitIsEndure, IsConfidantBonusObtained
<1>3. endures \in [Late -> 0..2] /\ hasEndured \subseteq Late
    BY DEF AbilitiesInv, AbilitiesTypeOK, Twice
<1>4. endures' \in [Late -> 0..2] /\ hasEndured' \subseteq Late
    BY <1>1, <1>2, <1>3 DEF Twice
<1>5. ASSUME bonuses \cap Leftovers = {}, NEW v \in Late
      PROVE  endures'[v] <= 1 /\ (endures'[v] = 1 => v \in hasEndured')
    <2>1. endures[v] <= 1 /\ (endures[v] = 1 => v \in hasEndured)
        BY <1>1, <1>5 DEF AbilitiesInv, EnduresOnce, Remembered
    <2>2. CASE u = v /\ b \in bonuses
        <3>1. b \notin Leftovers
            BY <1>5, <2>2
        <3>2. u \notin hasEndured
            BY <1>2, <3>1 DEF EndureBonus
        <3>3. endures[v] = 0
            BY <1>3, <2>1, <2>2, <3>2
        <3> QED
            BY <1>1, <1>2, <1>3, <2>2, <3>3 DEF Twice
    <2>3. CASE ~(u = v /\ b \in bonuses)
        <3>1. endures'[v] = endures[v]
            BY <1>2, <1>3, <2>3
        <3> QED
            BY <1>1, <2>1, <3>1
    <2> QED
        BY <2>2, <2>3
<1>6. EnduresOnce' /\ Remembered'
    BY <1>1, <1>5 DEF EnduresOnce, Remembered
<1>7. AbilitiesTypeOK'
    <2>1. UNCHANGED <<list, ring, ActiveGlobalSkillSlot>>
        BY <1>1 DEF ringVars
    <2> QED
        BY <1>1, <1>4, <2>1 DEF AbilitiesInv, AbilitiesTypeOK, Twice
<1> QED
    BY <1>1, <1>6, <1>7 DEF AbilitiesInv, EarlyEndIsThisBattles

\* The cursor stays on the list and the added skill.
LEMMA CursorStays ==
    ASSUME AbilitiesInv, NEW b \in Buttons, FUN_00829ce8Hook(b)
    PROVE  list \in ListLengths /\ ring' \in 0..list
<1>1. list \in ListLengths /\ list \in Nat /\ list >= 2 /\ ring \in 0..list
    <2>1. list # 0
        BY DEF FUN_00829ce8Hook
    <2>2. list \in ListLengths \cup {0} /\ ring \in 0..list
        BY DEF AbilitiesInv, AbilitiesTypeOK
    <2>3. ListLengths \subseteq Nat \ {0, 1}
        BY AbilitiesAssumption
    <2> QED
        BY <2>1, <2>2, <2>3
<1>2. Moved(b) \in 0..list
    BY <1>1 DEF Moved, Buttons
<1>3. ring' \in {Moved(b), list}
    BY <1>1 DEF FUN_00829ce8Hook, numOfSkills
<1> QED
    BY <1>1, <1>2, <1>3

LEMMA AbilitiesStep == AbilitiesInv /\ [AbilitiesNext]_abilityVars => AbilitiesInv'
<1> SUFFICES ASSUME AbilitiesInv, [AbilitiesNext]_abilityVars PROVE AbilitiesInv'
    OBVIOUS
<1> USE DEF AbilitiesInv, AbilitiesTypeOK, EnduresOnce, Remembered, EarlyEndIsThisBattles,
            battleVars, ringVars
<1>1. ASSUME NEW b \in Bonuses, ObtainBonus(b) PROVE AbilitiesInv'
    <2>1. bonuses \subseteq bonuses' /\ bonuses' \subseteq Bonuses
        BY <1>1 DEF ObtainBonus
    <2>2. bonuses' \cap Leftovers = {} => bonuses \cap Leftovers = {}
        BY <2>1
    <2> QED
        BY <1>1, <2>1, <2>2 DEF ObtainBonus
<1>2. ASSUME NEW e \in Encounters, Begin(e) PROVE AbilitiesInv'
    <2>1. encounter = 0 /\ e \in Nat
        BY <1>2, AbilitiesAssumption DEF Begin
    <2>2. ~flag8348 /\ flag8348' = flag8348 /\ jokerLast' \in BOOLEAN
        <3>1. ~flag8348
            BY <2>1 DEF FirstWithEarlyEnd
        <3> QED
            BY <1>2, <3>1 DEF Begin
    <2>3. endures' \in [Late -> 0..Twice] /\ \A u \in Late : endures'[u] = 0
        BY <1>2 DEF Begin, Twice
    <2> QED
        BY <1>2, <2>2, <2>3 DEF Begin
<1>3. ASSUME EndEncounter \/ GameOver PROVE AbilitiesInv'
    <2>1. ~flag8348' /\ flag8348' \in BOOLEAN /\ jokerLast' \in BOOLEAN
        BY <1>3 DEF EndEncounter, GameOver, ClearsFlag
    <2> QED
        BY <1>3, <2>1 DEF EndEncounter, GameOver
<1>4. ASSUME JokersPoints \/ AkechiEncounterCheckEnd PROVE AbilitiesInv'
    <2>1. flag8348' \in BOOLEAN /\ jokerLast' \in BOOLEAN
        BY <1>4 DEF JokersPoints, AkechiEncounterCheckEnd
    <2>2. flag8348' => encounter' >= FirstWithEarlyEnd
        BY <1>4 DEF JokersPoints, AkechiEncounterCheckEnd
    <2> QED
        BY <1>4, <2>1, <2>2 DEF JokersPoints, AkechiEncounterCheckEnd
<1>5. ASSUME CloseList \/ \E n \in ListLengths : OpenList(n) PROVE AbilitiesInv'
    <2>1. UNCHANGED <<AutoUnlockBatonPass, bonuses, battleVars, ActiveGlobalSkillSlot>>
        BY <1>5 DEF CloseList, OpenList
    <2>2. list' \in ListLengths \cup {0} /\ ring' \in 0..list'
        BY <1>5, AbilitiesAssumption DEF CloseList, OpenList
    <2> QED
        BY <2>1, <2>2
<1>6. ASSUME NEW b \in Buttons, FUN_00829ce8Hook(b) PROVE AbilitiesInv'
    <2>1. list \in ListLengths /\ ring' \in 0..list
        BY <1>6, CursorStays
    <2>2. UNCHANGED <<AutoUnlockBatonPass, bonuses, battleVars, list>>
          /\ ActiveGlobalSkillSlot' = ring'
        BY <1>6 DEF FUN_00829ce8Hook
    <2> QED
        BY <2>1, <2>2
<1>7. ASSUME UNCHANGED abilityVars PROVE AbilitiesInv'
    BY <1>7 DEF abilityVars
<1> QED
    BY <1>1, <1>2, <1>3, <1>4, <1>5, <1>6, <1>7, EndureStep DEF AbilitiesNext

\* What a member can do changes only by a bonus of that member's.
LEMMA GainersOwnIt ==
    ASSUME NEW b \in Bonuses, ObtainBonus(b), NEW p \in Gainers
    PROVE  p \in Player /\ b \in BonusesOf(p)
<1>1. bonuses' = bonuses \cup {b} /\ AutoUnlockBatonPass' = AutoUnlockBatonPass
    BY DEF ObtainBonus
<1>2. p \in Player /\ CanDo(p)' # CanDo(p)
    BY DEF Gainers
<1>3. \E a \in Personal : Own(p, a) = b
    <2> SUFFICES ASSUME \A a \in Personal : Own(p, a) # b PROVE CanDo(p)' = CanDo(p)
        BY <1>2
    <2>1. \A a \in Personal :
              CheckPartyMemberConfidantCombatAbilities(p, a)'
                  <=> CheckPartyMemberConfidantCombatAbilities(p, a)
        BY <1>1, SharedAreNotPersonal
           DEF CheckPartyMemberConfidantCombatAbilities, IsConfidantBonusObtained
    <2> QED
        BY <2>1 DEF CanDo
<1> QED
    BY <1>2, <1>3, OwnIs

LEMMA TraitsStep == [AbilitiesNext]_abilityVars /\ bonuses' # bonuses =>
                        Gainers \subseteq {3, 10} \/ Cardinality(Gainers) <= 1
<1> SUFFICES ASSUME [AbilitiesNext]_abilityVars, bonuses' # bonuses, ~(Gainers \subseteq {3, 10})
             PROVE  Cardinality(Gainers) <= 1
    OBVIOUS
<1>1. PICK b \in Bonuses : ObtainBonus(b)
    BY DEF AbilitiesNext, abilityVars, Begin, EndEncounter, GameOver, CheckUnitIsEndure,
           JokersPoints, AkechiEncounterCheckEnd, OpenList, CloseList, FUN_00829ce8Hook
<1>2. b # 0
    BY AbilitiesAssumption
<1>3. PICK p \in Gainers : p \notin {3, 10}
    OBVIOUS
<1>4. Gainers = {p}
    <2> SUFFICES ASSUME NEW q \in Gainers PROVE q = p
        OBVIOUS
    <2>1. /\ p \in Player /\ b \in BonusesOf(p)
          /\ q \in Player /\ b \in BonusesOf(q)
        BY <1>1, GainersOwnIt
    <2> QED
        BY <1>2, <1>3, <2>1, BonusesDiffer
<1>5. Cardinality({p}) = 1
    BY FS_Singleton
<1> QED
    BY <1>4, <1>5

LEMMA CursorStep ==
    AbilitiesInv => \A b \in Buttons : Settled /\ FUN_00829ce8Hook(b) => ring' = Neighbour(b)
<1> SUFFICES ASSUME AbilitiesInv, NEW b \in Buttons, Settled, FUN_00829ce8Hook(b)
             PROVE  ring' = Neighbour(b)
    OBVIOUS
<1>1. /\ list \in Nat /\ list > 2 /\ ring \in 0..list /\ ActiveGlobalSkillSlot = ring
    BY AbilitiesAssumption DEF Settled, AbilitiesInv, AbilitiesTypeOK
<1>2. ring' = IF \/ ring = list - 1 /\ Moved(b) = 0
                 \/ ring = 0 /\ Moved(b) = list - 1
              THEN list ELSE Moved(b)
    BY <1>1 DEF FUN_00829ce8Hook, Skips, numOfSkills
<1>3. CASE b = "down"
    BY <1>1, <1>2, <1>3 DEF Moved, Neighbour
<1>4. CASE b = "up"
    BY <1>1, <1>2, <1>4 DEF Moved, Neighbour
<1>5. CASE b = "none"
    BY <1>1, <1>2, <1>5 DEF Moved, Neighbour
<1> QED
    BY <1>3, <1>4, <1>5 DEF Buttons

\* A flag of an encounter is never left to the next, and who endured is known.
THEOREM AbilitiesInvariant == AbilitiesSpec => []AbilitiesInv
    BY AbilitiesInitial, AbilitiesStep, PTL DEF AbilitiesSpec

\* dc.c, CheckPartyMemberConfidantCombatAbilities, CheckUnitIsEndure,
\* AkechiEncounterCheckEnd and FUN_00829ce8Hook: a bonus is its confidant's, it is
\* endured once in an encounter, no encounter ends by the flag of another, and the
\* cursor goes to the neighbour.
THEOREM AbilitiesFitCorrect == AbilitiesSpec => AbilitiesFit
<1>1. AbilitiesInv => AbilitiesTypeOK /\ EnduresOnce /\ EarlyEndIsThisBattles
    BY DEF AbilitiesInv
<1>2. AbilitiesInv /\ [AbilitiesNext]_abilityVars =>
          [bonuses' # bonuses =>
               Gainers \subseteq {3, 10} \/ Cardinality(Gainers) <= 1]_abilityVars
    BY TraitsStep
<1>3. AbilitiesInv /\ [AbilitiesNext]_abilityVars =>
          [\A b \in Buttons : Settled /\ FUN_00829ce8Hook(b) => ring' = Neighbour(b)]_abilityVars
    BY CursorStep
<1> QED
    BY <1>1, <1>2, <1>3, AbilitiesInvariant, PTL
       DEF AbilitiesSpec, AbilitiesFit, TraitsAreOwn, CursorMovesToNeighbour

(***************************************************************************)
(* Looks and colours, for every configuration, persona, enemy and actor.    *)
(***************************************************************************)
Dark == option.enableAkechiMod /\ persona # Persona_RobinHood
LookOfBattle == IF Dark THEN "dark" ELSE "light"
NamesOfColours == {"game", "wheel", "member", "CrowColor1", "CrowColor2"}
Colours == [name : NamesOfColours, r : 0..255, g : 0..255, b : 0..255]

\* The colour is of the hue that the drawing has come to, or of the persona.
ColourFits ==
    /\ colour \in Colours
    /\ colour.name = "wheel" => colour \in hsv2rgb(FrameTiming \div 4)
    /\ colour.name = "CrowColor1" => persona = Persona_RobinHood
    /\ colour.name = "CrowColor2" => persona # Persona_RobinHood

\* The inductive invariant
LooksInv ==
    /\ persona \in Personas /\ inBattle \in BOOLEAN
    /\ currentActingUnit \in Actors \cup {NoActor, 1}
    /\ FrameTiming \in Nat /\ FrameTiming < 1440
    /\ seen \subseteq {LookOfBattle}
    /\ ColourFits

\* One channel of a hue that is k degrees into its sector, at most one too low.
Rises(t, k) ==
    /\ t \in 0..255 /\ 255 * k - 60 <= 60 * t /\ 60 * t <= 255 * k
    /\ k = 0 => t = 0
    /\ k = 60 => t = 255

OfSector(c, s, k) ==
    /\ c.name = "wheel"
    /\ s = 0 => c.r = 255 /\ Rises(c.g, k) /\ c.b = 0
    /\ s = 1 => Rises(c.r, 60 - k) /\ c.g = 255 /\ c.b = 0
    /\ s = 2 => c.r = 0 /\ c.g = 255 /\ Rises(c.b, k)
    /\ s = 3 => c.r = 0 /\ Rises(c.g, 60 - k) /\ c.b = 255
    /\ s = 4 => Rises(c.r, k) /\ c.g = 0 /\ c.b = 255
    /\ s = 5 => c.r = 255 /\ c.g = 0 /\ Rises(c.b, 60 - k)

LEMMA ChannelRises == \A k \in 0..60 : \A t \in Channel(k) : Rises(t, k)
<1> SUFFICES ASSUME NEW k \in 0..60, NEW t \in Channel(k) PROVE Rises(t, k)
    OBVIOUS
<1>1. PICK q \in Int, rest \in 0..59 :
          255 * k = 60 * q + rest /\ q = (255 * k) \div 60 /\ rest = (255 * k) % 60
    OBVIOUS
<1>2. t = q \/ (t = q - 1 /\ rest = 0 /\ k \in 1..59)
    BY <1>1 DEF Channel
<1> QED
    BY <1>1, <1>2 DEF Rises

\* The sectors of the wheel, with the hue that is within them.
LEMMA HueIsOfSector ==
    ASSUME NEW s \in 0..5, NEW k \in 0..59, NEW c \in hsv2rgb(60 * s + k)
    PROVE  OfSector(c, s, k)
<1>1. (60 * s + k) \div 60 = s /\ (60 * s + k) % 60 = k
    OBVIOUS
<1>2. \A p \in {k, 60 - k} : \A t \in Channel(p) : Rises(t, p)
    BY ChannelRises
<1>3. CASE s = 0
    <2>1. PICK t \in Channel(k) : c = Paint("wheel", 255, t, 0)
        BY <1>1, <1>3 DEF hsv2rgb
    <2> QED
        BY <1>2, <1>3, <2>1 DEF Paint, OfSector
<1>4. CASE s = 1
    <2>1. PICK q \in Channel(60 - k) : c = Paint("wheel", q, 255, 0)
        BY <1>1, <1>4 DEF hsv2rgb
    <2> QED
        BY <1>2, <1>4, <2>1 DEF Paint, OfSector
<1>5. CASE s = 2
    <2>1. PICK t \in Channel(k) : c = Paint("wheel", 0, 255, t)
        BY <1>1, <1>5 DEF hsv2rgb
    <2> QED
        BY <1>2, <1>5, <2>1 DEF Paint, OfSector
<1>6. CASE s = 3
    <2>1. PICK q \in Channel(60 - k) : c = Paint("wheel", 0, q, 255)
        BY <1>1, <1>6 DEF hsv2rgb
    <2> QED
        BY <1>2, <1>6, <2>1 DEF Paint, OfSector
<1>7. CASE s = 4
    <2>1. PICK t \in Channel(k) : c = Paint("wheel", t, 0, 255)
        BY <1>1, <1>7 DEF hsv2rgb
    <2> QED
        BY <1>2, <1>7, <2>1 DEF Paint, OfSector
<1>8. CASE s = 5
    <2>1. PICK q \in Channel(60 - k) : c = Paint("wheel", 255, 0, q)
        BY <1>1, <1>8 DEF hsv2rgb
    <2> QED
        BY <1>2, <1>8, <2>1 DEF Paint, OfSector
<1> QED
    BY <1>3, <1>4, <1>5, <1>6, <1>7, <1>8

\* Where the next degree lies: in the sector, or at the beginning of the next.
Follows(s, k, s2, k2) ==
    \/ s2 = s /\ (k2 = k \/ k2 = k + 1)
    \/ /\ k = 59 /\ k2 = 0
       /\ s2 = s + 1 \/ (s = 5 /\ s2 = 0)

LEMMA RisesSlowly ==
    ASSUME NEW k \in 0..60, NEW k2 \in 0..60, k2 - k \in {-1, 0, 1},
           NEW t, NEW u, Rises(t, k), Rises(u, k2)
    PROVE  Near(t, u)
BY DEF Rises, Near

Beside(c, d) ==
    /\ Near(c.r, d.r) /\ Near(c.g, d.g) /\ Near(c.b, d.b)
    /\ {0, 255} \subseteq {d.r, d.g, d.b}

Within(s, k) == s \in 0..5 /\ k \in 0..59

LEMMA SectorsMeet ==
    ASSUME NEW s, NEW k, Within(s, k), NEW s2, NEW k2, Within(s2, k2),
           Follows(s, k, s2, k2),
           NEW c, OfSector(c, s, k), NEW d, OfSector(d, s2, k2)
    PROVE  Beside(c, d)
<1> USE DEF Beside, Within
<1>1. {0, 255} \subseteq {d.r, d.g, d.b}
    BY DEF OfSector
<1>2. Near(0, 0) /\ Near(255, 255)
    BY DEF Near
<1>3. k2 = k \/ k2 = k + 1 \/ (k = 59 /\ k2 = 0)
    BY DEF Follows
<1>4. CASE s2 = s
    <2>1. k2 - k \in {-1, 0, 1} /\ (60 - k2) - (60 - k) \in {-1, 0, 1}
          /\ k \in 0..60 /\ k2 \in 0..60 /\ 60 - k \in 0..60 /\ 60 - k2 \in 0..60
        BY <1>4 DEF Follows
    <2>2. \A t, u : Rises(t, k) /\ Rises(u, k2) => Near(t, u)
        BY <2>1, RisesSlowly
    <2>3. \A t, u : Rises(t, 60 - k) /\ Rises(u, 60 - k2) => Near(t, u)
        BY <2>1, RisesSlowly
    <2>4. CASE s \in {0, 2, 4}
        BY <1>2, <1>4, <2>2, <2>4 DEF OfSector
    <2>5. CASE s \in {1, 3, 5}
        BY <1>2, <1>4, <2>3, <2>5 DEF OfSector
    <2>6. Near(c.r, d.r) /\ Near(c.g, d.g) /\ Near(c.b, d.b)
        BY <2>4, <2>5
    <2> QED
        BY <1>1, <2>6
<1>5. CASE s2 # s
    <2>1. /\ k = 59 /\ k2 = 0 /\ (s2 = s + 1 \/ (s = 5 /\ s2 = 0))
        BY <1>5 DEF Follows
    <2>2. \A t : Rises(t, 59) => Near(t, 255)
        BY DEF Rises, Near
    <2>3. \A t : Rises(t, 60 - 59) => Near(t, 0)
        BY DEF Rises, Near
    <2>4. \A t : Rises(t, 0) => t = 0
        BY DEF Rises
    <2>5. \A t : Rises(t, 60 - 0) => t = 255
        BY DEF Rises
    <2>6. Near(c.r, d.r) /\ Near(c.g, d.g) /\ Near(c.b, d.b)
        BY <1>2, <2>1, <2>2, <2>3, <2>4, <2>5 DEF OfSector
    <2> QED
        BY <1>1, <2>6
<1> QED
    BY <1>4, <1>5

\* Every hue is of a sector.
LEMMA HueOf ==
    ASSUME NEW frame \in Nat, frame < 1440
    PROVE  \E s \in 0..5, k \in 0..59 : frame \div 4 = 60 * s + k
<1>1. PICK h \in Nat : h = frame \div 4 /\ h < 360
    OBVIOUS
<1>2. h \div 60 \in 0..5 /\ h % 60 \in 0..59 /\ h = 60 * (h \div 60) + (h % 60)
    BY <1>1
<1> QED
    BY <1>1, <1>2

LEMMA PaintedByName ==
    /\ \A h \in Int : \A c \in hsv2rgb(h) : c.name = "wheel"
    /\ \A name, r, g, b : Paint(name, r, g, b).name = name
<1>1. \A name, r, g, b : Paint(name, r, g, b).name = name
    BY DEF Paint
<1>2. ASSUME NEW h \in Int, NEW c \in hsv2rgb(h)
      PROVE  \E r, g, b : c = Paint("wheel", r, g, b)
    BY <1>2 DEF hsv2rgb
<1> QED
    BY <1>1, <1>2

LEMMA PaintHasShape ==
    ASSUME NEW name \in NamesOfColours, NEW r \in 0..255, NEW g \in 0..255, NEW b \in 0..255
    PROVE  Paint(name, r, g, b) \in Colours
BY DEF Paint, Colours

LEMMA BareHasShape == \A name \in NamesOfColours : Paint(name, 0, 0, 0) \in Colours
<1>1. 0 \in 0..255
    OBVIOUS
<1> QED
    BY <1>1, PaintHasShape

\* A colour of the wheel has the shape of a colour.
LEMMA WheelHasShape ==
    ASSUME NEW s \in 0..5, NEW k \in 0..59, NEW c \in hsv2rgb(60 * s + k)
    PROVE  c \in Colours
<1>1. (60 * s + k) \div 60 = s /\ (60 * s + k) % 60 = k
    OBVIOUS
<1>2. \A p \in {k, 60 - k} : \A t \in Channel(p) : t \in 0..255
    BY ChannelRises DEF Rises
<1>3. /\ "wheel" \in NamesOfColours /\ 0 \in 0..255 /\ 255 \in 0..255
      /\ k \in {k, 60 - k} /\ 60 - k \in {k, 60 - k}
    BY DEF NamesOfColours
<1>4. \A t \in 0..255 :
          /\ Paint("wheel", 255, t, 0) \in Colours /\ Paint("wheel", 0, 255, t) \in Colours
          /\ Paint("wheel", t, 0, 255) \in Colours /\ Paint("wheel", t, 255, 0) \in Colours
          /\ Paint("wheel", 0, t, 255) \in Colours /\ Paint("wheel", 255, 0, t) \in Colours
    BY <1>3 DEF Paint, Colours
<1>5. \/ \E t \in Channel(k) : \/ c = Paint("wheel", 255, t, 0)
                               \/ c = Paint("wheel", 0, 255, t)
                               \/ c = Paint("wheel", t, 0, 255)
      \/ \E q \in Channel(60 - k) : \/ c = Paint("wheel", q, 255, 0)
                                    \/ c = Paint("wheel", 0, q, 255)
                                    \/ c = Paint("wheel", 255, 0, q)
    BY <1>1 DEF hsv2rgb
<1> QED
    BY <1>2, <1>3, <1>4, <1>5

\* Unpainted, or with a colour that does not depend on the persona, all is well.
LEMMA PaintedFits ==
    ASSUME NEW name \in {"game", "member"}, colour' = Paint(name, 0, 0, 0)
    PROVE  ColourFits' /\ colour'.name = name
<1>1. colour'.name = name
    BY PaintedByName
<1>2. name \in NamesOfColours
    BY DEF NamesOfColours
<1>3. colour' \in Colours
    BY <1>2, BareHasShape
<1> QED
    BY <1>1, <1>3 DEF ColourFits

LEMMA LooksInitial == LooksInit => LooksInv
<1> SUFFICES ASSUME LooksInit PROVE LooksInv
    OBVIOUS
<1>1. colour = Paint("game", 0, 0, 0) /\ colour.name = "game"
    BY PaintedByName DEF LooksInit, Unpainted
<1>2. ColourFits
    <2>1. "game" \in NamesOfColours
        BY DEF NamesOfColours
    <2> QED
        BY <1>1, <2>1, BareHasShape DEF ColourFits
<1>3. inBattle \in BOOLEAN
    BY DEF LooksInit
<1> QED
    BY <1>2, <1>3 DEF LooksInit, LooksInv

\* Everything that can be loaded for Akechi is of the look of his persona.
LEMMA LoadStepOfLooks ==
    ASSUME LooksInv, LoadFile
    PROVE  LooksInv'
<1>1. ASSUME NEW f \in Loadable, f.asset \notin {"none", "shadow", "boss", "voice"}
      PROVE  f.look = LookOfBattle
    <2>1. \A asset, look : File(asset, look).asset = asset /\ File(asset, look).look = look
        BY DEF File
    <2>2. /\ Light("none").asset = "none" /\ Light("shadow").asset = "shadow"
          /\ Light("boss").asset = "boss" /\ Light("voice").asset = "voice"
        BY <2>1 DEF Light
    <2>3. \A id : \/ PackOfPlayer(id).asset = "voice"
                 \/ PackOfPlayer(id).look = LookOfBattle
        BY <2>1 DEF PackOfPlayer, Light, Darkened, LookOfBattle, Dark
    <2>4. CASE \E e \in Voices : f = LoadGenericEnemyVoicePack(e)
        BY <1>1, <2>2, <2>3, <2>4 DEF LoadGenericEnemyVoicePack
    <2>5. LoadPlayerCombatVoicePack(Akechi).look = LookOfBattle
        BY <2>1 DEF LoadPlayerCombatVoicePack, Light, Darkened, LookOfBattle, Dark
    <2>6. /\ LoadPartyPanelSPD("panel").look = LookOfBattle
          /\ LoadBEDFileHook("gun").look = LookOfBattle
          /\ LoadBEDFileHook("skill416").look = LookOfBattle
          /\ LoadCombatCutin("cutin").look = LookOfBattle
          /\ LoadCombatCutin("allout").look = LookOfBattle
          /\ Load2DUIDDS("wanted").look = LookOfBattle
          /\ Load2DUIDDS("chara").look = LookOfBattle
        BY <2>1 DEF LoadPartyPanelSPD, LoadBEDFileHook, LoadCombatCutin, Load2DUIDDS,
                    Light, Darkened, LookOfBattle, Dark
    <2>7. /\ LoadBCDFunction("goodbye").look = LookOfBattle
          /\ LoadPartyPanelPLG("active").look = LookOfBattle
          /\ FUN_00927d50("gap").look = LookOfBattle
          /\ FUN_3b9644("expression").look = LookOfBattle
          /\ LoadAnimationPack("animation").look = LookOfBattle
        BY <2>1 DEF LoadBCDFunction, LoadPartyPanelPLG, FUN_00927d50, FUN_3b9644,
                    LoadAnimationPack, Light, Darkened, LookOfBattle, Dark
    <2> QED
        BY <2>4, <2>5, <2>6, <2>7 DEF Loadable
<1>2. seen' \subseteq {LookOfBattle}
    BY <1>1 DEF LoadFile, LooksInv
<1>3. UNCHANGED <<option, persona, inBattle, currentActingUnit, FrameTiming, colour>>
    BY DEF LoadFile
<1>4. LookOfBattle' = LookOfBattle
    BY <1>3 DEF LookOfBattle, Dark
<1> QED
    BY <1>2, <1>3, <1>4 DEF LooksInv, ColourFits

LEMMA AskStep ==
    ASSUME LooksInv, NEW exchanged \in BOOLEAN, AskColour(exchanged)
    PROVE  /\ LooksInv'
           /\ colour'.name = "wheel" =>
                  FrameTiming' = (FrameTiming + 1) % Wheel /\ colour' \in hsv2rgb(FrameTiming' \div 4)
<1>1. UNCHANGED <<option, persona, inBattle, seen, currentActingUnit>> /\ FrameTiming \in Nat /\ FrameTiming < 1440
    BY DEF AskColour, LooksInv
<1>2. CASE colour' = Unpainted /\ FrameTiming' = FrameTiming
    <2>1. ColourFits' /\ colour'.name # "wheel"
        BY <1>2, PaintedFits DEF Unpainted
    <2> QED
        BY <1>1, <1>2, <2>1 DEF LooksInv, LookOfBattle, Dark
<1>3. CASE FrameTiming' = (FrameTiming + 1) % Wheel /\ colour' \in hsv2rgb(FrameTiming' \div 4)
    <2>1. FrameTiming' \in Nat /\ FrameTiming' < 1440
        BY <1>1, <1>3 DEF Wheel
    <2>2. PICK s \in 0..5, k \in 0..59 : FrameTiming' \div 4 = 60 * s + k
        <3>1. PICK f \in Nat : f = FrameTiming' /\ f < 1440
            BY <2>1
        <3>2. \E s \in 0..5, k \in 0..59 : f \div 4 = 60 * s + k
            BY <3>1, HueOf, ZenonT(30)
        <3> QED
            BY <3>1, <3>2, ZenonT(30)
    <2>3. colour' \in Colours
        BY <1>3, <2>2, WheelHasShape
    <2>4. colour'.name = "wheel"
        BY <1>3, <2>2, PaintedByName
    <2>5. ColourFits'
        BY <1>3, <2>3, <2>4 DEF ColourFits
    <2> QED
        BY <1>1, <1>3, <2>1, <2>5 DEF LooksInv, LookOfBattle, Dark
<1>4. CASE colour' = Paint(ColourOf(currentActingUnit), 0, 0, 0) /\ FrameTiming' = FrameTiming
    <2>1. colour'.name = ColourOf(currentActingUnit)
        BY <1>4, PaintedByName
    <2>2. /\ ColourOf(currentActingUnit) \in NamesOfColours \ {"wheel"}
          /\ ColourOf(currentActingUnit) = "CrowColor1" => persona = Persona_RobinHood
          /\ ColourOf(currentActingUnit) = "CrowColor2" => persona # Persona_RobinHood
        BY DEF ColourOf, NamesOfColours
    <2>3. ColourFits'
        BY <1>1, <1>4, <2>1, <2>2, BareHasShape DEF ColourFits
    <2> QED
        BY <1>1, <1>4, <2>1, <2>2, <2>3 DEF LooksInv, LookOfBattle, Dark
<1> QED
    BY <1>2, <1>3, <1>4 DEF AskColour

\* A turn begins or ends, and nothing is painted.
LEMMA BareStep ==
    ASSUME LooksInv, option' = option, persona' \in Personas, inBattle' \in BOOLEAN,
           currentActingUnit' \in Actors \cup {NoActor, 1}, FrameTiming' \in Nat, FrameTiming' < 1440,
           seen' = {} \/ (seen' = seen /\ persona' = persona), colour' = Unpainted
    PROVE  LooksInv' /\ colour'.name # "wheel"
<1>1. ColourFits' /\ colour'.name # "wheel"
    BY PaintedFits DEF Unpainted
<1>2. CASE seen' = {}
    BY <1>1, <1>2 DEF LooksInv
<1>3. CASE seen' = seen /\ persona' = persona
    <2>1. LookOfBattle' = LookOfBattle
        BY <1>3 DEF LookOfBattle, Dark
    <2> QED
        BY <1>1, <1>3, <2>1 DEF LooksInv
<1> QED
    BY <1>2, <1>3

LEMMA LooksStep ==
    ASSUME LooksInv, [LooksNext]_lookVars
    PROVE  /\ LooksInv'
           /\ colour'.name = "wheel" =>
                  \/ colour' = colour /\ FrameTiming' = FrameTiming
                  \/ /\ FrameTiming' = (FrameTiming + 1) % Wheel
                     /\ colour' \in hsv2rgb(FrameTiming' \div 4)
<1>1. CASE BeginBattle \/ EndBattle \/ NobodyActs \/ JokerActs \/ \E u \in Actors : TakeTurn(u)
    <2>1. FrameTiming' \in Nat /\ FrameTiming' < 1440
        <3>1. \A f \in Frames : f % 1440 \in Nat /\ f % 1440 < 1440
            BY LooksAssumption
        <3> QED
            BY <1>1, <3>1
               DEF BeginBattle, EndBattle, NobodyActs, JokerActs, TakeTurn, Wheel, LooksInv
    <2>2. inBattle' \in BOOLEAN
        BY <1>1, ZenonT(30) DEF BeginBattle, EndBattle, NobodyActs, JokerActs, TakeTurn, LooksInv
    <2>3. /\ option' = option /\ persona' \in Personas /\ colour' = Unpainted
          /\ currentActingUnit' \in Actors \cup {NoActor, 1}
          /\ seen' = {} \/ (seen' = seen /\ persona' = persona)
        BY <1>1 DEF BeginBattle, EndBattle, NobodyActs, JokerActs, TakeTurn, LooksInv
    <2> QED
        BY <2>1, <2>2, <2>3, BareStep
<1>2. CASE LoadFile
    BY <1>2, LoadStepOfLooks DEF LoadFile
<1>3. CASE \E exchanged \in BOOLEAN : AskColour(exchanged)
    BY <1>3, AskStep
<1>4. CASE UNCHANGED lookVars
    BY <1>4 DEF lookVars, LooksInv, LookOfBattle, Dark, ColourFits
<1> QED
    BY <1>1, <1>2, <1>3, <1>4 DEF LooksNext

\* A frame is a quarter of a degree.
HueIs(frame, s, k) == s \in 0..5 /\ k \in 0..59 /\ frame \div 4 = 60 * s + k
NextFrame(frame, frame2) == frame2 = frame \/ frame2 = (frame + 1) % 1440

LEMMA FramesFollow ==
    ASSUME NEW frame \in Nat, frame < 1440, NEW frame2 \in Nat, frame2 < 1440, NextFrame(frame, frame2),
           NEW s, NEW k, NEW s2, NEW k2, HueIs(frame, s, k), HueIs(frame2, s2, k2)
    PROVE  Follows(s, k, s2, k2)
<1>1. PICK h \in Nat, h2 \in Nat :
          h = frame \div 4 /\ h2 = frame2 \div 4 /\ h < 360 /\ h2 < 360
    OBVIOUS
<1>2. h2 = h \/ h2 = h + 1 \/ (h = 359 /\ h2 = 0)
    <2>1. frame2 = frame \/ frame2 = frame + 1 \/ (frame = 1439 /\ frame2 = 0)
        BY DEF NextFrame
    <2> QED
        BY <1>1, <2>1
<1>3. /\ s \in 0..5 /\ k \in 0..59 /\ h = 60 * s + k
      /\ s2 \in 0..5 /\ k2 \in 0..59 /\ h2 = 60 * s2 + k2
    BY <1>1 DEF HueIs
<1>4. s2 = s \/ s2 = s + 1 \/ (s = 5 /\ s2 = 0)
    BY <1>2, <1>3
<1>5. CASE s2 = s
    <2>1. k2 = k \/ k2 = k + 1
        BY <1>2, <1>3, <1>5
    <2> QED
        BY <1>5, <2>1 DEF Follows
<1>6. CASE s2 = s + 1 \/ (s = 5 /\ s2 = 0)
    <2>1. k = 59 /\ k2 = 0
        BY <1>2, <1>3, <1>6
    <2> QED
        BY <1>6, <2>1 DEF Follows
<1> QED
    BY <1>4, <1>5, <1>6

LEMMA HueOfFrame ==
    ASSUME NEW frame \in Nat, frame < 1440
    PROVE  \E s, k : HueIs(frame, s, k) /\ \A c \in hsv2rgb(frame \div 4) : OfSector(c, s, k)
<1>1. PICK s \in 0..5, k \in 0..59 : frame \div 4 = 60 * s + k
    BY HueOf
<1>2. \A c \in hsv2rgb(60 * s + k) : OfSector(c, s, k)
    BY HueIsOfSector
<1>3. \A c \in hsv2rgb(frame \div 4) : OfSector(c, s, k)
    BY <1>1, <1>2
<1>4. HueIs(frame, s, k)
    BY <1>1 DEF HueIs
<1> QED
    BY <1>3, <1>4, SMTT(30)

\* The colours of two steps of the wheel are near each other.
LEMMA WheelTurns ==
    ASSUME NEW frame \in Nat, frame < 1440, NEW frame2 \in Nat, frame2 < 1440,
           NextFrame(frame, frame2),
           NEW c, c \in hsv2rgb(frame \div 4), NEW d, d \in hsv2rgb(frame2 \div 4)
    PROVE  Beside(c, d)
<1>1. PICK s, k : HueIs(frame, s, k) /\ OfSector(c, s, k)
    BY HueOfFrame
<1>2. PICK s2, k2 : HueIs(frame2, s2, k2) /\ OfSector(d, s2, k2)
    BY HueOfFrame
<1>3. Follows(s, k, s2, k2)
    BY <1>1, <1>2, FramesFollow
<1>4. Within(s, k) /\ Within(s2, k2)
    BY <1>1, <1>2 DEF HueIs, Within
<1> QED
    BY <1>1, <1>2, <1>3, <1>4, SectorsMeet

LEMMA WheelStep ==
    ASSUME LooksInv, [LooksNext]_lookVars, colour.name = "wheel", colour'.name = "wheel"
    PROVE  Beside(colour, colour')
<1>1. LooksInv'
    BY LooksStep
<1>2. PICK frame \in Nat : frame = FrameTiming /\ frame < 1440
    BY DEF LooksInv
<1>3. PICK frame2 \in Nat : frame2 = FrameTiming' /\ frame2 < 1440
    BY <1>1 DEF LooksInv
<1>4. colour \in hsv2rgb(frame \div 4)
    BY <1>2 DEF LooksInv, ColourFits
<1>5. colour' \in hsv2rgb(frame2 \div 4)
    BY <1>1, <1>3 DEF LooksInv, ColourFits
<1>6. NextFrame(frame, frame2)
    BY <1>2, <1>3, LooksStep DEF Wheel, NextFrame
<1>7. \A c, d : c \in hsv2rgb(frame \div 4) /\ d \in hsv2rgb(frame2 \div 4) => Beside(c, d)
    BY <1>2, <1>3, <1>6, WheelTurns
<1> QED
    BY <1>4, <1>5, <1>7

\* What has been loaded in a battle is of the look of the persona, and the colour is
\* of the hue or the persona.
THEOREM LooksInvariant == LooksSpec => []LooksInv
<1>1. LooksInv /\ [LooksNext]_lookVars => LooksInv'
    BY LooksStep
<1> QED
    BY <1>1, LooksInitial, PTL DEF LooksSpec

\* dc.c, the loaders of Akechi's files, FUN_00917934Hook and hsv2rgb: one look and
\* its colour in one battle, and a wheel of colours without a jump.
THEOREM LooksAgreeCorrect == LooksSpec => LooksAgree
<1>1. LooksInv => LooksTypeOK /\ OneLook
    <2> SUFFICES ASSUME LooksInv PROVE LooksTypeOK /\ OneLook
        OBVIOUS
    <2>1. LooksTypeOK
        BY DEF LooksInv, LooksTypeOK, ColourFits, Colours, NamesOfColours, LookOfBattle, Wheel
    <2>2. Cardinality(seen) <= 1
        <3>1. seen = {} \/ seen = {LookOfBattle}
            BY DEF LooksInv
        <3>2. Cardinality({}) = 0 /\ Cardinality({LookOfBattle}) = 1
            BY FS_EmptySet, FS_Singleton
        <3> QED
            BY <3>1, <3>2
    <2>3. option.enableAkechiMod =>
              /\ colour.name = "CrowColor1" => "dark" \notin seen
              /\ colour.name = "CrowColor2" => "light" \notin seen
        BY DEF LooksInv, ColourFits, LookOfBattle, Dark
    <2> QED
        BY <2>1, <2>2, <2>3 DEF OneLook
<1>2. LooksInv /\ [LooksNext]_lookVars =>
          [colour.name = "wheel" /\ colour'.name = "wheel" =>
               /\ Near(colour.r, colour'.r) /\ Near(colour.g, colour'.g)
               /\ Near(colour.b, colour'.b)
               /\ {0, 255} \subseteq {colour'.r, colour'.g, colour'.b}]_lookVars
    BY WheelStep DEF Beside
<1> QED
    BY <1>1, <1>2, LooksInvariant, PTL DEF LooksSpec, LooksAgree, WheelIsSmooth
===============================================================================
