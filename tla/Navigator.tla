------------------------------- MODULE Navigator -------------------------------
(***************************************************************************)
(* What the navigator says in battle, as far as                            *)
(* prx/modules/p5/kasumi/kasumi.c decides it: the remarks on what members  *)
(* of the party do, with lines for Kasumi (unit 10), the warnings about    *)
(* Kasumi, and the party's own remarks.  Each function is called by the    *)
(* game on an event; what the game itself would say is external.           *)
(***************************************************************************)
EXTENDS Integers, FiniteSets

CONSTANT
    Casts       \* enableKasumi, who fights, whose names are known, and which
                \* bits of StatusAilments and which debuffs occur

ASSUME NavigatorAssumption ==
    \A c \in Casts : /\ c.enableKasumi \in BOOLEAN /\ c.named \subseteq 1..9
                     /\ c.fighters \subseteq (1..10) \ {8}
                     /\ c.ailments \subseteq 0..11
                     /\ c.curses \subseteq {"atk", "def", "eva"}

VARIABLES
    cast,               \* one of Casts (rigid)
    ailments, lowHP, debuffs,   \* Kasumi's state
    hasUzukiAilmentAnnounce,    \* the bits that are set in the array
    UzukiWarned,        \* which of the four other warnings are marked
    busy,               \* FUN_748ff0: a line is being spoken
    field2c,            \* the last warning
    said,               \* the last line: event, unit and message
    past, late          \* ghosts: warnings of this battle whose moment was,
                        \* said or not; one of them was said after it

naviVars == <<cast, ailments, lowHP, debuffs, hasUzukiAilmentAnnounce,
              UzukiWarned, busy, field2c, said, past, late>>
health == <<ailments, lowHP, debuffs>>
marks == <<hasUzukiAilmentAnnounce, UzukiWarned>>
ghosts == <<past, late>>

Silent == -1
Nothing == [event |-> "none", unit |-> 0, message |-> Silent]
Kasumi == 10
Debuffs == {"atk", "def", "eva"}
------------------------------------------------------------------------------
(* The lines of an event: eight for members whose names are known, from Joker
   to Akechi without the navigator, one for the others, one for Kasumi. *)
Base ==
    [low |-> 61, downed |-> 71, dodged |-> 81, all |-> 291, down4 |-> 300,
     down3 |-> 309, down2 |-> 318, down1 |-> 327, missed |-> 399]
KasumiLine ==
    [low |-> 874, downed |-> 875, dodged |-> 876, all |-> 894, down4 |-> 895,
     down3 |-> 896, down2 |-> 897, down1 |-> 898, missed |-> 906]
Events == DOMAIN Base
AsksConfig == {"low", "downed", "dodged", "down1", "missed"}

Place(u) == IF u = 9 THEN 7 ELSE u - 1

Message(c, event, u) ==
    CASE u = Kasumi /\ (event \in AsksConfig => c.enableKasumi) -> KasumiLine[event]
      [] u \in (1..9) \ {8} -> Base[event] + IF u \in c.named THEN Place(u) ELSE 8
      [] OTHER -> Silent

\* Several members at once are hurt: one line for all of them.
Several == [low |-> 60, downed |-> 70]

CallNaviDialogue(event, u, m) ==
    IF m = Silent
    THEN UNCHANGED <<busy, said>>
    ELSE busy' = TRUE /\ said' = [event |-> event, unit |-> u, message |-> m]

(* PartyMemberFinishedLastEnemy, DodgedAttack and MissedEnemy: praise and blame
   wait for nobody; they are left out while a line is spoken, and blame also if it
   was spoken a short while ago (`lately', FUN_007490a4). *)
Remark(event, u, jokerDown, lately) ==
    /\ event \in Events \ DOMAIN Several
    /\ IF event = "missed" THEN ~lately ELSE ~jokerDown
    /\ ~busy
    /\ CallNaviDialogue(event, u, Message(cast, event, u))
    /\ UNCHANGED <<cast, health, marks, field2c, ghosts>>

\* PartyMemberWarnHealthLow and PartyMemberGotDowned: spoken at once.
Hurt(event, u, count) ==
    /\ event \in DOMAIN Several
    /\ CallNaviDialogue(event, u, IF count = 1 THEN Message(cast, event, u)
                                               ELSE Several[event])
    /\ UNCHANGED <<cast, health, marks, field2c, ghosts>>

\* PartyMemberKnockEnemyDown, for Kasumi.
KnockDownLine(knockdown, existing) ==
    CASE ~cast.enableKasumi \/ knockdown = 0 -> Silent
      [] knockdown = existing                -> 899
      [] knockdown \in 1..4                  -> 904 - knockdown
      [] OTHER                               -> Silent

KasumiKnocksDown(knockdown, existing) ==
    /\ knockdown <= existing /\ ~busy
    /\ CallNaviDialogue("knock", Kasumi, KnockDownLine(knockdown, existing))
    /\ UNCHANGED <<cast, health, marks, field2c, ghosts>>

(* LandedCrit, GetUp, ExploitedWeakness, RunAway, PartyMemberDied: the game
   speaks first if it likes, and only two of the lines cut it short. *)
KasumiActs(event, spoke) ==
    LET line  == CASE event = "crit" -> 905 [] event = "up" -> 893
                   [] event = "weakness" -> 904 [] event = "away" -> 907
                   [] event = "died" -> 873
        heard == IF event = "died" THEN TRUE ELSE cast.enableKasumi
        waits == event \in {"crit", "up", "weakness"} /\ (busy \/ spoke)
    IN  /\ IF ~heard \/ waits \/ (event = "weakness" /\ field2c = line)
           THEN busy' = (busy \/ spoke) /\ UNCHANGED <<said, field2c>>
           ELSE /\ CallNaviDialogue(event, Kasumi, line)
                /\ field2c' = IF event = "weakness" THEN line ELSE field2c
        /\ UNCHANGED <<cast, health, marks, ghosts>>
------------------------------------------------------------------------------
(* PartyMemberWarnAilment_NaviDialogue: one thing at a time, by urgency.  Every
   ailment is marked, and the last of them is what is warned of. *)
NewAilments == ailments \ hasUzukiAilmentAnnounce
Urgent ==
    CASE ailments # {} -> IF NewAilments = {} THEN "none" ELSE "ailment"
      [] ailments = {} /\ lowHP /\ "hp" \notin UzukiWarned -> "hp"
      [] OTHER ->
          LET new == debuffs \ UzukiWarned
          IN  IF "atk" \in new THEN "atk" ELSE IF "def" \in new THEN "def"
              ELSE IF "eva" \in new THEN "eva" ELSE "none"

WarningLine(w) ==
    CASE w = "ailment" -> 881 + CHOOSE a \in NewAilments :
                                    \A b \in NewAilments : b <= a
      [] w = "hp"      -> 880
      [] w = "atk"     -> 877
      [] w = "def"     -> 878
      [] w = "eva"     -> 879
      [] OTHER         -> Silent

\* wounds are not marked
MarkOthers(w) ==
    /\ hasUzukiAilmentAnnounce' =
           IF w = "ailment" THEN hasUzukiAilmentAnnounce \cup ailments
                            ELSE hasUzukiAilmentAnnounce
    /\ UzukiWarned' = IF w \in Debuffs THEN UzukiWarned \cup {w} ELSE UzukiWarned

\* The marks are made whether or not the line can be spoken now.
MarkWarning(w) ==
    /\ hasUzukiAilmentAnnounce' =
           IF w = "ailment" THEN hasUzukiAilmentAnnounce \cup ailments
                            ELSE hasUzukiAilmentAnnounce
    /\ UzukiWarned' = IF w \in {"hp"} \cup Debuffs THEN UzukiWarned \cup {w}
                                                   ELSE UzukiWarned

\* What is due for a warning, said or not.
Due(w) == IF w = "ailment" THEN {881 + a : a \in ailments} ELSE {WarningLine(w)} \ {Silent}

WarnAilment(jokerDown, lately) ==
    /\ ~jokerDown /\ cast.enableKasumi
    /\ MarkWarning(Urgent)
    /\ LET m == WarningLine(Urgent)
       IN  IF m = Silent \/ busy \/ lately \/ m = field2c
           THEN \* FUN_00b1ca18: the game's own warnings
                busy' \in {busy, TRUE} /\ UNCHANGED <<said, field2c, late>>
           ELSE /\ CallNaviDialogue("warning", Kasumi, m)
                /\ field2c' = m
                /\ late' = (late \/ m \in past)
    /\ past' = past \cup Due(Urgent)
    /\ UNCHANGED <<cast, health>>

\* BattleEndSkillChecks ("navi stuff").
BattleEndSkillChecks ==
    /\ hasUzukiAilmentAnnounce' = {} /\ UzukiWarned' = {}
    /\ ailments' = {} /\ lowHP' = FALSE /\ debuffs' = {}
    /\ busy' = FALSE /\ said' = Nothing
    /\ past' = {} /\ late' = FALSE
    /\ UNCHANGED <<cast, field2c>>
------------------------------------------------------------------------------
NaviInit ==
    /\ cast \in Casts
    /\ ailments = {} /\ lowHP = FALSE /\ debuffs = {}
    /\ hasUzukiAilmentAnnounce = {} /\ UzukiWarned = {}
    /\ busy = FALSE /\ field2c = Silent /\ said = Nothing
    /\ past = {} /\ late = FALSE

LineEnds ==
    /\ busy /\ busy' = FALSE
    /\ said' = Nothing
    /\ UNCHANGED <<cast, health, marks, field2c, ghosts>>

\* Blows, cures and spells, whether or not a line is being spoken.
Suffer ==
    /\ \/ \E a \in cast.ailments : ailments' = {a} /\ UNCHANGED <<lowHP, debuffs>>
       \/ ailments' \in {{}, cast.ailments} /\ UNCHANGED <<lowHP, debuffs>>
       \/ lowHP' = ~lowHP /\ UNCHANGED <<ailments, debuffs>>
       \/ \E d \in cast.curses : debuffs' \in {debuffs \cup {d}, debuffs \ {d}}
                             /\ UNCHANGED <<ailments, lowHP>>
    /\ UNCHANGED <<cast, marks, busy, field2c, said, ghosts>>

NaviNext ==
    \/ \E event \in Events, u \in cast.fighters, down, lately \in BOOLEAN :
           Remark(event, u, down, lately)
    \/ \E event \in Events, u \in cast.fighters, n \in 1..2 : Hurt(event, u, n)
    \/ \E n \in 0..5, m \in 1..5 : KasumiKnocksDown(n, m)
    \/ \E event \in {"crit", "up", "weakness", "away", "died"}, s \in BOOLEAN :
           KasumiActs(event, s)
    \/ \E down, lately \in BOOLEAN : WarnAilment(down, lately)
    \/ BattleEndSkillChecks \/ LineEnds \/ Suffer

NaviSpec == NaviInit /\ [][NaviNext]_naviVars
------------------------------------------------------------------------------
\* Types of all variables.
NaviTypeOK ==
    /\ cast \in Casts
    /\ ailments \subseteq 0..11 /\ lowHP \in BOOLEAN /\ debuffs \subseteq Debuffs
    /\ hasUzukiAilmentAnnounce \subseteq 0..11
    /\ UzukiWarned \subseteq {"hp"} \cup Debuffs
    /\ busy \in BOOLEAN /\ field2c \in {Silent} \cup (873..907)
    /\ said.message \in {Silent} \cup (60..407) \cup (873..907)
    /\ past \subseteq 877..892 /\ late \in BOOLEAN

(* A warning is said when it is news, or never: not a second time in a battle, and
   not later if it fell while another line was being spoken or behind a more recent
   ailment, in whatever order ailments, wounds and curses come, go and come back,
   and whatever else is spoken in between. *)
WarnedInTime == ~late

(* A line tells what happened and who it was: no two events, and no two members
   whose names are known, share one (the functions have a copy each of the same
   chain of cases, with numbers of their own). *)
TellsEventAndUnit ==
    said.event \in Events /\ said.message \notin {60, 70} =>
        \A event \in Events, u \in (1..10) \ {8} :
            Message(cast, event, u) = said.message =>
                /\ event = said.event
                /\ u # said.unit => {u, said.unit} \cap (cast.named \cup {Kasumi}) = {}

(* The navigator says the right thing, and no warning twice or late. *)
LinesAreRight == NaviTypeOK /\ WarnedInTime /\ TellsEventAndUnit
===============================================================================
