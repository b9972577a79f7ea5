------------------------------ MODULE PartyList ------------------------------
(***************************************************************************)
(* The lists of party members in the item, skill and equip menus           *)
(* (prx/modules/p5/kasumi/kasumi.c).  The game's lists have seven rows; the *)
(* mod has up to nine members to show in them, and scrolls: a window over  *)
(* the members is rebuilt from the globals partyListOffset and scrollMax   *)
(* whenever the cursor is about to move, and the cursor is corrected to    *)
(* stay with its member.                                                   *)
(***************************************************************************)
EXTENDS Integers, FiniteSets, Sequences

CONSTANT Saves    \* what a save and the configuration say about the members

ASSUME SavesAssumption ==
    \A s \in Saves : /\ s.game \subseteq 1..9
                     /\ 1 \in s.game
                     /\ s.enableKasumi \in BOOLEAN
                     /\ s.flag2138 \in BOOLEAN

VARIABLES
    save,             \* the save that is played (rigid)
    menu,             \* the menu that is open
    partyListOffset,  \* globals of p5.c, left as they are between menus
    scrollMax,
    rows,             \* partyMemberID of the menu, up to the count returned
    cursor            \* the game's row, counted from 0

listVars == <<save, menu, partyListOffset, scrollMax, rows, cursor>>

NoMenu == "none"
Lists == {"items", "skills", "targets"}   \* the lists that scroll

isPartyMemberUnlocked(m) ==
    IF m = 10 /\ save.enableKasumi THEN save.flag2138 ELSE m \in save.game

\* The navigator (8) uses neither items nor skills in the menu.
partyMembers == {m \in 1..10 : isPartyMemberUnlocked(m) /\ m # 8}

Members(S) ==
    [i \in 1..Cardinality(S) |->
        CHOOSE m \in S : Cardinality({k \in S : k < m}) = i - 1]

ScrollLimit ==
    IF Cardinality(partyMembers) < 7 THEN 0 ELSE Cardinality(partyMembers) - 7

\* The rows start at the member whose number follows the offset: the offset
\* counts members of the game, and not those that are unlocked.
RowsFrom(offset) ==
    LET behind == Members({m \in partyMembers : m > offset})
    IN  SubSeq(behind, 1, IF Len(behind) < 7 THEN Len(behind) ELSE 7)

BuildPartyMemberItemsMenu(offset) ==
    /\ scrollMax' = ScrollLimit
    /\ partyListOffset' = offset
    /\ rows' = RowsFrom(offset)

\* Everybody in one list: the equip and the status menu show ten rows.
BuildPartyMemberEquipMenu ==
    rows' = <<1>> \o Members({m \in 2..10 : isPartyMemberUnlocked(m)})
------------------------------------------------------------------------------
(* What the scroll hooks make of the row a3 that the game is about to select,
   by the direction that is held on the pad. *)
At(row, offset) == [row |-> row, offset |-> offset]

\* the window moves up, and the cursor with it
ScrollWithCursor(a3, pad) ==
    LET o == partyListOffset
    IN  CASE pad = "up" /\ a3 = 0 /\ o > 0            -> At(0, o - 1)
          [] pad = "up" /\ a3 = 6 /\ o = 0            -> At(6, scrollMax)
          [] pad = "down" /\ a3 = 6 /\ o < scrollMax  -> At(5, o + 1)
          [] pad = "down" /\ a3 = 0 /\ o = scrollMax  -> At(0, 0)
          [] OTHER                                    -> At(a3, o)

ScrollThroughSkillPartyList(a3, pad) ==
    LET o == partyListOffset
    IN  CASE pad = "up" /\ a3 = 0 /\ o > 0            -> At(1, o - 1)
          [] pad = "up" /\ a3 = 6 /\ o = 0            -> At(6, scrollMax)
          [] pad = "down" /\ a3 = 6 /\ o < scrollMax  -> At(5, o + 1)
          [] pad = "down" /\ a3 = 0 /\ o = scrollMax  -> At(0, 0)
          [] OTHER                                    -> At(a3, o)

ScrollThroughItemPartyList(a3, pad) ==
    LET o == partyListOffset
    IN  CASE pad = "up" /\ a3 = 0 /\ o > 0            -> At(1, o - 1)
          [] pad = "up" /\ a3 = 6                     -> At(6, scrollMax)
          [] pad = "down" /\ a3 = 6 /\ o < scrollMax  -> At(5, o + 1)
          [] pad = "down" /\ a3 = 0                   -> At(0, 0)
          [] OTHER                                    -> At(a3, o)

Scrolled(a3, pad) ==
    IF menu = "items" THEN ScrollThroughItemPartyList(a3, pad)
                      ELSE ScrollThroughSkillPartyList(a3, pad)

\* A list that fits into its rows is left to the game.
ScrollTo(a3, pad) ==
    IF scrollMax > 0
    THEN /\ cursor' = Scrolled(a3, pad).row
         /\ BuildPartyMemberItemsMenu(Scrolled(a3, pad).offset)
    ELSE /\ cursor' = a3
         /\ UNCHANGED <<partyListOffset, scrollMax, rows>>
------------------------------------------------------------------------------
ListInit ==
    /\ save \in Saves
    /\ menu = NoMenu
    /\ partyListOffset = 0 /\ scrollMax = 0
    /\ rows = <<>> /\ cursor = 0

\* ItemMenuInit and SkillMenuInit: the offset is reset, the game builds.
OpenMenu(m) ==
    /\ menu = NoMenu
    /\ m \in {"items", "skills"}
    /\ menu' = m
    /\ cursor' = 0
    /\ BuildPartyMemberItemsMenu(0)
    /\ UNCHANGED save

OpenEquip ==
    /\ menu = NoMenu
    /\ menu' = "equip"
    /\ cursor' = 0
    /\ BuildPartyMemberEquipMenu
    /\ UNCHANGED <<save, partyListOffset, scrollMax>>

Step(pad) == IF pad = "up" THEN -1 ELSE 1

\* The game moves its row by one, round the rows it knows of.
Move(pad) ==
    /\ menu \in Lists
    /\ ScrollTo((cursor + Step(pad)) % Len(rows), pad)
    /\ UNCHANGED <<save, menu>>

ScrollThroughEquipPartyList(pad) ==
    /\ menu = "equip"
    /\ cursor' = IF pad = "down"
                 THEN IF cursor = Len(rows) - 1 THEN 0 ELSE cursor + 1
                 ELSE IF cursor = 0 THEN Len(rows) - 1 ELSE cursor - 1
    /\ UNCHANGED <<save, menu, partyListOffset, scrollMax, rows>>

\* The last call of SkillMenuHealingSkillInit: one target is to be chosen,
\* starting in row 0 of the window the caster was chosen in.
ChooseTarget(pad) ==
    /\ menu = "skills"
    /\ menu' = "targets"
    /\ ScrollTo(0, pad)
    /\ UNCHANGED save

CloseMenu ==
    /\ menu # NoMenu
    /\ menu' = NoMenu
    /\ rows' = <<>> /\ cursor' = 0     \* the game's menu is gone
    /\ UNCHANGED <<save, partyListOffset, scrollMax>>

Selected == rows[cursor + 1]

==============================================================================
