------------------------------- MODULE Healing -------------------------------
(***************************************************************************)
(* Healing with skills and items from the menu: the functions of the game  *)
(* that prx/modules/p5/kasumi/kasumi.c replaces as a whole, with their     *)
(* payments, on top of the lists of PartyList.  What the game says of a    *)
(* skill, an item or a member (FUN_0042f344, FUN_0042f5ec, ...) is          *)
(* external.                                                               *)
(***************************************************************************)
EXTENDS PartyList

CONSTANTS
    Patients,   \* the members whose HP and SP are looked at
    MaxPoints,  \* their largest HP and SP
    Skills,     \* skills of the menu: kind, HP cost, SP cost
    Items,      \* kinds of item
    MaxStock    \* the most of an item that a menu is opened with

ASSUME HealingAssumption ==
    /\ Patients \subseteq 1..10 /\ MaxPoints \in Nat /\ MaxStock \in 0..99
    /\ \A s \in Skills : /\ s.kind \in {"one", "all", "escape"}
                         /\ s.hp \in 0..MaxPoints /\ s.sp \in 0..MaxPoints

VARIABLES
    hp, sp,                      \* of the patients
    freeHP, freeSP,              \* counts 0xfe and 0xff: costs that are waived
    skill,                       \* the skill that is being aimed
    skillMenuPartyMemberSource,  \* global of p5.c: who uses it
    item, stock, entry,          \* the item pointed at, its number, the menu's
    garbled,                     \* something was paid from a variable never set
    crashed,
    chooser                      \* ghost: who was selected for the skill

healVars == <<hp, sp, freeHP, freeSP, skill, skillMenuPartyMemberSource,
              item, stock, entry, garbled, crashed, chooser>>
purse == <<hp, sp, freeHP, freeSP>>
bag == <<item, stock, entry>>

Running == ~garbled /\ ~crashed
NoItem == "none"
EmptyBag == item = NoItem /\ stock = 0 /\ entry = 0
NoSkill == [kind |-> "none", hp |-> 0, sp |-> 0]

(* FUN_0042f5ec answers 0 for a member who can be healed; the value of its
   other answers is the game's, here 1. *)
Refusal(m) == IF m \in Patients /\ hp[m] < MaxPoints THEN 0 ELSE 1
AffordableWith(m, s, HP, SP, noHP, noSP) ==
    /\ m \in Patients
    /\ noHP > 0 \/ HP[m] > s.hp
    /\ noSP > 0 \/ SP[m] >= s.sp
Affordable(m, s) == AffordableWith(m, s, hp, sp, freeHP, freeSP)
Healed(S) == [m \in Patients |-> IF m \in S THEN MaxPoints ELSE hp[m]]
Healable == {m \in partyMembers : Refusal(m) = 0}
------------------------------------------------------------------------------
(* SkillMenuHealingSkillInit: the member under the cursor picks a skill (the
   patients are those who have one). *)
ChooseSkill(s, pad) ==
    /\ Running
    /\ menu = "skills" /\ Selected \in Patients
    /\ skillMenuPartyMemberSource' = Selected
    /\ IF ~Affordable(Selected, s)
       THEN UNCHANGED <<listVars, skill, chooser>>
       ELSE /\ skill' = s /\ chooser' = Selected
            /\ IF s.kind = "one"
               THEN ChooseTarget(pad)
               ELSE /\ menu' = "everyone"   \* row -1 scrolls nothing
                    /\ ScrollTo(cursor, "none")
                    /\ UNCHANGED save
    /\ UNCHANGED <<purse, bag, garbled, crashed>>

(* The end of SkillMenuUseHealingSkill: the caster pays, unless a count
   waives it.  What is added to the caster's points is the last answer of
   FUN_0042f5ec less the cost. *)
Waived(free, cost) == IF cost > 0 /\ free > 0 THEN free - 1 ELSE free
Paid(points, free, cost, m, answer) ==
    IF cost > 0 /\ free < 1 THEN [points EXCEPT ![m] = @ + answer - cost]
                            ELSE points

\* paid by whoever the cursor is on
SelectedPays(healed, m, s, answer) ==
    /\ hp' = Paid(healed, freeHP, s.hp, Selected, answer)
    /\ sp' = Paid(sp, freeSP, s.sp, Selected, answer)
    /\ freeHP' = Waived(freeHP, s.hp)
    /\ freeSP' = Waived(freeSP, s.sp)

SkillPays(healed, m, s, answer) ==
    /\ hp' = Paid(healed, freeHP, s.hp, m, answer)
    /\ sp' = Paid(sp, freeSP, s.sp, m, answer)
    /\ freeHP' = Waived(freeHP, s.hp)
    /\ freeSP' = Waived(freeSP, s.sp)

\* The skill is put away, and with it the ghost of who chose it.
Aimless == skill' = NoSkill /\ chooser' = 0

\* FUN_0044f6a8 is asked again after every use.
StaysIfAffordable ==
    IF AffordableWith(skillMenuPartyMemberSource, skill, hp', sp', freeHP', freeSP')
    THEN UNCHANGED <<menu, skill, chooser>>
    ELSE menu' = "skills" /\ Aimless

UseSkillOnOne ==
    /\ Running
    /\ menu = "targets"
    /\ Affordable(skillMenuPartyMemberSource, skill)
    /\ Refusal(Selected) = 0
    /\ SkillPays(Healed({Selected}), skillMenuPartyMemberSource, skill, 0)
    /\ UNCHANGED <<save, partyListOffset, scrollMax, rows, cursor,
                   skillMenuPartyMemberSource, bag, garbled, crashed>>
    /\ StaysIfAffordable

\* The loop over partyMembers ends with the last member's answer.
LastAnswer ==
    Refusal(CHOOSE m \in partyMembers : \A k \in partyMembers : k <= m)

UseSkillOnAll ==
    /\ Running
    /\ menu = "everyone" /\ skill.kind = "all"
    /\ Affordable(skillMenuPartyMemberSource, skill)
    /\ Healable # {}
    /\ SkillPays(Healed(Healable), skillMenuPartyMemberSource, skill, LastAnswer)
    /\ UNCHANGED <<save, partyListOffset, scrollMax, rows, cursor,
                   skillMenuPartyMemberSource, bag, garbled, crashed>>
    /\ StaysIfAffordable

(* Traesto: no answer has been asked for, and the variable for it is not set.
   What has been paid is paid back, each time with that variable's value. *)
PaidBack(points, free, cost, m, stale) ==
    CASE cost = 0             -> [points EXCEPT ![m] = @ + stale]
      [] cost > 0 /\ free < 1 -> [points EXCEPT ![m] = @ + 2 * stale]
      [] OTHER                -> points

UseEscapeSkill ==
    \E stale \in {0, 1} :
        /\ Running
        /\ menu = "everyone" /\ skill.kind = "escape"
        /\ Affordable(skillMenuPartyMemberSource, skill)
        /\ hp' = PaidBack(hp, freeHP, skill.hp, skillMenuPartyMemberSource, stale)
        /\ sp' = PaidBack(sp, freeSP, skill.sp, skillMenuPartyMemberSource, stale)
        /\ garbled' = (stale # 0)
        /\ CloseMenu
        /\ Aimless
        /\ UNCHANGED <<freeHP, freeSP, skillMenuPartyMemberSource, bag, crashed>>

LeaveSkill ==
    /\ menu \in {"targets", "everyone"}
    /\ menu' = "skills"
    /\ Aimless
    /\ UNCHANGED <<save, partyListOffset, scrollMax, rows, cursor, purse, bag,
                   skillMenuPartyMemberSource, garbled, crashed>>
------------------------------------------------------------------------------
(* ItemMenuUseHealingSkill, by the kind of the item.  LAB_0048829c takes the
   item; unless the menu is left, its number in the menu follows. *)
Healing1 == item = "one" /\ Refusal(Selected) = 0
HealingAll == item = "all" /\ Healable # {}

Taken == (stock - 1) % 256

UseItem ==
    /\ Running
    /\ menu = "items" /\ entry > 0
    /\ \/ /\ Healing1
          /\ hp' = Healed({Selected})
          /\ entry' = entry - 1 /\ UNCHANGED listVars
       \/ /\ HealingAll
          /\ hp' = Healed(Healable)
          /\ entry' = entry - 1 /\ UNCHANGED listVars
       \/ /\ item \in {"book", "card"}
          /\ entry' = entry - 1 /\ UNCHANGED <<listVars, hp>>
       \/ /\ item \in {"escape", "other"}    \* the result closes the menu
          /\ CloseMenu /\ UNCHANGED <<entry, hp>>
    /\ stock' = Taken
    /\ UNCHANGED <<sp, freeHP, freeSP, skill, skillMenuPartyMemberSource, item,
                   garbled, crashed, chooser>>

\* An item with flag 8: an address computed from nothing is cleared.
UseWildItem ==
    /\ Running
    /\ menu = "items" /\ entry > 0
    /\ item = "wild"
    /\ crashed' = TRUE
    /\ UNCHANGED <<listVars, purse, skill, skillMenuPartyMemberSource, bag,
                   garbled, chooser>>
------------------------------------------------------------------------------
HealInit ==
    /\ ListInit
    /\ hp = [m \in Patients |-> MaxPoints] /\ sp = [m \in Patients |-> MaxPoints]
    /\ freeHP \in 0..1 /\ freeSP \in 0..1
    /\ skill = NoSkill /\ skillMenuPartyMemberSource = 0 /\ chooser = 0
    /\ EmptyBag
    /\ garbled = FALSE /\ crashed = FALSE

OpenSkillMenu ==
    /\ OpenMenu("skills")
    /\ UNCHANGED healVars

\* The game fills the item menu's numbers from the inventory, which has
\* changed in the meantime.
OpenItemMenu ==
    /\ OpenMenu("items")
    /\ item' \in Items /\ stock' \in 1..MaxStock /\ entry' = stock'
    /\ UNCHANGED <<purse, skill, skillMenuPartyMemberSource, garbled, crashed,
                   chooser>>

CloseAnyMenu ==
    /\ CloseMenu
    /\ Aimless
    /\ item' = NoItem /\ stock' = 0 /\ entry' = 0
    /\ UNCHANGED <<purse, skillMenuPartyMemberSource, garbled, crashed>>

\* Between menus the game goes on: members are hurt, and spend points.
GetHurt(m) ==
    /\ menu = NoMenu /\ Running
    /\ hp[m] > 1
    /\ hp' = [hp EXCEPT ![m] = @ - 1]
    /\ UNCHANGED <<listVars, sp, freeHP, freeSP, skill,
                   skillMenuPartyMemberSource, bag, garbled, crashed, chooser>>

HealNext ==
    \/ OpenSkillMenu \/ OpenItemMenu \/ CloseAnyMenu
    \/ \E pad \in {"up", "down"} : Move(pad) /\ UNCHANGED healVars
    \/ OpenEquip /\ UNCHANGED healVars
    \/ \E pad \in {"up", "down"} :
           ScrollThroughEquipPartyList(pad) /\ UNCHANGED healVars
    \/ \E s \in Skills, pad \in {"up", "down", "none"} : ChooseSkill(s, pad)
    \/ UseSkillOnOne \/ UseSkillOnAll \/ UseEscapeSkill \/ LeaveSkill
    \/ UseItem \/ UseWildItem
    \/ \E m \in Patients : GetHurt(m)

HealSpec == HealInit /\ [][HealNext]_<<listVars, healVars>>
------------------------------------------------------------------------------
\* Types of all variables.
HealTypeOK ==
    /\ save \in Saves
    /\ menu \in {NoMenu, "equip", "everyone"} \cup Lists
    /\ partyListOffset \in 0..9 /\ scrollMax \in 0..9
    /\ rows \in Seq(1..10) /\ cursor \in 0..9
    /\ hp \in [Patients -> Nat] /\ sp \in [Patients -> Nat]
    /\ freeHP \in Nat /\ freeSP \in Nat
    /\ skill \in Skills \cup {NoSkill}
    /\ skillMenuPartyMemberSource \in 0..10 /\ chooser \in 0..10
    /\ item \in Items \cup {NoItem} /\ stock \in 0..255 /\ entry \in 0..255
    /\ garbled \in BOOLEAN /\ crashed \in BOOLEAN

(* The rows of a list that scrolls are consecutive members, as many as fit:
   the offset, a number of the game's members, and its limit, a count of
   unlocked ones, never leave a row without a member or a member out of
   reach; the cursor is on one of the rows. *)
RowsAreWindow ==
    menu \in Lists =>
        LET all == Members(partyMembers)
        IN  /\ rows = SubSeq(all, partyListOffset + 1, partyListOffset + Len(rows))
            /\ Len(rows) = IF Len(all) < 7 THEN Len(all) ELSE 7
            /\ partyListOffset <= scrollMax
            /\ cursor < Len(rows)

(* A press moves from a member to its neighbour, round the list of all
   members and not only of those shown.  It is so from a cursor that is at
   an end of the window only where the list ends too; the first target of a
   skill can be elsewhere (row 0 of a window further down). *)
Aligned == /\ cursor = 0 => partyListOffset = 0
           /\ cursor = Len(rows) - 1 => partyListOffset = scrollMax
Rank(m) == Cardinality({k \in partyMembers : k < m})
MovesToNeighbour ==
    [][\A pad \in {"up", "down"} :
           Move(pad) /\ Aligned =>
               /\ Rank(Selected') = (Rank(Selected) + Step(pad))
                                        % Cardinality(partyMembers)
               /\ Aligned']_<<listVars, healVars>>

(* A skill is paid by the member who was selected for it, wherever the cursor
   has gone since, and by nobody else, in points or in a waiver: its whole
   cost, if the last member of the list was in need of it (or it had one
   target).  kasumi.c: "take some health away from the source player". *)
Bill(m, free, cost) == IF m = chooser /\ free = 0 THEN cost ELSE 0
Aimed == IF skill.kind = "one" THEN {Selected} ELSE Healable
PaidInFull ==
    /\ hp' = [m \in Patients |-> Healed(Aimed)[m] - Bill(m, freeHP, skill.hp)]
    /\ sp' = [m \in Patients |-> sp[m] - Bill(m, freeSP, skill.sp)]
    /\ freeHP' = Waived(freeHP, skill.hp)
    /\ freeSP' = Waived(freeSP, skill.sp)
CasterPays ==
    [][/\ menu \in {"targets", "everyone"}
       /\ skill.kind # "escape"
       /\ skill.kind = "all" => LastAnswer = 0
       /\ <<hp, sp, freeHP, freeSP>>' # <<hp, sp, freeHP, freeSP>>
       => PaidInFull]_<<listVars, healVars>>

(* Nobody is healed for nothing, and nothing is taken without effect: an item
   of healing is used up exactly when somebody's HP rises, and the menu never
   offers more or fewer than there are. *)
ItemPaysForHealing ==
    [][menu = "items" /\ menu' = menu /\ item \in {"one", "all"} =>
           (stock' # stock <=> \E m \in Patients : hp'[m] > hp[m])]_<<listVars, healVars>>
MenuCountsStock == menu = "items" => entry = stock

(* Every member can be reached, from everywhere and in order. *)
MembersInReach == [](HealTypeOK /\ RowsAreWindow) /\ MovesToNeighbour

(* Whoever is healed, it is paid for, once and by the right one. *)
HealingIsPaid == []MenuCountsStock /\ CasterPays /\ ItemPaysForHealing
==============================================================================
