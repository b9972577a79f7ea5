-------------------------------- MODULE Party --------------------------------
(***************************************************************************)
(* The active party: four slots of the game, which the console commands    *)
(* partyin and partyout of EXFLW rewrite (EXFLW.c). The game has a function*)
(* to read a slot and one to write it, and no function to add or to remove *)
(* a member, so that the commands work slot by slot.                       *)
(***************************************************************************)
EXTENDS Integers

CONSTANT Args                   \* the numbers that follow the commands

ASSUME ArgsAssumption == Args \subseteq Nat

Slot == 0..3
Mate == 1..3                    \* the slots that partyout rewrites
LastUnit == 10
Unit == 0..LastUnit
Empty == 0                      \* what an empty slot holds
Joker == 1

VARIABLE slots                  \* the unit in each slot

Members(s) == {s[i] : i \in Slot} \ {Empty}
HasRoom(s) == \E i \in Slot : s[i] = Empty
FirstEmpty(s) == CHOOSE i \in Slot : s[i] = Empty /\ \A j \in 0..(i - 1) : s[j] # Empty
Distinct(s) == \A i, j \in Slot : s[i] = s[j] /\ s[i] # Empty => i = j

\* The game keeps Joker in front, and may leave a gap where a member has left.
PartyInit == /\ slots \in [Slot -> (Args \cap Unit) \cup {Empty, Joker}]
             /\ slots[0] = Joker
             /\ Distinct(slots)

\* The slots after a unit is put into one.
Put(s, i, u) == [s EXCEPT ![i] = u]

\* a newcomer to a full party in Joker's place
PartyInFront(s, u) ==
  IF u \in {s[i] : i \in Slot} THEN s
  ELSE Put(s, IF HasRoom(s) THEN FirstEmpty(s) ELSE 0, u)

\* a newcomer who is not looked for among the members
PartyInUnchecked(s, u) ==
  Put(s, IF HasRoom(s) THEN FirstEmpty(s) ELSE 3, u)

\* PartyIn: nothing for a unit that is there, the first empty slot, else the last.
PartyIn(s, u) ==
  IF u \in {s[i] : i \in Slot} THEN s
  ELSE Put(s, IF HasRoom(s) THEN FirstEmpty(s) ELSE 3, u)

Cleared(s) == [i \in Slot |-> IF i \in Mate THEN Empty ELSE s[i]]

\* partyout with slots that are not emptied before they are filled
PartyOutInPlace(s, u) ==
  LET Back(t, m) == IF m # u THEN PartyIn(t, m) ELSE t
  IN  Back(Back(Back(s, s[1]), s[2]), s[3])

\* The slots behind Joker are read, emptied, and filled with those who stay.
PartyOut(s, u) ==
  LET Back(t, m) == IF m # u THEN PartyIn(t, m) ELSE t
  IN  Back(Back(Back(Cleared(s), s[1]), s[2]), s[3])

\* A unit above 10 is an error of the command. 0 is none, and is put in as if it
\* were a member.
ttyPartyInCmd(u) == u <= LastUnit /\ slots' = PartyIn(slots, u)

ttyPartyOutCmd(u) == u <= LastUnit /\ slots' = PartyOut(slots, u)

PartyNext == \E u \in Args : ttyPartyInCmd(u) \/ ttyPartyOutCmd(u)

PartySpec == PartyInit /\ [][PartyNext]_slots

-----------------------------------------------------------------------------
\* Types of the slots; Joker never leaves the first one.
PartyTypeOK == slots \in [Slot -> Unit] /\ slots[0] = Joker

\* No unit stands in two slots, however often and in whatever order members are
\* put in and taken out: battle code would let it act twice.
NobodyTwice == Distinct(slots)

\* A member a is in front of a member b.
InFrontOf(s, a, b) == \E i, j \in Slot : i < j /\ s[i] = a /\ s[j] = b

\* partyout takes out the mate it is told and nobody else, although it rebuilds
\* the slots, and the others keep their order.
OutIsExact ==
  \A u \in Args \cap Unit :
    LET after == PartyOut(slots, u)
    IN  /\ Members(after) = (Members(slots) \ {u}) \cup {Joker}
        /\ \A a, b \in Members(after) : InFrontOf(slots, a, b) => InFrontOf(after, a, b)

\* After partyin the unit is in the party, and nobody has left it but, when it was
\* full, the one in the last slot: never Joker.
InDisplacesTheLastOnly ==
  \A u \in (Args \cap Unit) \ {Empty} :
    LET after == PartyIn(slots, u)
    IN  /\ u \in Members(after)
        /\ Members(slots) \subseteq Members(after) \cup (IF HasRoom(slots) THEN {} ELSE {slots[3]})
=============================================================================
