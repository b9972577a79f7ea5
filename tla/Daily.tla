-------------------------------- MODULE Daily --------------------------------
(***************************************************************************)
(* What prx/modules/p5/SecreC/SecreC.c adds to the game's everyday screens: *)
(* the weekday that is called out when the calendar turns, the list of     *)
(* confidants, the icons of the group chat and the marks of the local map. *)
(* Each hook answers the game while it builds or draws a screen; the       *)
(* screens and the pad are the game's.                                     *)
(***************************************************************************)
EXTENDS Integers, Sequences, FiniteSets

CONSTANTS
    Days,           \* the days, counted from 1 April, that are looked at
    Answers,        \* what the game would answer about icons and flags
    FlagSets,       \* the sets of flags it is played with
    Starts          \* what a byte may hold that GetActiveConfidantAmount never sets

ASSUME DailyAssumption == Days \subseteq Nat /\ Starts \subseteq 0..255

VARIABLES
    announceWeekday,  \* the setting (rigid)
    flags,            \* the flags that are set (rigid)
    active,           \* who is active of the last four confidants (rigid)
    day,
    phase,            \* field 0x3314 of the calendar, 0 while it is closed
    count321,         \* a count of the save
    heard,            \* voice lines since the calendar was opened
    asked,            \* confidants the list has been built up to
    listed,
    shown,            \* answers about icons, marks and a portrait
    R2,               \* the button of the pad
    steady            \* ghost: since the list was opened R2 has not changed, and
                      \* the confidants have been counted from 0

dailyVars == <<announceWeekday, flags, active, day, phase, count321, heard,
               asked, listed, shown, R2, steady>>
calendar == <<day, phase, count321, heard>>
confidants == <<asked, listed, steady>>
rigid == <<announceWeekday, flags, active>>

Closed == 0
LastPhase == 5
Sae == 21
Maruki == 24
NoList == -1

\* The clip of a day: 120 for Monday, two for each day of the week.
CueOfDay(d, variation) ==
    LET DayOfWeek == CASE d % 7 = 0 -> 4
                       [] d % 7 = 1 -> 5
                       [] d % 7 = 2 -> 6
                       [] OTHER     -> (d % 7) - 3
    IN  120 + variation + DayOfWeek * 2

Cues == IF 4182 \in flags /\ (day < 233 \/ day > 237)
        THEN {51}
        ELSE {CueOfDay(day, variation) : variation \in {0, 1}}

\* counted with the phase after the clip
CountedLater ==
    CASE announceWeekday /\ phase = 2 -> 0
      [] announceWeekday /\ phase = 4 -> 1
      [] OTHER                        -> count321

\* Whether the clip has played is a count of the save.
Counted ==
    CASE announceWeekday /\ phase = 2 -> 0
      [] announceWeekday /\ phase = 3 -> 1
      [] OTHER                        -> count321

(* FUN_000503d0Hook runs on every frame of the calendar, and the game goes on
   to the next phase when it likes. *)
CalendarFrame ==
    /\ phase # Closed
    /\ IF announceWeekday /\ phase = 3 /\ count321 = 0
       THEN \E cue \in Cues : heard' = Append(heard, cue)
       ELSE UNCHANGED heard
    /\ count321' = Counted
    /\ phase' \in {phase} \cup (IF phase < LastPhase THEN {phase + 1} ELSE {})
    /\ UNCHANGED <<rigid, day, confidants, R2, shown>>

OpenCalendar ==
    /\ phase = Closed /\ asked = NoList /\ day + 1 \in Days
    /\ phase' = 1 /\ heard' = <<>> /\ day' = day + 1
    /\ UNCHANGED <<rigid, count321, confidants, R2, shown>>

CloseCalendar ==
    /\ phase = LastPhase
    /\ phase' = Closed
    /\ UNCHANGED <<rigid, day, count321, heard, confidants, R2, shown>>
------------------------------------------------------------------------------
\* GetActiveConfidantAmount: a byte that is counted up and never set at first;
\* the 19 confidants before them are all active.
confCount(start) == (start + 19 + Cardinality(active)) % 256

(* BuildConfidantListHook is asked for one confidant after the other, and
   reads the pad each time. *)
BuildConfidantListHook(a1, result, count) ==
    CASE R2 /\ a1 = Sae /\ count = 23     -> FALSE
      [] ~R2 /\ a1 = Maruki /\ count = 23 -> FALSE
      [] OTHER                            -> result

OpenConfidants ==
    /\ phase = Closed /\ asked = NoList
    /\ asked' = Sae - 1 /\ listed' = {} /\ steady' = TRUE
    /\ UNCHANGED <<rigid, calendar, R2, shown>>

AskConfidant ==
    /\ asked \in (Sae - 1)..(Maruki - 1)
    /\ asked' = asked + 1
    /\ \E start \in Starts :
           /\ listed' = IF BuildConfidantListHook(asked', asked' \in active, confCount(start))
                        THEN listed \cup {asked'} ELSE listed
           /\ steady' = (steady /\ start = 0)
    /\ UNCHANGED <<rigid, calendar, R2, shown>>

CloseConfidants ==
    /\ asked # NoList
    /\ asked' = NoList /\ listed' = {}
    /\ UNCHANGED <<rigid, calendar, R2, steady, shown>>

Press ==
    /\ R2' = ~R2
    /\ steady' = FALSE
    /\ UNCHANGED <<rigid, calendar, asked, listed, shown>>
------------------------------------------------------------------------------
(* Answers that depend on the flags and the day only. *)
GetBitflagState(f) == IF f \in flags THEN 1 ELSE 0

GetLmapBitFlag(a1) ==
    LET mark == CASE a1 = 2704 -> 2694     \* Kasumi
                  [] a1 = 2706 -> 2695     \* Maruki
                  [] OTHER     -> a1
    IN  IF a1 \in {2704, 2706, 2680} /\ 3583 \in flags THEN 1
        ELSE GetBitflagState(mark)

\* One function, and a range of arguments that the mod uses for its own calls.
BuildGroupChatIconListHook(a1, result) ==
    IF a1 >= 2671 THEN GetLmapBitFlag(a1)
    ELSE IF a1 = 10 /\ 1175 \in flags THEN 1 ELSE result

SelPortraitFromModelID(PortraitID) ==
    IF 2815 \in flags /\ day = 231 THEN 5 ELSE PortraitID

\* Icons that are in the group chat, marks on the map, a portrait: one screen.
Ask(results) ==
    /\ phase = Closed /\ asked = NoList
    /\ shown' = [chat |-> {i \in DOMAIN results :
                               BuildGroupChatIconListHook(i, results[i]) = 1},
                 portrait |-> SelPortraitFromModelID(0)]
    /\ UNCHANGED <<rigid, calendar, confidants, R2>>
------------------------------------------------------------------------------
DailyInit ==
    /\ announceWeekday \in BOOLEAN /\ flags \in FlagSets /\ active \in SUBSET (Sae..Maruki)
    /\ day \in Days /\ phase = Closed
    /\ count321 \in 0..1                \* as the save has it
    /\ heard = <<>>
    /\ asked = NoList /\ listed = {} /\ R2 = FALSE /\ steady = TRUE
    /\ shown = [chat |-> {}, portrait |-> 0]

DailyNext ==
    \/ CalendarFrame \/ OpenCalendar \/ CloseCalendar
    \/ OpenConfidants \/ AskConfidant \/ CloseConfidants \/ Press
    \/ \E results \in Answers : Ask(results)

DailySpec == DailyInit /\ [][DailyNext]_dailyVars
------------------------------------------------------------------------------
\* Types of all variables.
DailyTypeOK ==
    /\ announceWeekday \in BOOLEAN /\ active \subseteq Sae..Maruki
    /\ day \in Nat /\ phase \in Closed..LastPhase /\ count321 \in 0..1
    /\ heard \in Seq({51} \cup (120..133))
    /\ asked \in {NoList} \cup ((Sae - 1)..Maruki) /\ listed \subseteq Sae..Maruki
    /\ shown.portrait \in {0, 5}
    /\ R2 \in BOOLEAN /\ steady \in BOOLEAN

(* The clip plays once while the calendar turns, however many frames a phase
   has and whatever the count was in the save ("Prevents the voice clip from
   playing 84759207594560879 times", SecreC.c:386), and it names the weekday
   of the new day: 1 April 2016 was a Friday. *)
Weekday(d) == (d + 4) % 7          \* 0 is Monday
AnnouncedOnce ==
    /\ Len(heard) <= 1
    /\ phase > 3 => Len(heard) = IF announceWeekday THEN 1 ELSE 0
    /\ heard # <<>> /\ heard[1] # 51 =>
           heard[1] \in {120 + 2 * Weekday(day), 121 + 2 * Weekday(day)}

(* With everybody active the list has one row too few for them, and exactly
   one of the two rows at its end is left out; the button says which one, if
   it is not touched while the list is built and the count of confidants
   happens to begin at 0. *)
OneRowIsLeftOut ==
    asked = Maruki /\ steady =>
        listed = active \ (IF active # Sae..Maruki THEN {}
                            ELSE IF R2 THEN {Sae} ELSE {Maruki})

(* The day is announced as it is, once, and everybody but one has a row. *)
CalendarIsRight == DailyTypeOK /\ AnnouncedOnce /\ OneRowIsLeftOut
==============================================================================
