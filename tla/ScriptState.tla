----------------------------- MODULE ScriptState -----------------------------
(***************************************************************************)
(* The flags and counts of the game's scripts, as EXFLW extends them: its  *)
(* hooks of the game's get and set functions send flags and counts that the*)
(* game has no room for to storage of the PRX (EXFLW.c, p5.c). Scripts and *)
(* the console reach all of them through the same functions.               *)
(*                                                                         *)
(* A flag number is a section, its top four bits, and an index. Scripts    *)
(* made for the game's later edition use sections 1 to 5, whose first      *)
(* `SectionSize` flags have a place in the game's own array.               *)
(***************************************************************************)
EXTENDS Integers

CONSTANTS FlagArgs,    \* the flag numbers that scripts and console commands use
          CountArgs,   \* the counts
          Values       \* the values given to counts; 0 is among them

Section == 0..7
SectionUnit == 268435456        \* 0x10000000
Flag == [section : Section, index : 0..(SectionUnit - 1)]

ASSUME ScriptAssumption ==
  /\ FlagArgs \subseteq Flag
  /\ CountArgs \subseteq Nat
  /\ 0 \in Values

BIT_MAX == 8960
LastBit == 12031
GameCount == 0..255             \* the game's counts
ExtraCount == 0..255            \* the elements of GlobalCounts
ExtraByte == 0..383             \* the bytes of ExtraBitsStruct

VARIABLES
  gameBits,     \* the bits below BIT_MAX that are on, in the game's array
  extraBits,    \* those of NewBits that are on, as <<byte, position>>
  gameCounts,   \* the counts in the game's array
  globalCounts, \* GlobalCounts
  said,         \* the value each flag was last given; only the properties look at it
  saidCounts,   \* and each count
  overrun       \* a count has been written behind GlobalCounts

flagVars == <<gameBits, extraBits, said>>
countVars == <<gameCounts, globalCounts, saidCounts>>
vars == <<gameBits, extraBits, gameCounts, globalCounts, said, saidCounts, overrun>>

Init == /\ gameBits = {} /\ extraBits = {}
        /\ gameCounts = [c \in GameCount |-> 0]
        /\ globalCounts = [c \in ExtraCount |-> 0]
        /\ said = [f \in FlagArgs |-> FALSE]
        /\ saidCounts = [c \in CountArgs |-> 0]
        /\ overrun = FALSE

-----------------------------------------------------------------------------
(* Flags                                                                   *)

\* ReturnConvertedFlag: where a section's flags begin in the game's array, how
\* many have room there, and how many of the sections before it have not.
SectionStart == <<2048, 4096, 8192, 8448, 8704>>
SectionSize == <<2048, 4096, 256, 256, 256>>
OverflowBefore == <<0, 394, 1418, 1674, 1930>>

\* a conversion that lets every section overflow to the same place
ConvertedWithoutOverflow(f) ==
  IF f.section \notin 1..5 THEN f.section * SectionUnit + f.index
  ELSE IF f.index > SectionSize[f.section]
       THEN f.index - SectionSize[f.section] + BIT_MAX - 1
       ELSE f.index + SectionStart[f.section]

ReturnConvertedFlag(f) ==
  IF f.section \notin 1..5 THEN f.section * SectionUnit + f.index
  ELSE IF f.index > SectionSize[f.section]
       THEN f.index - SectionSize[f.section] + OverflowBefore[f.section] + BIT_MAX - 1
       ELSE f.index + SectionStart[f.section]

Bounded(b) == IF b > LastBit THEN LastBit ELSE b

Bit(f) == Bounded(ReturnConvertedFlag(f))

\* the place of an extra bit in NewBits
Place(b) == <<(b - BIT_MAX) \div 8, (b - BIT_MAX) % 8>>

GetBitFlagState(f) ==
  IF Bit(f) >= BIT_MAX THEN Place(Bit(f)) \in extraBits ELSE Bit(f) \in gameBits

With(set, x, on) == IF on THEN set \cup {x} ELSE set \ {x}

SetBitFlagState(f, on) ==
  /\ \/ /\ Bit(f) >= BIT_MAX
        /\ extraBits' = With(extraBits, Place(Bit(f)), on)
        /\ UNCHANGED gameBits
     \/ /\ Bit(f) < BIT_MAX
        /\ gameBits' = With(gameBits, Bit(f), on)
        /\ UNCHANGED extraBits
  /\ said' = [said EXCEPT ![f] = on]
  /\ UNCHANGED <<countVars, overrun>>

-----------------------------------------------------------------------------
(* Counts                                                                  *)

GlobalIndex(c) == c - 256

GetCount(c) == IF c >= 256 THEN globalCounts[GlobalIndex(c)] ELSE gameCounts[c]

SetCount(c, v) ==
  /\ \/ /\ c >= 256 /\ GlobalIndex(c) \in ExtraCount
        /\ globalCounts' = [globalCounts EXCEPT ![GlobalIndex(c)] = v]
        /\ UNCHANGED gameCounts
     \/ /\ c < 256
        /\ gameCounts' = [gameCounts EXCEPT ![c] = v]
        /\ UNCHANGED globalCounts
  /\ saidCounts' = [saidCounts EXCEPT ![c] = v]
  /\ UNCHANGED <<flagVars, overrun>>

\* The hooks have no upper limit, and the console's check lets 512 through.
\* Nothing is said of what follows.
Overrun(c) ==
  /\ c >= 256 /\ GlobalIndex(c) \notin ExtraCount
  /\ overrun' = TRUE
  /\ UNCHANGED <<flagVars, countVars>>

Use == /\ ~overrun
       /\ \/ \E f \in FlagArgs, on \in BOOLEAN : SetBitFlagState(f, on)
          \/ \E c \in CountArgs : Overrun(c) \/ \E v \in Values : SetCount(c, v)

Over == overrun /\ UNCHANGED vars

Next == Use \/ Over

Spec == Init /\ [][Next]_vars

-----------------------------------------------------------------------------
(* Properties                                                              *)

TypeOK ==
  /\ gameBits \subseteq 0..(BIT_MAX - 1)
  /\ extraBits \subseteq ExtraByte \X (0..7)
  /\ gameCounts \in [GameCount -> Values]
  /\ globalCounts \in [ExtraCount -> Values]
  /\ said \in [FlagArgs -> BOOLEAN]
  /\ saidCounts \in [CountArgs -> Values]
  /\ overrun \in BOOLEAN

\* How many flags of each section have a bit: those of the game's array and
\* those that overflow without reaching the next section's overflow, or the
\* bit that everything out of bounds is sent to.
SectionLimit == <<2443, 5121, 513, 513, 1398>>

\* A flag with a bit to itself. The last flag that a section's comparison still
\* places in the game's array (index = SectionSize) has none: it shares the bit
\* of the next section's first flag, or of section 1's first overflow.
Own(f) == \/ f.section = 0 /\ f.index < 2048
          \/ /\ f.section \in 1..5
             /\ f.index < SectionLimit[f.section]
             /\ f.index # SectionSize[f.section]

OutOfBounds(f) == ReturnConvertedFlag(f) > LastBit

\* A script reads back what was last written to a flag, whatever flags are
\* written in between, in the game's array, in NewBits, or out of bounds.
FlagsAsSaid ==
  (\A f \in FlagArgs : Own(f) \/ OutOfBounds(f)) =>
    \A f \in FlagArgs : Own(f) => (GetBitFlagState(f) <=> said[f])

\* The same for counts, the game's and those of the PRX.
CountsAsSaid == \A c \in CountArgs : c < 512 => GetCount(c) = saidCounts[c]

\* Every flag and every count reads what was last written to it, and every write
\* goes where there is room for it.
ReadsAsWritten == TypeOK /\ FlagsAsSaid /\ CountsAsSaid
=============================================================================
