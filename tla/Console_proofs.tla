---------------------------- MODULE Console_proofs ----------------------------
(* Theorems about what scripts and the console write: the flags and counts of *)
(* ScriptState, for all flags, counts and values, and the lines of Console,   *)
(* for all lines.                                                             *)
EXTENDS Console, Text_proofs

\* ReturnConvertedFlag, with the tables of the sections read.
LEMMA Converted ==
  ASSUME NEW f \in Flag
  PROVE  /\ f.section \in 0..7 /\ f.index \in Nat
         /\ ReturnConvertedFlag(f) \in Nat
         /\ f.section = 0 => ReturnConvertedFlag(f) = f.index
         /\ f.section = 1 => ReturnConvertedFlag(f) = f.index + (IF f.index > 2048 THEN 6911 ELSE 2048)
         /\ f.section = 2 => ReturnConvertedFlag(f) = f.index + (IF f.index > 4096 THEN 5257 ELSE 4096)
         /\ f.section = 3 => ReturnConvertedFlag(f) = f.index + (IF f.index > 256 THEN 10121 ELSE 8192)
         /\ f.section = 4 => ReturnConvertedFlag(f) = f.index + (IF f.index > 256 THEN 10377 ELSE 8448)
         /\ f.section = 5 => ReturnConvertedFlag(f) = f.index + (IF f.index > 256 THEN 10633 ELSE 8704)
<1>1. f.section \in 0..7 /\ f.index \in Nat
  <2>1. f.section \in Section /\ f.index \in 0..(SectionUnit - 1)
    BY DEF Flag
  <2>2. SectionUnit \in Nat
    BY SMT DEF SectionUnit
  <2>3. f.section \in 0..7
    BY <2>1, Zenon DEF Section
  <2> QED
    BY <2>1, <2>2, <2>3, SMT
<1>2. /\ SectionStart[1] = 2048 /\ SectionSize[1] = 2048 /\ OverflowBefore[1] = 0
      /\ SectionStart[2] = 4096 /\ SectionSize[2] = 4096 /\ OverflowBefore[2] = 394
      /\ SectionStart[3] = 8192 /\ SectionSize[3] = 256 /\ OverflowBefore[3] = 1418
      /\ SectionStart[4] = 8448 /\ SectionSize[4] = 256 /\ OverflowBefore[4] = 1674
      /\ SectionStart[5] = 8704 /\ SectionSize[5] = 256 /\ OverflowBefore[5] = 1930
  BY SMT DEF SectionStart, SectionSize, OverflowBefore
<1>3. CASE f.section \notin 1..5
  <2>1. ReturnConvertedFlag(f) = f.section * SectionUnit + f.index
    BY <1>3 DEF ReturnConvertedFlag
  <2>2. f.section * SectionUnit \in Nat /\ (f.section = 0 => f.section * SectionUnit = 0)
    BY <1>1, SMT DEF SectionUnit
  <2> QED
    BY <1>1, <1>3, <2>1, <2>2, SMT
<1>4. CASE f.section \in 1..5
  <2>1. ReturnConvertedFlag(f) =
          IF f.index > SectionSize[f.section]
            THEN f.index - SectionSize[f.section] + OverflowBefore[f.section] + 8960 - 1
            ELSE f.index + SectionStart[f.section]
    BY <1>4, SMT DEF ReturnConvertedFlag, BIT_MAX
  <2> QED
    BY <1>1, <1>2, <1>4, <2>1, SMT
<1> QED
  BY <1>3, <1>4

\* Own, with the tables read.
LEMMA OwnBounds ==
  ASSUME NEW f \in Flag, Own(f)
  PROVE  \/ f.section = 0 /\ f.index < 2048
         \/ f.section = 1 /\ f.index < 2443 /\ f.index # 2048
         \/ f.section = 2 /\ f.index < 5121 /\ f.index # 4096
         \/ f.section = 3 /\ f.index < 513 /\ f.index # 256
         \/ f.section = 4 /\ f.index < 513 /\ f.index # 256
         \/ f.section = 5 /\ f.index < 1398 /\ f.index # 256
<1>1. /\ SectionLimit[1] = 2443 /\ SectionSize[1] = 2048
      /\ SectionLimit[2] = 5121 /\ SectionSize[2] = 4096
      /\ SectionLimit[3] = 513 /\ SectionSize[3] = 256
      /\ SectionLimit[4] = 513 /\ SectionSize[4] = 256
      /\ SectionLimit[5] = 1398 /\ SectionSize[5] = 256
  BY DEF SectionLimit, SectionSize
<1>2. f.section \in 0..7 /\ f.index \in Nat
  BY Converted
<1> QED
  BY <1>1, <1>2 DEF Own

LEMMA BoundedInRange ==
  ASSUME NEW b \in Nat
  PROVE  /\ Bounded(b) \in 0..LastBit
         /\ b <= LastBit => Bounded(b) = b
         /\ b > LastBit => Bounded(b) = LastBit
BY DEF Bounded, LastBit

\* A flag has a bit of the game's array or of NewBits.
LEMMA BitInRange ==
  ASSUME NEW f \in Flag
  PROVE  Bit(f) \in 0..LastBit
<1>1. ReturnConvertedFlag(f) \in Nat
  BY Converted
<1> QED
  BY <1>1, BoundedInRange DEF Bit

LEMMA GameBitInRange ==
  ASSUME NEW b \in 0..LastBit, b < BIT_MAX
  PROVE  b \in 0..(BIT_MAX - 1)
<1>1. b \in Int /\ 0 <= b /\ b <= BIT_MAX - 1
  BY DEF LastBit, BIT_MAX
<1>2. BIT_MAX - 1 \in Int
  BY DEF BIT_MAX
<1> QED
  BY <1>1, <1>2

LEMMA BitsBeyond == ASSUME NEW c \in 0..LastBit, c >= BIT_MAX PROVE c \in BIT_MAX..LastBit
<1>1. c \in Int /\ BIT_MAX <= c /\ c <= LastBit
  BY DEF LastBit, BIT_MAX
<1>2. BIT_MAX \in Int /\ LastBit \in Int
  BY DEF LastBit, BIT_MAX
<1> QED
  BY <1>1, <1>2

\* The bits of NewBits lie inside it, and no two of them in one place.
LEMMA PlaceInStruct ==
  ASSUME NEW b \in BIT_MAX..LastBit
  PROVE  Place(b) \in ExtraByte \X (0..7)
<1>1. b - 8960 \in 0..3071
  BY DEF BIT_MAX, LastBit
<1>2. (b - 8960) \div 8 \in 0..383 /\ (b - 8960) % 8 \in 0..7
  BY <1>1
<1> QED
  BY <1>2 DEF Place, ExtraByte, BIT_MAX

LEMMA PlacesDiffer ==
  ASSUME NEW b \in BIT_MAX..LastBit, NEW c \in BIT_MAX..LastBit, Place(b) = Place(c)
  PROVE  b = c
<1>1. /\ (b - 8960) \div 8 = (c - 8960) \div 8
      /\ (b - 8960) % 8 = (c - 8960) % 8
  BY DEF Place, BIT_MAX
<1>2. b - 8960 \in Int /\ c - 8960 \in Int
  BY DEF BIT_MAX, LastBit
<1>3. b - 8960 = 8 * ((b - 8960) \div 8) + ((b - 8960) % 8)
  BY <1>2
<1>4. c - 8960 = 8 * ((c - 8960) \div 8) + ((c - 8960) % 8)
  BY <1>2
<1> QED
  BY <1>1, <1>2, <1>3, <1>4 DEF BIT_MAX, LastBit

\* A flag with a bit of its own shares it with no other such flag, and not with
\* the bit that stands for everything out of bounds.
LEMMA OwnBitsDiffer ==
  ASSUME NEW f \in Flag, NEW g \in Flag, Own(f), Own(g) \/ OutOfBounds(g), Bit(f) = Bit(g)
  PROVE  f = g
<1> DEFINE cf == ReturnConvertedFlag(f)  cg == ReturnConvertedFlag(g)
<1>1. cf < LastBit /\ cf \in Nat
  BY Converted, OwnBounds DEF LastBit
<1>2. Bit(f) = cf
  <2>1. cf <= LastBit
    BY <1>1, SMT DEF LastBit
  <2> QED
    BY <1>1, <2>1, BoundedInRange, Zenon DEF Bit
<1>3. CASE OutOfBounds(g)
  <2>1. Bit(g) = LastBit
    BY <1>3 DEF OutOfBounds, Bit, Bounded
  <2>2. cf = LastBit
    BY <1>2, <2>1, Zenon
  <2> HIDE DEF cf
  <2> QED
    BY <1>1, <2>2 DEF LastBit
<1>4. CASE Own(g)
  <2>1. cg < LastBit /\ cg \in Nat
    BY <1>4, Converted, OwnBounds DEF LastBit
  <2>2. Bit(g) = cg
    <3>1. cg <= LastBit
      BY <2>1, SMT DEF LastBit
    <3> QED
      BY <2>1, <3>1, BoundedInRange, Zenon DEF Bit
  <2>3. f.section = g.section /\ f.index = g.index
    <3>1. cf = cg
      BY <1>2, <2>2
    <3> HIDE DEF cf, cg
    <3> QED
      BY <3>1, <1>4, Converted, OwnBounds DEF cf, cg
  <2>4. /\ f = [section |-> f.section, index |-> f.index]
        /\ g = [section |-> g.section, index |-> g.index]
    BY DEF Flag
  <2> QED
    BY <2>3, <2>4, Zenon
<1> QED
  BY <1>3, <1>4

-----------------------------------------------------------------------------
\* A write leaves every variable its type.
LEMMA TypesStep == TypeOK /\ [Next]_vars => TypeOK'
<1> SUFFICES ASSUME TypeOK, [Next]_vars PROVE TypeOK'
  OBVIOUS
<1>1. ASSUME NEW f \in FlagArgs, NEW on \in BOOLEAN, SetBitFlagState(f, on) PROVE TypeOK'
  <2>1. f \in Flag /\ Bit(f) \in 0..LastBit
    BY BitInRange, ScriptAssumption
  <2> DEFINE b == Bit(f)
  <2>0. b \in 0..LastBit
    BY <2>1
  <2> HIDE DEF b
  <2>2. b >= BIT_MAX => Place(b) \in ExtraByte \X (0..7)
    <3> SUFFICES ASSUME b >= BIT_MAX PROVE Place(b) \in ExtraByte \X (0..7)
      OBVIOUS
    <3>1. b \in BIT_MAX..LastBit
      BY <2>0, BitsBeyond
    <3> QED
      BY <3>1, PlaceInStruct
  <2>3. b < BIT_MAX => b \in 0..(BIT_MAX - 1)
    BY <2>0, GameBitInRange
  <2>4. gameBits' \subseteq 0..(BIT_MAX - 1)
    BY <1>1, <2>3, Zenon DEF b, SetBitFlagState, With, TypeOK
  <2>5. extraBits' \subseteq ExtraByte \X (0..7)
    BY <1>1, <2>2, Zenon DEF b, SetBitFlagState, With, TypeOK
  <2> QED
    BY <1>1, <2>4, <2>5 DEF SetBitFlagState, TypeOK, countVars
<1>2. ASSUME NEW c \in CountArgs, NEW v \in Values, SetCount(c, v) PROVE TypeOK'
  BY <1>2, ScriptAssumption DEF SetCount, TypeOK, flagVars
<1>3. ASSUME NEW c \in CountArgs, Overrun(c) PROVE TypeOK'
  BY <1>3 DEF Overrun, TypeOK, flagVars, countVars
<1>4. CASE UNCHANGED vars
  BY <1>4 DEF vars, TypeOK
<1> QED
  BY <1>1, <1>2, <1>3, <1>4 DEF Next, Use, Over

LEMMA TypesStart == Init => TypeOK
BY ScriptAssumption DEF Init, TypeOK

\* Every variable keeps its type, whatever is written to whichever flag or
\* count: no flag reaches beyond the 384 bytes of NewBits.
THEOREM TypeCorrect == Spec => []TypeOK
BY TypesStart, TypesStep, PTL DEF Spec

\* A write to one flag leaves what the other flags read, unless the two share a
\* bit; the flag itself reads what was written.
LEMMA WriteIsLocal ==
  ASSUME NEW f \in FlagArgs, NEW on \in BOOLEAN, SetBitFlagState(f, on), NEW g \in Flag
  PROVE  /\ g = f => (GetBitFlagState(g)' <=> on)
         /\ Bit(g) # Bit(f) => (GetBitFlagState(g)' <=> GetBitFlagState(g))
<1> DEFINE b == Bit(f)  c == Bit(g)
<1>1. b \in 0..LastBit /\ c \in 0..LastBit
  BY BitInRange, ScriptAssumption
<1>2. /\ b >= BIT_MAX => extraBits' = With(extraBits, Place(b), on) /\ gameBits' = gameBits
      /\ ~(b >= BIT_MAX) => gameBits' = With(gameBits, b, on) /\ extraBits' = extraBits
  <2>1. ~(b >= BIT_MAX) <=> b < BIT_MAX
    <3> HIDE DEF b
    <3> QED
      BY <1>1 DEF LastBit, BIT_MAX
  <2> QED
    BY <2>1, Zenon DEF SetBitFlagState
<1>3. /\ c >= BIT_MAX => /\ GetBitFlagState(g) <=> Place(c) \in extraBits
                         /\ GetBitFlagState(g)' <=> Place(c) \in extraBits'
      /\ ~(c >= BIT_MAX) => /\ GetBitFlagState(g) <=> c \in gameBits
                            /\ GetBitFlagState(g)' <=> c \in gameBits'
  BY Zenon DEF GetBitFlagState
<1>4. b # c /\ b >= BIT_MAX /\ c >= BIT_MAX => Place(b) # Place(c)
  <2> SUFFICES ASSUME b # c, b >= BIT_MAX, c >= BIT_MAX PROVE Place(b) # Place(c)
    OBVIOUS
  <2> HIDE DEF b, c
  <2>1. b \in BIT_MAX..LastBit
    BY <1>1, BitsBeyond
  <2>2. c \in BIT_MAX..LastBit
    BY <1>1, BitsBeyond
  <2> QED
    BY <2>1, <2>2, PlacesDiffer
<1>5. g = f => b = c
  OBVIOUS
<1> HIDE DEF b, c
<1>6. CASE g = f
  <2>1. GetBitFlagState(g)' <=> on
    BY <1>2, <1>3, <1>5, <1>6, Zenon DEF With
  <2>2. Bit(g) = Bit(f)
    BY <1>6
  <2> QED
    BY <2>1, <2>2, Zenon
<1>7. CASE b # c
  <2>1. GetBitFlagState(g)' <=> GetBitFlagState(g)
    <3>1. CASE b >= BIT_MAX /\ c >= BIT_MAX
      BY <1>2, <1>3, <1>4, <1>7, <3>1, Zenon DEF With
    <3>2. CASE ~(b >= BIT_MAX) /\ ~(c >= BIT_MAX)
      <4>1. gameBits' = With(gameBits, b, on)
        BY <1>2, <3>2, Zenon
      <4>2. c \in gameBits' <=> c \in gameBits
        BY <1>7, <4>1 DEF With
      <4> QED
        BY <1>3, <3>2, <4>2, Zenon
    <3>3. CASE ~(b >= BIT_MAX <=> c >= BIT_MAX)
      BY <1>2, <1>3, <3>3, Zenon
    <3> QED
      BY <3>1, <3>2, <3>3, Zenon
  <2> QED
    BY <1>5, <1>7, <2>1, Zenon
<1> QED
  BY <1>6, <1>7, Zenon DEF b, c

\* A write to a flag or a count leaves what the other flags read.
LEMMA FlagsStep == TypeOK /\ FlagsAsSaid /\ [Next]_vars => FlagsAsSaid'
<1> SUFFICES ASSUME TypeOK, FlagsAsSaid, [Next]_vars,
                    \A g \in FlagArgs : Own(g) \/ OutOfBounds(g),
                    NEW g \in FlagArgs, Own(g)
             PROVE  GetBitFlagState(g)' <=> said'[g]
  BY DEF FlagsAsSaid
<1>1. GetBitFlagState(g) <=> said[g]
  BY DEF FlagsAsSaid
<1>2. ASSUME NEW f \in FlagArgs, NEW on \in BOOLEAN, SetBitFlagState(f, on)
      PROVE  GetBitFlagState(g)' <=> said'[g]
  <2>1. f \in Flag /\ g \in Flag
    BY ScriptAssumption
  <2>2. said' = [said EXCEPT ![f] = on] /\ said \in [FlagArgs -> BOOLEAN]
    BY <1>2, Zenon DEF SetBitFlagState, TypeOK
  <2>3. CASE g = f
    <3>1. GetBitFlagState(g)' <=> on
      BY <1>2, <2>1, <2>3, WriteIsLocal, Zenon
    <3> QED
      BY <2>2, <2>3, <3>1, Zenon
  <2>4. CASE g # f
    <3>1. Bit(g) # Bit(f)
      BY <2>1, <2>4, OwnBitsDiffer, Zenon
    <3>2. GetBitFlagState(g)' <=> GetBitFlagState(g)
      BY <1>2, <2>1, <3>1, WriteIsLocal, Zenon
    <3> QED
      BY <1>1, <2>2, <2>4, <3>2, Zenon
  <2> QED
    BY <2>3, <2>4
<1>3. CASE UNCHANGED flagVars
  BY <1>1, <1>3, Zenon DEF flagVars, GetBitFlagState
<1>4. (\E c \in CountArgs : Overrun(c) \/ \E v \in Values : SetCount(c, v)) => UNCHANGED flagVars
  BY Zenon DEF Overrun, SetCount
<1>5. UNCHANGED vars => UNCHANGED flagVars
  BY DEF vars, flagVars
<1> QED
  BY <1>2, <1>3, <1>4, <1>5, Zenon DEF Next, Use, Over

LEMMA FlagsStart == Init => FlagsAsSaid
<1> SUFFICES ASSUME Init, NEW f \in FlagArgs PROVE GetBitFlagState(f) <=> said[f]
  BY DEF FlagsAsSaid
<1>1. gameBits = {} /\ extraBits = {} /\ said[f] = FALSE
  BY DEF Init
<1> QED
  BY <1>1, Zenon DEF GetBitFlagState

\* As long as scripts keep to flags that have a bit of their own or are out of
\* bounds, what a flag reads is what was last written to it.
THEOREM FlagsAsSaidCorrect == Spec => []FlagsAsSaid
BY FlagsStart, FlagsStep, TypeCorrect, PTL DEF Spec

\* A write to a flag or a count leaves what the other counts read.
LEMMA CountsStep == TypeOK /\ CountsAsSaid /\ [Next]_vars => CountsAsSaid'
<1> SUFFICES ASSUME TypeOK, CountsAsSaid, [Next]_vars, NEW d \in CountArgs, d < 512
             PROVE  GetCount(d)' = saidCounts'[d]
  BY DEF CountsAsSaid
<1>1. GetCount(d) = saidCounts[d]
  BY DEF CountsAsSaid
<1>2. d \in Nat /\ (d >= 256 => GlobalIndex(d) \in ExtraCount) /\ (~(d >= 256) => d \in GameCount)
  BY ScriptAssumption DEF GlobalIndex, ExtraCount, GameCount
<1>3. ASSUME NEW c \in CountArgs, NEW v \in Values, SetCount(c, v)
      PROVE  GetCount(d)' = saidCounts'[d]
  <2>1. c \in Nat
    BY ScriptAssumption
  <2>2. saidCounts'[d] = IF c = d THEN v ELSE saidCounts[d]
    BY <1>3 DEF SetCount, TypeOK
  <2>3. GetCount(d)' = IF d >= 256 THEN globalCounts'[GlobalIndex(d)] ELSE gameCounts'[d]
    BY Zenon DEF GetCount
  <2>4. GetCount(d) = IF d >= 256 THEN globalCounts[GlobalIndex(d)] ELSE gameCounts[d]
    BY Zenon DEF GetCount
  <2>5. d # c => GlobalIndex(d) # GlobalIndex(c)
    BY <1>2, <2>1 DEF GlobalIndex
  <2>6. CASE c < 256
    <3>1. gameCounts' = [gameCounts EXCEPT ![c] = v] /\ globalCounts' = globalCounts
      BY <1>3, <2>1, <2>6 DEF SetCount
    <3>2. c = d => ~(d >= 256)
      BY <2>1, <2>6
    <3> QED
      BY <1>1, <1>2, <2>2, <2>3, <2>4, <3>1, <3>2, Zenon DEF TypeOK
  <2>7. CASE c >= 256
    <3>1. globalCounts' = [globalCounts EXCEPT ![GlobalIndex(c)] = v] /\ gameCounts' = gameCounts
      BY <1>3, <2>1, <2>7 DEF SetCount
    <3> QED
      BY <1>1, <1>2, <2>2, <2>3, <2>4, <2>5, <2>7, <3>1, Zenon DEF TypeOK
  <2> QED
    BY <2>1, <2>6, <2>7
<1>4. UNCHANGED countVars => GetCount(d)' = saidCounts'[d]
  BY <1>1, Zenon DEF countVars, GetCount
<1>5. ASSUME NEW c \in CountArgs, Overrun(c) PROVE UNCHANGED countVars
  BY <1>5, Zenon DEF Overrun
<1>6. ASSUME NEW f \in FlagArgs, NEW on \in BOOLEAN, SetBitFlagState(f, on) PROVE UNCHANGED countVars
  BY <1>6, Zenon DEF SetBitFlagState
<1>7. UNCHANGED vars => UNCHANGED countVars
  BY DEF vars, countVars
<1> QED
  BY <1>3, <1>4, <1>5, <1>6, <1>7, Zenon DEF Next, Use, Over

LEMMA CountsStart == Init => CountsAsSaid
<1> SUFFICES ASSUME Init, NEW c \in CountArgs, c < 512 PROVE GetCount(c) = saidCounts[c]
  BY DEF CountsAsSaid
<1>1. c \in Nat
  BY ScriptAssumption
<1>2. (c >= 256 => GlobalIndex(c) \in ExtraCount) /\ (~(c >= 256) => c \in GameCount)
  BY <1>1 DEF GlobalIndex, ExtraCount, GameCount
<1> QED
  BY <1>2, Zenon DEF Init, GetCount

\* No count is lost to another, on either side of the border between the game's
\* array and GlobalCounts.
THEOREM CountsAsSaidCorrect == Spec => []CountsAsSaid
BY CountsStart, CountsStep, TypeCorrect, PTL DEF Spec

\* Scripts and the console read what was written, for all flags and counts that
\* have a place to themselves, and never write outside the three arrays.
THEOREM ReadsAsWrittenCorrect == Spec => []ReadsAsWritten
<1>1. ReadsAsWritten <=> TypeOK /\ FlagsAsSaid /\ CountsAsSaid
  BY DEF ReadsAsWritten
<1> QED
  BY <1>1, TypeCorrect, FlagsAsSaidCorrect, CountsAsSaidCorrect, PTL

-----------------------------------------------------------------------------
(* The console's lines.                                                    *)

\* The pieces of an orderly line are its words.
LEMMA PiecesAreWords ==
    ASSUME NEW line \in Seq(STRING), NEW from \in 1..Len(line), NEW to \in from..Len(line),
           Orderly(line, from, to)
    PROVE  /\ \E m \in Nat : to - from = 2 * m /\ Len(Words(line, from, to)) = m + 1
                             /\ Len(Pieces(line)) = m + 1
           /\ \A i \in 1..Len(Words(line, from, to)) : Pieces(line)[i] = <<Words(line, from, to)[i]>>
           /\ Pieces(line) \in Seq(Seq(STRING)) /\ ~stringIsNullOrWhitespace(line)
<1>1. PICK len \in Nat : len = Len(line) /\ DOMAIN line = 1..len
    BY LenProperties
<1>2. PICK m \in Nat : to - from = 2 * m /\ to - from + 1 = 2 * m + 1
    <2>1. PICK d \in Nat : d = to - from /\ d % 2 = 0
        BY DEF Orderly
    <2>2. d = 2 * (d \div 2) /\ d \div 2 \in Nat
        BY <2>1
    <2>3. PICK m \in Nat : d = 2 * m
        BY <2>2, Zenon
    <2> QED
        BY <2>1, <2>3
<1>3. \A k \in 0..m : ~charIsWhitespace(line[from + 2 * k])
    <2> TAKE k \in 0..m
    <2>1. from + 2 * k \in from..to /\ (from + 2 * k - from) % 2 = 0
        BY <1>2
    <2> QED
        BY <2>1 DEF Orderly
<1>4. \A k \in 1..m : line[from + 2 * k - 1] = Blank
    <2> TAKE k \in 1..m
    <2>1. from + 2 * k - 1 \in from..to /\ (from + 2 * k - 1 - from) % 2 # 0
        BY <1>2
    <2> QED
        BY <2>1 DEF Orderly
<1>5. ~charIsWhitespace(line[from]) /\ ~charIsWhitespace(line[to])
    <2>1. 0 \in 0..m /\ m \in 0..m /\ from + 2 * 0 = from /\ from + 2 * m = to
        BY <1>2
    <2> QED
        BY <1>3, <2>1
<1>6. PICK t : t = SubSeq(line, from, to)
    OBVIOUS
<1>7. stringTrim(line) = t
    <2>1. \A k \in 1..Len(line) : k < from \/ k > to => charIsWhitespace(line[k])
        BY <1>1 DEF Orderly
    <2> QED
        BY <1>5, <1>6, <2>1, TrimIs
<1>8. t \in Seq(STRING) /\ Len(t) = 2 * m + 1
    BY <1>1, <1>2, <1>6
<1>9. \A k \in 1..(2 * m + 1) : t[k] = line[from + k - 1]
    BY <1>1, <1>2, <1>6
<1>10. \A k \in 0..m : t[2 * k + 1] # Blank
    <2> TAKE k \in 0..m
    <2>1. 2 * k + 1 \in 1..(2 * m + 1) /\ from + (2 * k + 1) - 1 = from + 2 * k
        OBVIOUS
    <2>2. charIsWhitespace(Blank)
        BY DEF charIsWhitespace, Blank
    <2> QED
        BY <1>3, <1>9, <2>1, <2>2
<1>11. \A k \in 1..m : t[2 * k] = Blank
    <2> TAKE k \in 1..m
    <2>1. 2 * k \in 1..(2 * m + 1)
        OBVIOUS
    <2> QED
        BY <1>4, <1>9, <2>1
<1>12. Pieces(line) = [i \in 1..(m + 1) |-> <<t[2 * i - 1]>>]
    <2>1. stringSplit(t, Blank) = [i \in 1..(m + 1) |-> <<t[2 * i - 1]>>]
        BY <1>8, <1>10, <1>11, SplitOfWords
    <2> QED
        BY <1>7, <2>1 DEF Pieces
<1>13. PICK pieces : pieces = Pieces(line)
    OBVIOUS
<1>14. Len(pieces) = m + 1
    BY <1>12, <1>13
<1>15. pieces \in Seq(Seq(STRING))
    <2>1. \A i \in 1..(m + 1) : <<t[2 * i - 1]>> \in Seq(STRING)
        <3> TAKE i \in 1..(m + 1)
        <3>1. 2 * i - 1 \in 1..(2 * m + 1)
            OBVIOUS
        <3>2. t[2 * i - 1] \in STRING
            BY <1>8, <3>1
        <3> QED
            BY <3>2
    <2> QED
        BY <1>12, <1>13, <2>1
<1>16. PICK words : words = Words(line, from, to)
    OBVIOUS
<1>17. Len(words) = m + 1 /\ \A i \in 1..(m + 1) : words[i] = line[from + 2 * (i - 1)]
    <2>1. (to - from) \div 2 + 1 = m + 1
        BY <1>2
    <2> QED
        BY <1>16, <2>1 DEF Words
<1>18. \A i \in 1..(m + 1) : pieces[i] = <<words[i]>>
    <2> TAKE i \in 1..(m + 1)
    <2>1. 2 * i - 1 \in 1..(2 * m + 1) /\ from + (2 * i - 1) - 1 = from + 2 * (i - 1)
        OBVIOUS
    <2>2. t[2 * i - 1] = words[i]
        BY <1>9, <1>17, <2>1
    <2> QED
        BY <1>12, <1>13, <2>2
<1>19. ~stringIsNullOrWhitespace(line)
    BY <1>1, <1>5 DEF stringIsNullOrWhitespace
<1> QED
    BY <1>2, <1>13, <1>14, <1>15, <1>16, <1>17, <1>18, <1>19

LEMMA RanIs ==
    ASSUME NEW name, NEW S, NEW args \in Seq(S)
    PROVE  Head(<<name>> \o args) = name /\ Tail(<<name>> \o args) = args
<1> DEFINE T == S \cup {name}
<1>1. args \in Seq(T) /\ <<name>> \in Seq(T)
    OBVIOUS
<1>2. PICK n \in Nat : n = Len(args)
    BY LenProperties
<1>3. PICK w : w = <<name>> \o args
    OBVIOUS
<1>4. w \in Seq(T) /\ Len(w) = n + 1
    BY <1>1, <1>2, <1>3
<1>5. w[1] = name
    BY <1>1, <1>2, <1>3
<1>6. \A i \in 1..n : w[i + 1] = args[i]
    BY <1>1, <1>2, <1>3
<1>7. w # <<>>
    BY <1>2, <1>4
<1> HIDE DEF T
<1>8. Head(w) = name
    BY <1>4, <1>5, <1>7
<1>9. PICK v : v = Tail(w)
    OBVIOUS
<1>10. v \in Seq(T) /\ Len(v) = n /\ \A i \in 1..n : v[i] = w[i + 1]
    BY <1>2, <1>4, <1>7, <1>9
<1>11. v = args
    <2>1. \A i \in 1..n : v[i] = args[i]
        BY <1>6, <1>10
    <2> QED
        BY <1>1, <1>2, <1>10, <2>1, SeqEqual
<1> QED
    BY <1>3, <1>8, <1>9, <1>11

\* A line that is not blank runs its first piece with the others.
LEMMA LineRuns ==
    ASSUME NEW line \in Seq(STRING), ttyCmdProcessLine(line)
    PROVE  RunsWhatWasTyped'
<1>1. CASE line = <<>>
    <2>1. last' = Nothing
        BY <1>1 DEF ttyCmdProcessLine, BlankLine, stringIsNullOrWhitespace
    <2>2. DOMAIN last'.line = {}
        BY <2>1 DEF Nothing
    <2> QED
        BY <2>2 DEF RunsWhatWasTyped
<1>2. CASE line # <<>> /\ BlankLine(line)
    <2>1. last'.line = line /\ stringIsNullOrWhitespace(line)
        <3>1. PICK outcome : Ends(line, "", <<>>, outcome)
            BY <1>2, Zenon DEF BlankLine
        <3> QED
            BY <1>2, <3>1, Zenon DEF BlankLine, Ends
    <2>2. ASSUME NEW from \in DOMAIN line, NEW to \in DOMAIN line, from <= to, Orderly(line, from, to)
          PROVE  FALSE
        <3>1. to \in from..Len(line) /\ from \in 1..Len(line)
            BY <2>2
        <3> QED
            BY <2>1, <2>2, <3>1, PiecesAreWords
    <2> QED
        BY <2>1, <2>2 DEF RunsWhatWasTyped
<1>3. CASE line # <<>> /\ ~stringIsNullOrWhitespace(line)
    <2>1. PICK pieces : pieces = Pieces(line)
        OBVIOUS
    <2>2. Process(line, Name(Head(pieces)), Tail(pieces))
        BY <1>3, <2>1 DEF ttyCmdProcessLine, BlankLine
    <2>3. last'.line = line /\ last'.ran = <<Name(Head(pieces))>> \o Tail(pieces)
        <3>1. PICK outcome : Ends(line, Name(Head(pieces)), Tail(pieces), outcome)
            BY <2>2, Zenon DEF Process
        <3> QED
            BY <3>1, Zenon DEF Ends
    <2>4. ASSUME NEW from \in DOMAIN line, NEW to \in DOMAIN line, from <= to, Orderly(line, from, to)
          PROVE  LET words == Words(line, from, to)
                     args  == Tail(last'.ran)
                 IN  /\ Head(last'.ran) = LowerCase(Head(words))
                     /\ Len(args) = Len(words) - 1
                     /\ \A i \in DOMAIN args : args[i] = <<words[i + 1]>>
        <3>1. to \in from..Len(line) /\ from \in 1..Len(line)
            BY <2>4
        <3>2. PICK words : words = Words(line, from, to)
            OBVIOUS
        <3>3. PICK m \in Nat : Len(words) = m + 1 /\ Len(pieces) = m + 1
            BY <2>1, <2>4, <3>1, <3>2, PiecesAreWords
        <3>4. pieces \in Seq(Seq(STRING)) /\ \A i \in 1..(m + 1) : pieces[i] = <<words[i]>>
            BY <2>1, <2>4, <3>1, <3>2, <3>3, PiecesAreWords
        <3>5. PICK args : args = Tail(pieces)
            OBVIOUS
        <3> DEFINE T == Seq(STRING)
        <3>6. pieces \in Seq(T) /\ pieces # <<>>
            BY <3>3, <3>4
        <3> HIDE DEF T
        <3>7. args \in Seq(T) /\ Len(args) = m /\ \A i \in 1..m : args[i] = pieces[i + 1]
            BY <3>3, <3>5, <3>6
        <3>8. Head(last'.ran) = Name(Head(pieces)) /\ Tail(last'.ran) = args
            BY <2>3, <3>5, <3>7, RanIs
        <3>9. Head(pieces) = <<words[1]>>
            <4>1. 1 \in 1..(m + 1) /\ Head(pieces) = pieces[1]
                BY <3>3, <3>6
            <4> QED
                BY <3>4, <4>1
        <3>10. Name(Head(pieces)) = LowerCase(words[1])
            <4>1. PICK w : w = words[1]
                OBVIOUS
            <4>2. <<w>> # <<>> /\ Head(<<w>>) = w
                OBVIOUS
            <4> QED
                BY <3>9, <4>1, <4>2 DEF Name
        <3>11. Head(words) = words[1]
            BY <3>2, <3>3 DEF Words
        <3>12. \A i \in DOMAIN args : args[i] = <<words[i + 1]>>
            <4> TAKE i \in DOMAIN args
            <4>1. i \in 1..m /\ i + 1 \in 1..(m + 1)
                BY <3>7
            <4> QED
                BY <3>4, <3>7, <4>1
        <3>13. Len(args) = Len(words) - 1
            BY <3>3, <3>7
        <3> QED
            BY <3>2, <3>8, <3>10, <3>11, <3>12, <3>13, Zenon
    <2> QED
        BY <2>3, <2>4 DEF RunsWhatWasTyped
<1> QED
    BY <1>1, <1>2, <1>3 DEF ttyCmdProcessLine

ConsoleInv == session \in Sessions /\ RunsWhatWasTyped

LEMMA NothingWasTyped == last.line = <<>> => RunsWhatWasTyped
<1>1. DOMAIN <<>> = {}
    OBVIOUS
<1> QED
    BY <1>1 DEF RunsWhatWasTyped

\* However lines and scripts alternate, an orderly line runs the command that was
\* typed, with the arguments that were typed. (ttyCmdProcessLine)
THEOREM RunsWhatWasTypedCorrect == ConsoleSpec => []RunsWhatWasTyped
<1>1. ConsoleInit => ConsoleInv
    BY NothingWasTyped DEF ConsoleInit, ConsoleInv, Nothing
<1>2. ConsoleInv /\ [ConsoleNext]_consoleVars => ConsoleInv'
    <2> SUFFICES ASSUME ConsoleInv, [ConsoleNext]_consoleVars PROVE ConsoleInv'
        OBVIOUS
    <2>1. session' = session
        BY DEF ConsoleNext, mainUpdateHook, ScriptRuns, consoleVars
    <2>2. CASE mainUpdateHook
        <3>1. PICK line \in session.lines : ttyCmdProcessLine(line)
            BY <2>2 DEF mainUpdateHook
        <3>2. line \in Seq(STRING)
            BY ConsoleAssumption DEF ConsoleInv
        <3> QED
            BY <2>1, <3>1, <3>2, LineRuns DEF ConsoleInv
    <2>3. CASE ScriptRuns
        <3>1. DOMAIN last'.line = {}
            BY <2>3 DEF ScriptRuns, Nothing
        <3> QED
            BY <2>1, <3>1 DEF ConsoleInv, RunsWhatWasTyped
    <2>4. CASE UNCHANGED consoleVars
        BY <2>4 DEF ConsoleInv, RunsWhatWasTyped, consoleVars
    <2> QED
        BY <2>2, <2>3, <2>4 DEF ConsoleNext
<1>3. ConsoleInv => RunsWhatWasTyped
    BY DEF ConsoleInv
<1> QED
    BY <1>1, <1>2, <1>3, PTL DEF ConsoleSpec

\* A complaint is about a line that has written no slot, no flag and no count.
THEOREM ComplaintsChangeNothingCorrect == ConsoleSpec => ComplaintsChangeNothing
<1>1. [ConsoleNext]_consoleVars =>
        [last'.outcome \in {"invalid", "missing", "unrecognised"} => UNCHANGED <<slots, vars>>]_consoleVars
    <2> SUFFICES ASSUME ConsoleNext, last'.outcome \in {"invalid", "missing", "unrecognised"}
                 PROVE  UNCHANGED <<slots, vars>>
        OBVIOUS
    <2>0. last'.outcome # "crashed" /\ last'.outcome # "done"
        OBVIOUS
    <2>1. ASSUME NEW line, ttyCmdProcessLine(line) PROVE UNCHANGED <<slots, vars>>
        <3>1. CASE line = <<>> /\ State /\ Script /\ last' = Nothing
            BY <3>1 DEF State, Script
        <3>2. CASE BlankLine(line)
            <4>1. CASE Ends(line, "", <<>>, "crashed")
                BY <2>0, <4>1 DEF Ends
            <4>2. CASE State
                BY <3>2, <4>2 DEF BlankLine, State, Script
            <4> QED
                BY <3>2, <4>1, <4>2 DEF BlankLine
        <3>3. ASSUME NEW name, NEW args, Process(line, name, args) PROVE UNCHANGED <<slots, vars>>
            BY <3>3 DEF Process, Refuse, Ends, State, Script
        <3> QED
            BY <2>1, <3>1, <3>2, <3>3 DEF ttyCmdProcessLine
    <2>2. ~ScriptRuns
        BY DEF ScriptRuns, Nothing
    <2> QED
        BY <2>1, <2>2 DEF ConsoleNext, mainUpdateHook
<1> QED
    BY <1>1, PTL DEF ConsoleSpec, ComplaintsChangeNothing

\* What is typed is done, and what is not understood is not done in part: the two
\* parts of LinesRunAsTyped together, for every session.
THEOREM LinesRunAsTypedCorrect == ConsoleSpec => LinesRunAsTyped
BY RunsWhatWasTypedCorrect, ComplaintsChangeNothingCorrect DEF LinesRunAsTyped

-----------------------------------------------------------------------------
(* What is typed reads as it was written, and the party's slots are written by *)
(* the commands of Party alone.                                                *)

\* A write behind GlobalCounts or NewBits.
Overruns == overrun' = TRUE /\ UNCHANGED <<flagVars, countVars>>

LEMMA OverrunKeeps == ReadsAsWritten /\ Overruns => ReadsAsWritten'
<1> SUFFICES ASSUME ReadsAsWritten, Overruns PROVE ReadsAsWritten'
    OBVIOUS
<1>1. /\ gameBits' = gameBits /\ extraBits' = extraBits /\ said' = said
      /\ gameCounts' = gameCounts /\ globalCounts' = globalCounts /\ saidCounts' = saidCounts
      /\ overrun' = TRUE
    BY DEF Overruns, flagVars, countVars
<1>2. TypeOK'
    BY <1>1 DEF ReadsAsWritten, TypeOK
<1>3. FlagsAsSaid'
    BY <1>1, Zenon DEF ReadsAsWritten, FlagsAsSaid, GetBitFlagState
<1>4. CountsAsSaid'
    BY <1>1, Zenon DEF ReadsAsWritten, CountsAsSaid, GetCount
<1> QED
    BY <1>2, <1>3, <1>4 DEF ReadsAsWritten

\* What scripts do is as it was.
LEMMA UseKeeps == ReadsAsWritten /\ [Next]_vars => ReadsAsWritten'
BY TypesStep, FlagsStep, CountsStep DEF ReadsAsWritten

\* A bit of NewBits written by its position.
BitWritten(n, on) ==
    /\ extraBits' = With(extraBits, Place(BIT_MAX + n), on)
    /\ said' = [f \in FlagArgs |-> IF Bit(f) = BIT_MAX + n THEN on ELSE said[f]]
    /\ UNCHANGED <<gameBits, countVars, overrun>>

LEMMA BitKeeps ==
    ASSUME ReadsAsWritten, NEW n \in 0..(LastBit - BIT_MAX), NEW on \in BOOLEAN, BitWritten(n, on)
    PROVE  ReadsAsWritten'
<1>1. PICK b \in BIT_MAX..LastBit : b = BIT_MAX + n
    BY DEF LastBit, BIT_MAX
<1>2. /\ extraBits' = With(extraBits, Place(b), on) /\ gameBits' = gameBits
      /\ said' = [f \in FlagArgs |-> IF Bit(f) = b THEN on ELSE said[f]]
    BY <1>1, Zenon DEF BitWritten
<1>3. gameCounts' = gameCounts /\ globalCounts' = globalCounts /\ saidCounts' = saidCounts
    BY DEF BitWritten, countVars
<1>4. TypeOK
    BY DEF ReadsAsWritten
<1>5. TypeOK'
    <2>1. Place(b) \in ExtraByte \X (0..7)
        BY PlaceInStruct
    <2>2. extraBits' \subseteq ExtraByte \X (0..7)
        BY <1>2, <1>4, <2>1, Zenon DEF With, TypeOK
    <2>3. said' \in [FlagArgs -> BOOLEAN]
        <3>1. \A f \in FlagArgs : (IF Bit(f) = b THEN on ELSE said[f]) \in BOOLEAN
            BY <1>4, Zenon DEF TypeOK
        <3> QED
            BY <1>2, <3>1, Zenon
    <2> QED
        BY <1>2, <1>3, <1>4, <2>2, <2>3 DEF BitWritten, TypeOK
<1>6. FlagsAsSaid'
    <2> SUFFICES ASSUME \A g \in FlagArgs : Own(g) \/ OutOfBounds(g), NEW g \in FlagArgs, Own(g)
                 PROVE  GetBitFlagState(g)' <=> said'[g]
        BY DEF FlagsAsSaid
    <2>1. GetBitFlagState(g) <=> said[g]
        BY DEF ReadsAsWritten, FlagsAsSaid
    <2>2. PICK c \in 0..LastBit : c = Bit(g)
        BY BitInRange, ScriptAssumption
    <2>3. said'[g] = IF c = b THEN on ELSE said[g]
        BY <1>2, <2>2, Zenon
    <2>4. /\ c >= BIT_MAX => /\ GetBitFlagState(g) <=> Place(c) \in extraBits
                             /\ GetBitFlagState(g)' <=> Place(c) \in extraBits'
          /\ ~(c >= BIT_MAX) => /\ GetBitFlagState(g) <=> c \in gameBits
                                /\ GetBitFlagState(g)' <=> c \in gameBits'
        BY <2>2, Zenon DEF GetBitFlagState
    <2>5. c = b => c >= BIT_MAX
        <3>1. BIT_MAX \in Int /\ LastBit \in Int /\ b >= BIT_MAX
            BY DEF BIT_MAX, LastBit
        <3> QED
            BY <3>1
    <2>6. c # b /\ c >= BIT_MAX => Place(c) # Place(b)
        <3> SUFFICES ASSUME c # b, c >= BIT_MAX PROVE Place(c) # Place(b)
            OBVIOUS
        <3>1. c \in BIT_MAX..LastBit
            BY BitsBeyond
        <3> QED
            BY <3>1, PlacesDiffer
    <2>7. CASE c = b
        BY <1>2, <2>3, <2>4, <2>5, <2>7, Zenon DEF With
    <2>8. CASE c # b /\ c >= BIT_MAX
        BY <1>2, <2>1, <2>3, <2>4, <2>6, <2>8, Zenon DEF With
    <2>9. CASE c # b /\ ~(c >= BIT_MAX)
        BY <1>2, <2>1, <2>3, <2>4, <2>9, Zenon
    <2> QED
        BY <2>7, <2>8, <2>9
<1>7. CountsAsSaid'
    BY <1>3, Zenon DEF ReadsAsWritten, CountsAsSaid, GetCount
<1> QED
    BY <1>5, <1>6, <1>7 DEF ReadsAsWritten

\* A handler writes as a script does, or a bit of NewBits, or behind an array.
LEMMA HandlerKeeps ==
    ASSUME ReadsAsWritten, ~overrun, NEW name, NEW args, Listed(name, args), Handler(name, args)
    PROVE  ReadsAsWritten'
<1>1. ASSUME Use PROVE ReadsAsWritten'
    BY <1>1, UseKeeps DEF Next
<1>2. ASSUME State PROVE ReadsAsWritten'
    BY <1>2, UseKeeps DEF State
<1>3. CASE name = "setcount" /\ ttySetCountCmd(Value(args[1]), Value(args[2]))
    <2>1. Value(args[1]) \in CountArgs /\ Value(args[2]) \in Values
        BY <1>3 DEF Listed
    <2> QED
        BY <1>1, <1>3, <2>1, Zenon DEF ttySetCountCmd, Use
<1>4. ASSUME NEW on \in BOOLEAN, name \in {"biton", "bitoff"}, ttyBITCmd(Value(args[1]), on)
      PROVE  ReadsAsWritten'
    <2>1. FlagNumber(Value(args[1])) \in FlagArgs
        BY <1>4 DEF Listed
    <2> QED
        BY <1>1, <1>4, <2>1, Zenon DEF ttyBITCmd, Use
<1>5. ASSUME NEW n, NEW on \in BOOLEAN, ttySetBITTEST(n, on) PROVE ReadsAsWritten'
    <2>1. CASE n \in 0..(LastBit - BIT_MAX) /\ BitWritten(n, on)
        BY <2>1, BitKeeps
    <2>2. CASE Overruns
        BY <2>2, OverrunKeeps
    <2> QED
        BY <1>5, <2>1, <2>2 DEF ttySetBITTEST, BitWritten, Overruns, flagVars
<1> QED
    BY <1>2, <1>3, <1>4, <1>5 DEF Handler

LEMMA LineKeeps ==
    ASSUME ReadsAsWritten, ~overrun, NEW line, AllListed(line), ttyCmdProcessLine(line)
    PROVE  ReadsAsWritten'
<1>1. ASSUME State PROVE ReadsAsWritten'
    BY <1>1, UseKeeps DEF State
<1>2. CASE BlankLine(line)
    <2>1. CASE Overruns
        BY <2>1, OverrunKeeps
    <2> QED
        BY <1>1, <1>2, <2>1 DEF BlankLine, Overruns
<1>3. CASE ~stringIsNullOrWhitespace(line)
    <2>1. PICK name, args : name = Name(Head(Pieces(line))) /\ args = Tail(Pieces(line))
        OBVIOUS
    <2>2. CASE Process(line, name, args)
        <3>1. CASE Status(name, args) = "run" /\ ~Invalid(name, args) /\ Handler(name, args)
            <4>1. Listed(name, args)
                BY <1>3, <2>1, <3>1, Zenon DEF AllListed
            <4> QED
                BY <3>1, <4>1, HandlerKeeps
        <3> QED
            BY <1>1, <2>2, <3>1 DEF Process, Refuse
    <2> QED
        BY <1>1, <1>2, <1>3, <2>1, <2>2, Zenon DEF ttyCmdProcessLine
<1> QED
    BY <1>1, <1>2, <1>3, Zenon DEF ttyCmdProcessLine

\* What the console and the scripts write by turns, both read: a flag with a bit to
\* itself and a count below 512 keep what they were last given, by a script, by
\* biton, bitoff, setcount or testsetbit, and every write goes where there is room
\* for it or is the last of which anything is said. (ttySetCountCmd, ttyBITONCmd,
\* ttyBITOFFCmd, ttySetBITTEST)
THEOREM TypedReadsAsWritten == ConsoleSpec => []ReadsAsWritten
<1> DEFINE Inv == session \in Sessions /\ ReadsAsWritten
<1>1. ConsoleInit => Inv
    BY TypesStart, FlagsStart, CountsStart DEF ConsoleInit, ReadsAsWritten
<1>2. Inv /\ [ConsoleNext]_consoleVars => Inv'
    <2> SUFFICES ASSUME Inv, [ConsoleNext]_consoleVars PROVE Inv'
        OBVIOUS
    <2>1. session' = session
        BY DEF ConsoleNext, mainUpdateHook, ScriptRuns, consoleVars
    <2>2. CASE mainUpdateHook
        <3>1. PICK line \in session.lines : ~overrun /\ ttyCmdProcessLine(line)
            BY <2>2 DEF mainUpdateHook
        <3>2. AllListed(line)
            BY ConsoleAssumption
        <3> QED
            BY <2>1, <3>1, <3>2, LineKeeps
    <2>3. CASE ScriptRuns
        BY <2>1, <2>3, UseKeeps DEF ScriptRuns, Next
    <2>4. CASE UNCHANGED consoleVars
        <3>1. UNCHANGED vars
            BY <2>4 DEF consoleVars
        <3> QED
            BY <2>1, <3>1, UseKeeps
    <2> QED
        BY <2>2, <2>3, <2>4 DEF ConsoleNext
<1>3. Inv => ReadsAsWritten
    OBVIOUS
<1> QED
    BY <1>1, <1>2, <1>3, PTL DEF ConsoleSpec

LEMMA LineIsOfParty ==
    ASSUME NEW line, AllListed(line), ttyCmdProcessLine(line)
    PROVE  [PartyNext]_slots
<1>1. ASSUME NEW name, NEW args, Listed(name, args), Handler(name, args) PROVE [PartyNext]_slots
    <2>1. CASE name \in {"partyin", "partyout"}
        <3>1. Value(args[1]) \in Args
            BY <1>1, <2>1 DEF Listed
        <3>2. ttyPartyInCmd(Value(args[1])) \/ ttyPartyOutCmd(Value(args[1]))
            BY <1>1, <2>1 DEF Handler, Writing
        <3> QED
            BY <3>1, <3>2 DEF PartyNext
    <2>2. CASE name \notin {"partyin", "partyout"}
        BY <1>1, <2>2 DEF Handler, ttySetCountCmd, ttyBITCmd, ttySetBITTEST, Script
    <2> QED
        BY <2>1, <2>2
<1>2. CASE BlankLine(line) \/ Script
    BY <1>2 DEF BlankLine, Script
<1>3. CASE ~stringIsNullOrWhitespace(line)
    <2>1. PICK name, args : name = Name(Head(Pieces(line))) /\ args = Tail(Pieces(line))
        OBVIOUS
    <2>2. CASE Process(line, name, args)
        <3>1. CASE Status(name, args) = "run" /\ ~Invalid(name, args) /\ Handler(name, args)
            <4>1. Listed(name, args)
                BY <1>3, <2>1, <3>1, Zenon DEF AllListed
            <4> QED
                BY <1>1, <3>1, <4>1
        <3> QED
            BY <1>2, <2>2, <3>1 DEF Process, Refuse
    <2> QED
        BY <1>2, <1>3, <2>1, <2>2, Zenon DEF ttyCmdProcessLine
<1> QED
    BY <1>2, <1>3, Zenon DEF ttyCmdProcessLine

\* Whatever is typed, the party's slots are written by partyin and partyout alone:
\* the console implements Party, so that what is proved of the party under its
\* commands holds of the party under the console. (ttyPartyInCmd, ttyPartyOutCmd)
THEOREM ConsoleKeepsParty == ConsoleSpec => PartySpec
<1>1. ConsoleInit => PartyInit /\ session \in Sessions
    BY DEF ConsoleInit
<1>2. session \in Sessions /\ [ConsoleNext]_consoleVars => (session \in Sessions)' /\ [PartyNext]_slots
    <2> SUFFICES ASSUME session \in Sessions, [ConsoleNext]_consoleVars
                 PROVE  (session \in Sessions)' /\ [PartyNext]_slots
        OBVIOUS
    <2>1. session' = session
        BY DEF ConsoleNext, mainUpdateHook, ScriptRuns, consoleVars
    <2>2. CASE mainUpdateHook
        <3>1. PICK line \in session.lines : ttyCmdProcessLine(line)
            BY <2>2 DEF mainUpdateHook
        <3>2. AllListed(line)
            BY ConsoleAssumption
        <3> QED
            BY <2>1, <3>1, <3>2, LineIsOfParty
    <2>3. CASE ScriptRuns
        BY <2>1, <2>3 DEF ScriptRuns
    <2>4. CASE UNCHANGED consoleVars
        BY <2>1, <2>4 DEF consoleVars
    <2> QED
        BY <2>2, <2>3, <2>4 DEF ConsoleNext
<1> QED
    BY <1>1, <1>2, PTL DEF ConsoleSpec, PartySpec
===============================================================================
