-------------------------------- MODULE Tables --------------------------------
(***************************************************************************)
(* The enlarged data tables: UNIT.TBL and ELSAI.TBL (dc.c) and SKILL.TBL   *)
(* (scarltz.c) are copied segment by segment from the game's file into     *)
(* tables of the PRX, which the game's lookups then read.                  *)
(*                                                                         *)
(* A file is a sequence of segments, each a word with its length in bytes  *)
(* and the data, and each begins at a multiple of 16.  All of a segment is *)
(* copied to where its table begins, so one that is longer than its table  *)
(* goes over what follows.  A cell is a byte, and says where it has its    *)
(* contents from.                                                          *)
(***************************************************************************)
EXTENDS Integers, Sequences

CONSTANTS
    TableFiles,  \* the files: whose parser reads them, the lengths of the
                 \* segments, and the bytes (their offsets) that are 0
    Capacity,    \* bytes of the tables of each parser
    TableAt,     \* their addresses, which the linker chooses
    Top,         \* where memory ends
    Rows,        \* rows of NewVisualIndexTBL; 1000 in the code
    UnitIDs      \* IDs that are looked up

Parser == {"unit", "elsai", "skill"}

(* UNIT.TBL has five segments, the others two.  Tables are apart, and no segment is
   so long that its copy would leave memory, which ends the program. *)
ASSUME TablesAssumption ==
    /\ Top \in Nat
    /\ \A p \in Parser :
           /\ Capacity[p] \in Seq(Nat) /\ TableAt[p] \in Seq(Nat)
           /\ Len(Capacity[p]) = IF p = "unit" THEN 5 ELSE 2
           /\ Len(TableAt[p]) = Len(Capacity[p])
           /\ \A k \in DOMAIN TableAt[p] : TableAt[p][k] + Capacity[p][k] <= Top
           /\ \A j, k \in DOMAIN TableAt[p] :
                  j # k => \/ TableAt[p][j] + Capacity[p][j] <= TableAt[p][k]
                           \/ TableAt[p][k] + Capacity[p][k] <= TableAt[p][j]
    /\ \A f \in TableFiles :
           /\ f.parser \in Parser /\ f.lengths \in Seq(Nat)
           /\ Len(f.lengths) = Len(Capacity[f.parser])
           /\ \A k \in DOMAIN f.lengths : TableAt[f.parser][k] + f.lengths[k] <= Top
    /\ Capacity["unit"][5] = 4 * Rows /\ Rows \in Nat
    /\ UnitIDs \subseteq Int

VARIABLES
    tableFile,   \* one of TableFiles (rigid)
    memory,      \* the parser's tables and what lies around them
    segment,     \* the segment that is read next; 0 before the parsing
    filePos,     \* where in the file
    looked       \* the last lookup: unit, field and what it returned

tableVars == <<tableFile, memory, segment, filePos, looked>>

Cell(from, of) == [from |-> from, of |-> of]
Zero == Cell("zero", 0)
Other == Cell("other", 0)      \* what belongs to no table
Sizes == Capacity[tableFile.parser]
Places == TableAt[tableFile.parser]
Segments == DOMAIN Sizes
Address == 0..(Top - 1)
InTables(a) == \E k \in Segments : Places[k] <= a /\ a < Places[k] + Sizes[k]
NotYet == [unit |-> 0, field |-> "persona", id |-> <<Zero, Zero>>]

TablesInit ==
    /\ tableFile \in TableFiles
    /\ memory = [a \in Address |-> IF InTables(a) THEN Zero ELSE Other]
    /\ segment = 0 /\ filePos = 0 /\ looked = NotYet
------------------------------------------------------------------------------
(* The file, external: what a writer that aligns its segments has made.    *)
AlignUp(n) == CHOOSE m \in n..(n + 15) : m % 16 = 0
Begins[k \in 1..5] ==
    IF k = 1 THEN 0 ELSE AlignUp(Begins[k - 1] + 4 + tableFile.lengths[k - 1])
LengthAt(at) ==        \* the word read as a length, 0 where there is none
    IF \E k \in Segments : Begins[k] = at
    THEN tableFile.lengths[CHOOSE k \in Segments : Begins[k] = at] ELSE 0
InFile(at) == IF at \in tableFile.zeros THEN Zero ELSE Cell("file", at)
------------------------------------------------------------------------------
(* ParseUNITTBLHook, ParseELSAITBLHook, ParseSKILLTBLHook                  *)
Fill == [unit |-> Cell("fill", 105), elsai |-> Zero, skill |-> Cell("fill", 255)]

Parse ==         \* the memset calls
    /\ segment = 0
    /\ memory' = [a \in Address |-> IF InTables(a) THEN Fill[tableFile.parser] ELSE memory[a]]
    /\ segment' = 1 /\ filePos' = 0
    /\ UNCHANGED <<tableFile, looked>>

\* The way to it from the length word and the data.
Padding(length) ==
    LET n == length + 4
    IN  ((n \div 16) + (IF n % 16 # 0 THEN 1 ELSE 0)) * 16 - n

\* No length is compared with the size of a table.
ReadSegment ==
    /\ segment \in Segments
    /\ LET length == LengthAt(filePos)
           to     == Places[segment]
       IN  /\ memory' = [a \in Address |->
                             IF to <= a /\ a < to + length THEN InFile(filePos + 4 + a - to)
                             ELSE memory[a]]
           /\ filePos' = filePos + 4 + length + Padding(length)
    /\ segment' = segment + 1
    /\ UNCHANGED <<tableFile, looked>>

\* The loops that turn the bytes of every field around run if a count of the
\* leading zeros of 0 is not 32; here they would show in any field.
ClzOfZero == 32
SwapsBytes == (ClzOfZero \div 32) % 2 = 0

SwapBytes ==
    /\ segment = Len(Sizes) + 1
    /\ memory' = IF SwapsBytes
                 THEN [a \in Address |-> IF InTables(a) THEN Cell("swapped", memory[a].of)
                                                        ELSE memory[a]]
                 ELSE memory
    /\ segment' = segment + 1
    /\ UNCHANGED <<tableFile, filePos, looked>>
------------------------------------------------------------------------------
(* The lookups of NewVisualIndexTBL, which may come before the file does.  *)

\* two lookups of the same field
FieldAlike(unit, field) == 4 * unit

\* personaID or modelID of a row
FieldAt(unit, field) == IF field = "persona" THEN 4 * unit ELSE 4 * unit + 2

IDBytes(unit) == <<Cell("own", 2 * unit), Cell("own", 2 * unit + 1)>>    \* the ID's two bytes

VisualSegment(unit, field) ==
    /\ tableFile.parser = "unit" /\ segment \in {0, Len(Sizes) + 2}
    /\ LET at     == Places[5] + FieldAt(unit, field)
           result == <<memory[at], memory[at + 1]>>
       IN  \/ /\ unit >= Rows \/ unit <= 0
              /\ looked' = [unit |-> unit, field |-> field, id |-> <<Zero, Zero>>]
              /\ UNCHANGED memory
           \/ /\ unit \in 1..(Rows - 1) /\ result = <<Zero, Zero>>
              /\ memory' = [memory EXCEPT ![at] = IDBytes(unit)[1], ![at + 1] = IDBytes(unit)[2]]
              /\ looked' = [unit |-> unit, field |-> field, id |-> IDBytes(unit)]
           \/ /\ unit \in 1..(Rows - 1) /\ result # <<Zero, Zero>>
              /\ looked' = [unit |-> unit, field |-> field, id |-> result]
              /\ UNCHANGED memory
    /\ UNCHANGED <<tableFile, segment, filePos>>

TablesNext ==
    \/ Parse \/ ReadSegment \/ SwapBytes
    \/ \E u \in UnitIDs, f \in {"persona", "model"} : VisualSegment(u, f)
TablesSpec == TablesInit /\ [][TablesNext]_tableVars
------------------------------------------------------------------------------
TablesTypeOK ==
    /\ segment \in 0..(Len(Sizes) + 2) /\ filePos \in Nat /\ filePos % 16 = 0
    /\ DOMAIN memory = Address /\ looked.unit \in UnitIDs \cup {0}

(* What the file, the fill and the places of the tables say of a byte of memory
   once the segments before s have been read: the last of those that reach it has
   it, although it may be in the table of another. *)
Reach(s, a) ==
    {k \in Segments : k < s /\ Places[k] <= a /\ a < Places[k] + tableFile.lengths[k]}
Last(s, a) == CHOOSE k \in Reach(s, a) : \A j \in Reach(s, a) : j <= k
Written(s, a) ==
    IF Reach(s, a) # {} THEN InFile(Begins[Last(s, a)] + 4 + a - Places[Last(s, a)])
    ELSE IF InTables(a) THEN Fill[tableFile.parser] ELSE Other

Fields == IF tableFile.parser = "unit" THEN (1..(Rows - 1)) \X {0, 2} ELSE {}
AtField(f) == Places[5] + 4 * f[1] + f[2]
WrittenAt(s, f) == <<Written(s, AtField(f)), Written(s, AtField(f) + 1)>>

(* After any number of segments each byte of memory, of the tables and around them,
   is the one that the file says, whatever the lengths of the segments: none is
   looked for at a wrong place, and one that is longer than its table has gone over
   exactly what follows.  A lookup may since have put the unit's own ID where a
   field is 0, in both of its bytes. *)
MemoryAsCopied ==
    segment > 0 =>
        /\ \A a \in Address : \/ memory[a] = Written(segment, a)
                              \/ \E f \in Fields : a \in {AtField(f), AtField(f) + 1}
        /\ \A f \in Fields :
               LET is == <<memory[AtField(f)], memory[AtField(f) + 1]>>
               IN  \/ is = WrittenAt(segment, f)
                   \/ WrittenAt(segment, f) = <<Zero, Zero>> /\ is = IDBytes(f[1])

(* If every segment fits, each table is its own segment and the fill, but for the
   fields that a lookup has set, and nothing else has changed. *)
TablesHoldTheFile ==
    segment = Len(Sizes) + 2 /\ (\A k \in Segments : tableFile.lengths[k] <= Sizes[k]) =>
        /\ \A k \in Segments : \A i \in 0..(Sizes[k] - 1) :
               LET own  == IF i < tableFile.lengths[k] THEN InFile(Begins[k] + 4 + i)
                                                       ELSE Fill[tableFile.parser]
                   byte == memory[Places[k] + i]
               IN  \/ byte = own
                   \/ k = 5 /\ own = Zero /\ byte.from = "own"
        /\ \A a \in Address : ~InTables(a) => memory[a] = Other

(* A lookup after the parsing answers what the file says of that unit and that
   field, as far as it is not gone over, and the unit's own ID where it says 0, in
   whatever order units and fields were looked up before, the time before the
   parsing included. *)
LookupsAsWritten ==
    [][segment = Len(Sizes) + 2 /\ looked' # looked /\ looked'.unit \in 1..(Rows - 1) =>
          LET w == WrittenAt(segment, <<looked'.unit, IF looked'.field = "persona" THEN 0 ELSE 2>>)
          IN  looked'.id = (IF w = <<Zero, Zero>> THEN IDBytes(looked'.unit) ELSE w)]_tableVars

(* The tables in memory, and every answer from them, are the file's. *)
TablesAsFiled == [](TablesTypeOK /\ MemoryAsCopied /\ TablesHoldTheFile) /\ LookupsAsWritten
==============================================================================
