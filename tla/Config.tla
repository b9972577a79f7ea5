------------------------------- MODULE Config -------------------------------
(***************************************************************************)
(* configLoad of prx/lib/config.c: the settings compiled into the PRX are  *)
(* overwritten by the lines of config.yml, in the order of the file, and   *)
(* the text of string settings is kept in a static buffer that only grows. *)
(*                                                                         *)
(* A line is what its bytes mean to the loop: the setting its key is the   *)
(* long name of, whether the value is in brackets, the comma-separated     *)
(* elements (one, for a value without brackets) and how it ends. `elem` is   *)
(* the element the array loop has come to.                                 *)
(***************************************************************************)
EXTENDS Integers, Sequences

CONSTANTS Type,      \* Type[s]: the ConfigValueType of setting s of config.inc
          Class,     \* Class[s]: its ConfigValueClass
          Texts,     \* what an element may be, the words for a toggle among it
          Files,     \* the contents of config.yml considered
          HeapSize   \* sizeof( configStringBuffer )

Setting == DOMAIN Type
Unknown == 0          \* a key that no setting has
Blank == -1           \* no key: an empty or commented line

\* `form`: the text is proper, or nothing, or only whitespace, or a lone quote.
Element == [id : Texts, len : Nat, form : {"text", "empty", "blank", "quote"}]
Line == [key : Setting \cup {Unknown, Blank}, class : {"ATOMIC", "ARRAY"},
         elems : Seq(Element), eol : {"lf", "none", "cr"}]

ASSUME ConfigAssumption ==
  /\ Setting \subseteq Nat \ {Unknown}
  /\ Files \subseteq Seq(Line)
  /\ \A f \in Files : \A i \in 1..Len(f) :
       f[i].class = "ATOMIC" => Len(f[i].elems) <= 1
  /\ {"true", "false", "default", "garbled"} \subseteq Texts /\ "nul" \notin Texts
  /\ Type \in [Setting -> {"BOOL", "INT", "STRING"}]
  /\ Class \in [Setting -> {"ATOMIC", "ARRAY"}]
  /\ HeapSize \in Nat

Nul == "nul"
BuiltIn == -1         \* the address of a literal of config.inc
None == "default"

VARIABLES
  file,      \* the lines of config.yml; never changes
  pos,       \* the line fileReadLine comes to next
  line,      \* the line being parsed
  elem,      \* its next element
  value,     \* value[s]: the cells of setting s written so far
  count,     \* count[s]: its valueCount
  heap,      \* configStringBuffer
  top,       \* configStringBufferIndex
  pc

vars == <<file, pos, line, elem, value, count, heap, top, pc>>
settings == <<value, count, heap, top>>

DefaultCell(s) == IF Type[s] = "STRING" THEN BuiltIn ELSE None

Init == /\ file \in Files
        /\ pos = 1 /\ elem = 1 /\ pc = "lines"
        /\ line = [key |-> Blank, class |-> "ATOMIC", elems |-> << >>, eol |-> "lf"]
        /\ value = [s \in Setting |-> <<DefaultCell(s)>>]
        /\ count = [s \in Setting |-> 1]
        /\ heap = [i \in 0..(HeapSize - 1) |-> Nul]
        /\ top = 0

-----------------------------------------------------------------------------
(* configParseYamlValue                                                    *)

IsTrue(id) == id \in {"on", "yes", "true"}

\* a buffer index that forgets the terminator
BytesWithoutTerminator(e) == e.len

\* what a string takes of the buffer
BytesOf(e) == e.len + 1

\* The copied text, and the terminator, which goes one byte too far: the byte
\* behind the text has never been written, and is 0 for that reason.
HeapWith(e) == [i \in DOMAIN heap |->
                  IF i \in top..(top + e.len - 1) THEN e.id
                  ELSE IF i = top + e.len + 1 THEN Nul ELSE heap[i]]

SetCell(s, k, cell) ==
  value' = [value EXCEPT ![s] = IF k <= Len(@) THEN [@ EXCEPT ![k] = cell]
                                ELSE Append(@, cell)]

Parse(s, e, k) ==
  \/ /\ Type[s] = "BOOL"
     /\ SetCell(s, k, IF IsTrue(e.id) THEN "true" ELSE "false")
     /\ UNCHANGED <<heap, top>>
  \/ /\ Type[s] = "INT"
     /\ SetCell(s, k, e.id)
     /\ UNCHANGED <<heap, top>>
  \/ /\ Type[s] = "STRING"
     /\ SetCell(s, k, top)
     /\ heap' = HeapWith(e)
     /\ top' = top + BytesOf(e)

\* The assertion on the index does not stop the copy.
Overruns(s, e) == Type[s] = "STRING" /\ top + BytesOf(e) >= HeapSize

\* A lone quote is copied with length -1. Trimming a text of nothing but
\* blanks runs backwards from the byte before the buffer, whatever is there.
Crashes(s, e) == Type[s] = "STRING" /\ e.form = "quote"
MayCrash(e) == e.form = "blank"

\* a crash, or a write behind the buffer: nothing is said about what follows
Fail(how) == pc' = how /\ UNCHANGED <<settings, elem>>

-----------------------------------------------------------------------------
(* fileReadLine and the loop of configLoad                                 *)

AtEnd == pos > Len(file)

\* A last line without a line end is followed by the byte that was in the
\* buffer: an end of string or a blank does no harm, anything else belongs to
\* the last element, or stands behind the closing bracket.
Garbled(l) ==
  LET length == IF l.elems = << >> THEN 0 ELSE l.elems[1].len
  IN [l EXCEPT !.class = "ATOMIC",
               !.elems = <<[id |-> "garbled", len |-> length + 1, form |-> "text"]>>]

LineAsRead(l) == IF l.eol = "none" THEN {l, Garbled(l)} ELSE {l}

\* a return in the buffer at the end of the file is skipped again and again
Hangs(l) == l.eol = "cr"
MayHang(l) == l.eol = "none"

Skipped(l) == \/ l.key \in {Unknown, Blank}
              \/ l.class # Class[l.key]
              \/ l.class = "ATOMIC" /\ l.elems = << >>

FirstElement == 1

ReadLine ==
  /\ pc = "lines" /\ ~AtEnd
  /\ pos' = pos + 1
  /\ \E l \in LineAsRead(file[pos]) :
       /\ line' = l
       /\ elem' = FirstElement
       /\ pc' = IF Skipped(l) THEN "lines" ELSE "elements"
  /\ ~Hangs(file[pos])
  /\ UNCHANGED <<file, settings>>

\* the trim of a missing value
CrashOnMissingValue ==
  /\ pc = "lines" /\ ~AtEnd
  /\ file[pos].key # Blank /\ file[pos].class = "ATOMIC" /\ file[pos].elems = << >>
  /\ Fail("crashed")
  /\ UNCHANGED <<file, pos, line>>

Hang ==
  /\ pc = "lines" /\ ~AtEnd
  /\ Hangs(file[pos]) \/ MayHang(file[pos])
  /\ Fail("hung")
  /\ UNCHANGED <<file, pos, line>>

\* The array loop leaves at an empty element.
MoreElements == elem <= Len(line.elems) /\ line.elems[elem].form # "empty"

\* a loop that stays with its element
SameElement == elem

NextElement == elem + 1

ParseElement ==
  /\ pc = "elements" /\ MoreElements
  /\ LET s == line.key  e == line.elems[elem]
     IN \/ /\ ~Overruns(s, e) /\ ~Crashes(s, e)
           /\ Parse(s, e, elem)
           /\ elem' = NextElement
           /\ UNCHANGED <<count, pc>>
        \/ Overruns(s, e) /\ ~Crashes(s, e) /\ Fail("overrun")
        \/ (Crashes(s, e) \/ MayCrash(e)) /\ Fail("crashed")
  /\ UNCHANGED <<file, pos, line>>

NewCount(s) == IF Class[s] = "ARRAY" THEN elem - 1 ELSE count[s]

EndLine ==
  /\ pc = "elements" /\ ~MoreElements
  /\ count' = [count EXCEPT ![line.key] = NewCount(line.key)]
  /\ pc' = "lines"
  /\ UNCHANGED <<file, pos, line, elem, value, heap, top>>

Close ==
  /\ pc = "lines" /\ AtEnd
  /\ pc' = "done"
  /\ UNCHANGED <<file, pos, line, elem, settings>>

\* the end of configLoad, or of what is said about it
Over == pc \in {"done", "overrun", "crashed", "hung"} /\ UNCHANGED vars

Load == ReadLine \/ CrashOnMissingValue \/ Hang \/ ParseElement \/ EndLine \/ Close
Next == Load \/ Over

Spec == Init /\ [][Next]_vars

\* straight-line code of the thread that runs _start
FairSpec == Spec /\ WF_vars(Load)
-----------------------------------------------------------------------------
(* Properties                                                              *)

TypeOK ==
  /\ file \in Seq(Line)
  /\ pos \in 1..(Len(file) + 1)
  /\ line \in Line
  /\ elem \in Nat \ {0}
  /\ \A s \in Setting :
       value[s] \in Seq(IF Type[s] = "STRING" THEN Nat \cup {BuiltIn} ELSE Texts)
  /\ count \in [Setting -> Nat]
  /\ DOMAIN heap = 0..(HeapSize - 1)
  /\ top \in Nat
  /\ pc \in {"lines", "elements", "done", "overrun", "crashed", "hung"}

\* What CONFIG_STRING and its like give for cell k of setting s
TextAt(p) == LET n == CHOOSE n \in 0..(HeapSize - p) :
                        heap[p + n] = Nul /\ \A i \in p..(p + n - 1) : heap[i] # Nul
             IN [i \in 1..n |-> heap[p + i - 1]]
Cell(s, k) == IF Type[s] = "STRING"
              THEN IF value[s][k] = BuiltIn THEN <<None>> ELSE TextAt(value[s][k])
              ELSE value[s][k]
Shown(s) == [k \in 1..count[s] |-> Cell(s, k)]

\* What the author of config.yml means by element e of setting s
Meaning(s, e) == IF Type[s] = "STRING" THEN [i \in 1..e.len |-> e.id]
                 ELSE IF Type[s] = "BOOL" THEN IF IsTrue(e.id) THEN "true" ELSE "false"
                 ELSE e.id
MeaningOf(s, l) == [k \in 1..Len(l.elems) |-> Meaning(s, l.elems[k])]

\* The lines that give setting s a value of the kind it has
LinesFor(s) == {i \in 1..Len(file) : file[i].key = s /\ ~Skipped(file[i])}
LastLineFor(s) == CHOOSE i \in LinesFor(s) : \A j \in LinesFor(s) : j <= i

\* Every text is proper, and no value is missing.
ProperTexts == \A i \in 1..Len(file) :
                 /\ \A k \in 1..Len(file[i].elems) : file[i].elems[k].form = "text"
                 /\ file[i].key # Blank /\ file[i].class = "ATOMIC" => file[i].elems # << >>
EndsInNewline == \A i \in 1..Len(file) : file[i].eol = "lf"

\* The settings the modules see are those of the last line written for each,
\* whatever lines come before, between and after: the texts share one buffer,
\* and a list may be shorter than one that an earlier line or config.inc gave.
LoadedAsWritten ==
  pc = "done" /\ ProperTexts /\ EndsInNewline =>
    \A s \in Setting :
      Shown(s) = IF LinesFor(s) = {} THEN IF Type[s] = "STRING" THEN << <<None>> >> ELSE <<None>>
                 ELSE MeaningOf(s, file[LastLineFor(s)])

\* The same for a file that ends without a newline.
LoadedAsWrittenAnyEnding ==
  pc = "done" /\ ProperTexts =>
    \A s \in Setting :
      LinesFor(s) # {} => Shown(s) = MeaningOf(s, file[LastLineFor(s)])

\* A line disturbs no setting but its own, however malformed the file is, as
\* long as the buffer lasts: no text runs into another one.
OthersUndisturbed ==
  [][\A s \in Setting : line.key # s => Shown(s)' = Shown(s)]_vars

\* The loop leaves every proper file behind it (the texts may have left the
\* buffer first), so that _start goes on and with it the game.
LoadEnds == ProperTexts /\ EndsInNewline => <>(pc \in {"done", "overrun"})

\* Both together: settings are as written, and no line touches another's.
SettingsAsWritten == [](TypeOK /\ LoadedAsWritten) /\ OthersUndisturbed
=============================================================================
