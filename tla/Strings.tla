-------------------------------- MODULE Strings --------------------------------
(***************************************************************************)
(* The functions on strings of prx/lib/string.c and char.c that the PRX    *)
(* reads its configuration and its console with.  A string is the          *)
(* sequence of its characters up to the terminator; positions are counted  *)
(* from 0 as in the code, -1 is none.  Buffers are as large as they must   *)
(* be, and searches are for at least one character, since the result of a  *)
(* search for nothing is a variable that is never set.                     *)
(***************************************************************************)
EXTENDS Integers, Sequences

Upper == <<"A", "B", "C", "D", "E", "F", "X">>
Lower == <<"a", "b", "c", "d", "e", "f", "x">>
Digits == <<"0", "1", "2", "3", "4", "5", "6", "7", "8", "9">>
In(c, s) == \E i \in DOMAIN s : s[i] = c
IndexIn(c, s) == CHOOSE i \in DOMAIN s : s[i] = c

charIsWhitespace(c) == c \in {" ", "\n", "\r", "\t"}
charIsDigit(c) == In(c, Digits)
charIsHexDigit(c) == In(c, SubSeq(Upper, 1, 6)) \/ In(c, SubSeq(Lower, 1, 6))
charToLower(c) == IF In(c, Upper) THEN Lower[IndexIn(c, Upper)] ELSE c
charToUpper(c) == IF In(c, Lower) THEN Upper[IndexIn(c, Lower)] ELSE c
stringToLower(s) == [i \in DOMAIN s |-> charToLower(s[i])]
stringToUpper(s) == [i \in DOMAIN s |-> charToUpper(s[i])]
------------------------------------------------------------------------------
Same(c, d, ignoreCase) ==
    IF ignoreCase THEN charToLower(c) = charToLower(d) ELSE c = d

stringEqualsEx(s, s2, ignoreCase) ==
    Len(s) = Len(s2) /\ \A i \in DOMAIN s : Same(s[i], s2[i], ignoreCase)

MatchAt(s, s2, i, ignoreCase) ==
    \A j \in DOMAIN s2 : Same(s[i + j], s2[j], ignoreCase)

Matches(s, s2, ignoreCase) ==
    {i \in 0..(Len(s) - Len(s2)) : MatchAt(s, s2, i, ignoreCase)}

stringIndexOfEx(s, s2, ignoreCase) ==
    LET found == Matches(s, s2, ignoreCase)
    IN  IF found = {} THEN -1 ELSE CHOOSE i \in found : \A j \in found : i <= j

stringContainsEx(s, s2, ignoreCase) == stringIndexOfEx(s, s2, ignoreCase) # -1

\* If nothing is found the search goes on in front of the string, where two
\* characters or more may match: the results it can have.
stringLastIndexOfEx(s, s2, ignoreCase) ==
    LET found == Matches(s, s2, ignoreCase)
    IN  CASE Len(s2) > Len(s) -> {-1}
          [] found # {}       -> {CHOOSE i \in found : \A j \in found : j <= i}
          [] OTHER            -> (-Len(s2))..(-1)

stringStartsWith(s, s2) == stringIndexOfEx(s, s2, FALSE) = 0
stringEndsWith(s, s2) ==
    \E i \in stringLastIndexOfEx(s, s2, FALSE) : i # -1 /\ i = Len(s) - Len(s2)

\* The first of the characters that is found decides.
stringIndexOfAny(s, anyOf) ==
    LET hits == {k \in DOMAIN anyOf : stringIndexOfEx(s, <<anyOf[k]>>, FALSE) >= 0}
    IN  IF hits = {} THEN -1
        ELSE stringIndexOfEx(s, <<anyOf[CHOOSE k \in hits : \A j \in hits : k <= j]>>, FALSE)

stringIsNullOrWhitespace(s) == \A i \in DOMAIN s : charIsWhitespace(s[i])
------------------------------------------------------------------------------
stringSubstringEx(s, startIndex, length) ==
    SubSeq(s, startIndex + 1, startIndex + length)

Solid(s) == {i \in DOMAIN s : ~charIsWhitespace(s[i])}

\* how many characters at the beginning are whitespace, and how many are left
\* without those at the end
Blanks(s) == IF Solid(s) = {} THEN Len(s) ELSE (CHOOSE i \in Solid(s) : \A j \in Solid(s) : i <= j) - 1
Kept(s) == IF Solid(s) = {} THEN 0 ELSE CHOOSE i \in Solid(s) : \A j \in Solid(s) : j <= i

stringTrimLeft(s) == stringSubstringEx(s, Blanks(s), Len(s) - Blanks(s))
stringTrimRight(s) == stringSubstringEx(s, 0, Kept(s))

\* For a text that is not all whitespace: the loop of the second function would
\* not stop at the beginning of an empty string.
stringTrim(s) == stringTrimRight(stringTrimLeft(s))

\* separators that follow each other are one
SplitOnce(s, separator) ==
    LET pieces[i \in 0..Len(s)] ==
            IF i = 0 THEN <<<<>>>>
            ELSE LET before == pieces[i - 1]
                 IN  IF i < Len(s) /\ s[i] = separator
                     THEN IF before[Len(before)] = <<>> THEN before ELSE Append(before, <<>>)
                     ELSE [before EXCEPT ![Len(before)] = Append(@, s[i])]
    IN  pieces[Len(s)]

(* stringSplit with a separator of one character: the pieces of the text up to
   a place.  A separator at the end is not looked at, and stays in the last one. *)
stringSplit(s, separator) ==
    LET pieces[i \in 0..Len(s)] ==
            IF i = 0 THEN <<<<>>>>
            ELSE LET before == pieces[i - 1]
                 IN  IF i < Len(s) /\ s[i] = separator THEN Append(before, <<>>)
                     ELSE [before EXCEPT ![Len(before)] = Append(@, s[i])]
    IN  pieces[Len(s)]

stringJoinArray(separator, pieces) ==
    LET joined[i \in 1..Len(pieces)] ==
            IF i = 1 THEN pieces[1] ELSE joined[i - 1] \o <<separator>> \o pieces[i]
    IN  joined[Len(pieces)]

stringJoinArgs(separator, pieces) ==
    IF pieces = <<>> THEN <<>> ELSE stringJoinArray(separator, pieces)

\* What is inserted takes the place of all that follows.
stringInsert(s, startIndex, s2) == SubSeq(s, 1, startIndex) \o s2

(* stringReplaceEx from a position on.  What is found is counted from that
   position, and used as if from the beginning of the text: the number of
   characters to copy wraps around if it is less, and the copy does not end well.
   What follows the last occurrence is not copied. *)
Failed == <<"out of memory">>
Behind(s, i) == SubSeq(s, i + 1, Len(s))
stringReplaceEx(s, oldValue, newValue, ignoreCase) ==
    LET from[sourceIndex \in 0..Len(s)] ==
            LET oldValueIdx == stringIndexOfEx(Behind(s, sourceIndex), oldValue, ignoreCase)
                rest == from[oldValueIdx + Len(oldValue)]
            IN  CASE oldValueIdx = -1          -> <<>>
                  [] oldValueIdx \in 0..(sourceIndex - 1) -> Failed
                  [] OTHER ->
                       IF rest = Failed THEN Failed
                       ELSE SubSeq(s, sourceIndex + 1, oldValueIdx) \o newValue \o rest
    IN  from[0]
================================================================================
