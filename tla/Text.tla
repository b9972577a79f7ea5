--------------------------------- MODULE Text ---------------------------------
(***************************************************************************)
(* Every text up to a length, and what the functions of Strings make of it.*)
(***************************************************************************)
EXTENDS Numerals

CONSTANTS
    Characters,   \* what texts are made of
    Patterns,     \* what is searched for
    MaxLength     \* the longest text

ASSUME TextAssumption ==
    /\ Characters \subseteq STRING /\ MaxLength \in Nat
    /\ \A p \in Patterns : p \in Seq(Characters) /\ p # <<>>

VARIABLE text

TextInit == text = <<>>
AppendCharacter(c) == Len(text) < MaxLength /\ text' = Append(text, c)
TextNext == \E c \in Characters : AppendCharacter(c)
TextSpec == TextInit /\ [][TextNext]_text
------------------------------------------------------------------------------
(* Searching from the front and from the back agree on what is there, and
   what a text begins and ends with is found by them, although both are made
   of searches that go through the whole text. *)
SearchesAgree ==
    \A p \in Patterns :
        LET first == stringIndexOfEx(text, p, FALSE)
            last  == stringLastIndexOfEx(text, p, FALSE)
        IN  /\ first # -1 <=> \E i \in last : i >= 0
            /\ first # -1 => \A i \in last : first <= i
            /\ stringStartsWith(text, p) <=>
                   Len(p) <= Len(text) /\ SubSeq(text, 1, Len(p)) = p
            /\ stringEndsWith(text, p) <=>
                   Len(p) <= Len(text)
                   /\ SubSeq(text, Len(text) - Len(p) + 1, Len(text)) = p

(* Trimming takes all whitespace from both ends and nothing else. *)
TrimIsExact ==
    ~stringIsNullOrWhitespace(text) =>
        LET t == stringTrim(text)
        IN  /\ ~charIsWhitespace(t[1]) /\ ~charIsWhitespace(t[Len(t)])
            /\ \E i, j \in 0..Len(text) :
                   /\ text = SubSeq(text, 1, i) \o t \o SubSeq(text, Len(text) - j + 1, Len(text))
                   /\ stringIsNullOrWhitespace(SubSeq(text, 1, i))
                   /\ stringIsNullOrWhitespace(SubSeq(text, Len(text) - j + 1, Len(text)))

(* Splitting loses nothing: the pieces joined again are the text, and only the
   end of the last one may be a separator. *)
SplitRejoins ==
    LET pieces == stringSplit(text, " ")
    IN  /\ stringJoinArray(" ", pieces) = text /\ stringJoinArgs(" ", pieces) = text
        /\ \A i \in DOMAIN pieces, j \in 1..MaxLength :
               j \in DOMAIN pieces[i] /\ pieces[i][j] = " " =>
                   i = Len(pieces) /\ j = Len(pieces[i])

(* A text that is a number, with a sign or in base 16, is read as it is written:
   digit by digit, each worth a base times the next.  A number that a signed word
   has not is read as the one that has the same bits, and one that an unsigned word
   has not as anything; so is one with zeros in front, if the square that the first
   of them is to be multiplied with is too large for a float. *)
Number(base, ds) ==
    LET read[i \in 0..Len(ds)] ==
            IF i = 0 THEN 0 ELSE base * read[i - 1] + CharValue(ds[i], base)
    IN  read[Len(ds)]
ToThe(base, n) ==
    LET power[i \in 0..n] == IF i = 0 THEN 1 ELSE power[i - 1] * base IN power[n]
AllDigits(base, ds) == ds # <<>> /\ \A i \in DOMAIN ds : CharValue(ds[i], base) >= 0
Representable(base, ds) ==
    Number(base, ds) < Word /\ ToThe(base, 2 * ((Len(ds) - 1) \div 2)) < FloatMax
SameBits(n) == IF n \in Signed THEN n ELSE IF n < 0 THEN n + Word ELSE n - Word
NumbersAsWritten ==
    \A sign \in {<<>>, <<"-">>}, prefix \in {<<>>, <<"0", "x">>} :
        LET base == IF prefix = <<>> THEN 10 ELSE 16
            n    == Number(base, text)
        IN  AllDigits(base, text) =>
                intParse(sign \o prefix \o text) =
                    IF Representable(base, text) THEN {SameBits(IF sign = <<>> THEN n ELSE -n)}
                                        ELSE Signed

(* Texts that differ in the case of letters alone are equal if case is ignored,
   and become equal in either case; a text that ends with the only occurrence of
   a pattern, or with what was inserted, is the text before it and what is new. *)
EditsAgree ==
    /\ stringEqualsEx(stringToLower(text), stringToUpper(text), TRUE)
    /\ stringToLower(stringToUpper(text)) = stringToLower(text)
    /\ \A p, n \in Patterns, i \in 0..Len(text) :
           /\ Matches(text, p, FALSE) = {i} /\ i = Len(text) - Len(p) =>
                  stringReplaceEx(text, p, n, FALSE) = stringInsert(text, i, n)
           /\ stringContainsEx(stringInsert(text, i, p), stringToUpper(p), TRUE)

(* The string library as config.c and ttycmd.c rely on it: searches, trims,
   splits and numbers each against what they mean. *)
TextsAgree == SearchesAgree /\ TrimIsExact /\ SplitRejoins /\ NumbersAsWritten /\ EditsAgree
===============================================================================
