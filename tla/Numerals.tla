------------------------------- MODULE Numerals -------------------------------
(***************************************************************************)
(* intParse of prx/lib/utils.c, and pow of prx/lib/clib.c that it stands   *)
(* on.  A number is summed up in an unsigned word, by way of doubles, and  *)
(* returned as a signed one.                                               *)
(*                                                                         *)
(* Doubles hold all whole numbers that are met here.  A float holds only   *)
(* 24 bits, but those are enough for the powers of 10 and 16 below 2^32    *)
(* (10^9 is 5^9 * 2^9, and 5^9 < 2^24), and of the others no more matters  *)
(* than that they are larger than any word.                                *)
(***************************************************************************)
EXTENDS Strings

CONSTANTS
    Word,      \* 2^32: words are the numbers below it
    FloatMax   \* 2^128: floats from there on are infinite

\* No more than in the code, where 2^32 is a number that TLC has not.
ASSUME NumeralsAssumption ==
    /\ Word \in Nat /\ Word > 0 /\ Word % 2 = 0 /\ Word \div 65536 <= 65536
    /\ FloatMax \in Nat /\ Word <= FloatMax

Infinite == -1                                     \* a float or a double
Signed == (-(Word \div 2))..((Word \div 2) - 1)    \* s32
AsSigned(n) ==
    LET u == n % Word IN IF u < Word \div 2 THEN u ELSE u - Word
------------------------------------------------------------------------------
CharValue(c, base) ==
    CASE charIsDigit(c)                  -> IndexIn(c, Digits) - 1
      [] base = 16 /\ charIsHexDigit(c)  -> IndexIn(charToLower(c), Lower) + 9
      [] OTHER                           -> -1

\* halfPow * halfPow, which are floats
Squared(half) ==
    IF half = Infinite \/ half * half >= FloatMax THEN Infinite ELSE half * half

\* The branch for exponents that are negative has no caller here.
pow(x, y) ==
    LET power[e \in 0..y] ==
            IF e = 0 THEN 1
            ELSE IF e % 2 = 0 THEN Squared(power[e \div 2])
            ELSE IF power[e - 1] = Infinite THEN Infinite ELSE x * power[e - 1]
    IN  power[y]

(* parsedValue += cval * pow( ... ): a sum that is no word, or no number (0 times
   infinity), is converted to an unsigned word all the same, which is undefined. *)
Undefined == -1
PlusDigit(parsedValue, cval, weight) ==
    IF parsedValue = Undefined \/ weight = Infinite \/ parsedValue + cval * weight >= Word
    THEN Undefined
    ELSE parsedValue + cval * weight

(* The numbers that intParse can return.  It gives the first digit the weight that
   it has if digits follow to the end of the text, and stops at the first character
   that is none. *)
intParse(s) ==
    LET negative == stringStartsWith(s, <<"-">>)
        unsigned == IF negative THEN Tail(s) ELSE s
        hex      == stringStartsWith(unsigned, <<"0", "x">>)
        base     == IF hex THEN 16 ELSE 10
        digits   == IF hex THEN SubSeq(unsigned, 3, Len(unsigned)) ELSE unsigned
        value(i) == CharValue(digits[i], base)
        counted  == {i \in DOMAIN digits : \A j \in 1..i : value(j) >= 0}
        parsedValue[i \in 0..Len(digits)] ==
            IF i = 0 THEN 0
            ELSE IF i \in counted
                 THEN PlusDigit(parsedValue[i - 1], value(i), pow(base, Len(digits) - i))
                 ELSE parsedValue[i - 1]
        parsed == parsedValue[Len(digits)]
    IN  IF parsed = Undefined THEN Signed
        ELSE {AsSigned(IF negative THEN -parsed ELSE parsed)}
===============================================================================
