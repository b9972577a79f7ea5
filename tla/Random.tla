-------------------------------- MODULE Random --------------------------------
(***************************************************************************)
(* The random numbers of prx/lib/random.c with the machine's arithmetic:   *)
(* the product is cut to 32 bits before the remainder is taken, and a draw *)
(* goes through 32-bit floats of 24 significant bits.  TLC's integers end  *)
(* at 2^31 - 1, so that products are formed from halves of 16 bits.        *)
(***************************************************************************)
EXTENDS Integers

RANDOM_MAX == 2147483647          \* 0x7FFFFFFF
Half == 65536

\* a generator that does not move on
SameSeed(seed) == seed

\* ( 0x41A7 * seed ) % 2^32 % RANDOM_MAX, with seed < 2^31.
randomInt(seed) ==
    LET low  == 16807 * (seed % Half)
        high == (16807 * (seed \div Half) + (low \div Half)) % Half
        rest == ((high % 32768) * Half) + (low % Half)
        top  == high \div 32768                  \* 2^31 leaves 1
    IN  IF rest = RANDOM_MAX THEN top
        ELSE IF rest + top = RANDOM_MAX THEN 0 ELSE rest + top

(* A number as float: mantissa and unit, to nearest, ties to even. *)
Unit(x) == CHOOSE u \in {1, 2, 4, 8, 16, 32, 64, 128} :
               /\ x \div u < 16777216
               /\ u = 1 \/ x \div (u \div 2) >= 16777216
Mantissa(x) ==
    LET u == Unit(x)
        q == x \div u
        r == x % u
    IN  IF 2 * r > u \/ (2 * r = u /\ q % 2 = 1) THEN q + 1 ELSE q

\* randomIntBetween(0, max) after randomInt has made `seed', with max < 100.
DrawFrom(seed, max) ==
    LET product == Mantissa(seed) * (1 + max)
    IN  IF Unit(seed) = 1 THEN 0
        ELSE (Mantissa(product) * Unit(product))
                 \div (1073741824 \div (Unit(seed) \div 2))

===============================================================================
