--------------------------------- MODULE Clib ---------------------------------
(***************************************************************************)
(* What the PRX has in place of a C library (prx/lib/clib.c), as far as it *)
(* works on memory: copies, which go byte by byte in an order that matters *)
(* where regions overlap, strings, which end at their zero, and bsearch.   *)
(* A pointer is an address in one small memory, Null is none.              *)
(***************************************************************************)
EXTENDS Integers, Sequences, FiniteSets

CONSTANTS
    ByteValues, \* the bytes that occur
    Memories,   \* the memories that there are at first
    Sorted      \* the tables that bsearch is given
Null == -1
Strictly(t) == \A i, j \in DOMAIN t : i < j => t[i] < t[j]

ASSUME ClibAssumption ==
    /\ 0 \in ByteValues /\ ByteValues \subseteq 0..255
    /\ \A m \in Memories : IsFiniteSet(DOMAIN m) /\ m \in [0..(Cardinality(DOMAIN m) - 1) -> ByteValues]
    /\ \A t \in Sorted : t \in Seq(Nat) /\ Strictly(t)

VARIABLES
    memory,
    table       \* rigid

clibVars == <<memory, table>>
------------------------------------------------------------------------------
(* Strings: the first zero behind a pointer ends them.                     *)
SizeOf(m) == Cardinality(DOMAIN m)
IsString(m, s) == s \in DOMAIN m /\ \E k \in s..(SizeOf(m) - 1) : m[k] = 0
strlen(m, s) == CHOOSE k \in 0..(SizeOf(m) - s - 1) : m[s + k] = 0 /\ \A i \in 0..(k - 1) : m[s + i] # 0
Chars(m, s) == [i \in 1..strlen(m, s) |-> m[s + i - 1]]
Lesser(a, b) == IF a < b THEN a ELSE b
Least(S) == CHOOSE i \in S : \A j \in S : i <= j
LeastOr(S, default) == IF S = {} THEN default ELSE Least(S)

\* Bytes are copied one after the other, in the order of their offsets.
Copied(m, d, s, offsets) ==
    LET copied[i \in 0..Len(offsets)] ==
            IF i = 0 THEN m
            ELSE [copied[i - 1] EXCEPT ![d + offsets[i]] = copied[i - 1][s + offsets[i]]]
    IN  copied[Len(offsets)]
Upwards(n) == [i \in 1..n |-> i - 1]
Downwards(n) == [i \in 1..n |-> n - i]

memcpy(m, d, s, n) == Copied(m, d, s, Upwards(n))

\* the direction of memcpy whatever overlaps
OneDirection(d, s, n) == Upwards(n)

Direction(d, s, n) == IF d <= s THEN Upwards(n) ELSE Downwards(n)

memmove(m, d, s, n) == Copied(m, d, s, Direction(d, s, n))

memset(m, s, c, n) == [k \in DOMAIN m |-> IF k \in s..(s + n - 1) THEN c % 256 ELSE m[k]]

strcpy(m, d, s) == memcpy(m, d, s, strlen(m, s) + 1)
strcat(m, d, s) == strcpy(m, d + strlen(m, d), s)

\* The terminator is written where n characters were copied and none was met.
Terminated(m, d, s, n) ==
    LET l == Lesser(n, strlen(m, s)) IN [memcpy(m, d, s, l) EXCEPT ![d + l] = 0]

strncat(m, d, s, n) == Terminated(m, d + strlen(m, d), s, n)

\* The rest of the n bytes is zeros; a longer string is cut off without one.
strncpy(m, d, s, n) ==
    LET l == Lesser(n, strlen(m, s)) IN memset(memcpy(m, d, s, l), d + l, 0, n - l)

strxfrm(m, d, s, n) == IF strlen(m, s) < n THEN strcpy(m, d, s) ELSE m
stringCopyTo(m, d, n, s) == strncpy(m, d, s, n)
stringConcat(m, d, n, s) == strncat(m, d, s, n)
------------------------------------------------------------------------------
(* Comparisons: the difference of the first bytes that differ.             *)
memcmp(m, s, t, n) ==
    LET k == LeastOr({i \in 0..(n - 1) : m[s + i] # m[t + i]}, n)
    IN  IF k = n THEN 0 ELSE m[s + k] - m[t + k]

Within(m, s, t) == 0..(SizeOf(m) - 1 - IF s < t THEN t ELSE s)

Stops(m, s, t) == {i \in Within(m, s, t) : m[s + i] = 0 \/ m[s + i] # m[t + i]}

strncmp(m, s, t, n) ==
    LET k == LeastOr(Stops(m, s, t), n)
    IN  IF k >= n THEN 0 ELSE m[s + k] - m[t + k]

strcmp(m, s, t) == strncmp(m, s, t, SizeOf(m))
strcoll(m, s, t) == strcmp(m, s, t)

(* Searches: the address of the first or last hit.                         *)
memchr(m, s, c, n) == LeastOr({k \in s..(s + n - 1) : m[k] = c % 256}, Null)
Hits(m, s, c) == {k \in s..(s + strlen(m, s)) : m[k] = c}
strchr(m, s, c) == LeastOr(Hits(m, s, c), Null)
strrchr(m, s, c) ==
    IF Hits(m, s, c) = {} THEN Null ELSE CHOOSE k \in Hits(m, s, c) : \A j \in Hits(m, s, c) : j <= k

Among(m, s, t, i) == \E j \in 0..(strlen(m, t) - 1) : m[s + i] = m[t + j]

strcspn(m, s, t) == LeastOr({i \in 0..(strlen(m, s) - 1) : Among(m, s, t, i)}, strlen(m, s))
strspn(m, s, t) == LeastOr({i \in 0..(strlen(m, s) - 1) : ~Among(m, s, t, i)}, strlen(m, s))
strpbrk(m, s, t) == LeastOr({s + i : i \in {j \in 0..(strlen(m, s) - 1) : Among(m, s, t, j)}}, Null)

MatchesAt(m, k, t) == \A j \in 0..(strlen(m, t) - 1) : m[k + j] = m[t + j]

\* Nothing is found in an empty string, not even the empty one.
Occurrence(m, s, t) ==
    LeastOr({k \in s..(s + strlen(m, s) - 1) : k + strlen(m, t) <= s + strlen(m, s) /\ MatchesAt(m, k, t)},
            Null)

strstr(m, s, t) == Occurrence(m, s, t)

\* The elements above the middle one: one less if the number is even.
UpperHalf(n) == (n \div 2) - (1 - (n % 2))

\* bsearch: the index of a key in a table, by halves; -1 is none.
bsearch(members, key) ==
    LET search[n \in 0..Len(members)] ==
            [base \in 0..Len(members) |->
                IF n = 0 THEN Null
                ELSE LET pivot == base + (n \div 2)
                     IN  IF pivot >= Len(members) THEN Null      \* behind the table: not reached
                         ELSE CASE key > members[pivot + 1] -> search[UpperHalf(n)][pivot + 1]
                                [] key = members[pivot + 1] -> pivot
                                [] OTHER -> search[n \div 2][base]]
    IN  search[Len(members)][0]
------------------------------------------------------------------------------
Address == DOMAIN memory
Fits(p, n) == p \in Address /\ p + n <= SizeOf(memory)
Strings == {s \in Address : IsString(memory, s)}
Lengths == 0..SizeOf(memory)

\* What a caller owes: room for the result, and a string that is not in it.
MayReceive(d, n, s) ==
    Fits(d, n) /\ (d + n <= s \/ s + strlen(memory, s) < d)

ClibInit == memory \in Memories /\ table \in Sorted

ClibNext ==
    /\ UNCHANGED table
    /\ \/ \E d, s \in Address, n \in Lengths :
              Fits(d, n) /\ Fits(s, n) /\ memory' = memmove(memory, d, s, n)
       \/ \E d \in Address, n \in Lengths, c \in ByteValues :
              Fits(d, n) /\ memory' = memset(memory, d, c, n)

ClibSpec == ClibInit /\ [][ClibNext]_clibVars
------------------------------------------------------------------------------
(* memmove is a copy of all bytes at once, wherever the two regions overlap. *)
MovesAreExact ==
    \A d, s \in Address, n \in Lengths :
        Fits(d, n) /\ Fits(s, n) =>
            memmove(memory, d, s, n) =
                [k \in Address |-> IF k \in d..(d + n - 1) THEN memory[s + k - d] ELSE memory[k]]

Prefix(t, n) == SubSeq(t, 1, Lesser(n, Len(t)))
Outside(after, d, n) == \A k \in Address \ (d..(d + n - 1)) : after[k] = memory[k]

(* A text that is copied or appended is there, cut off where the limit says,
   ended by its own zero, and no byte is written behind it: strcpy, strcat,
   strncat, strncpy, and stringConcat and stringCopyTo, which are the last two.
   Only strncpy leaves a text that fills its limit without an end. *)
CopiesAreTexts ==
    \A s \in Strings, d \in Address, n \in Lengths :
        LET t == Chars(memory, s)
            l == Len(Prefix(t, n))
        IN  /\ MayReceive(d, Len(t) + 1, s) =>
                   LET after == strcpy(memory, d, s)
                   IN  Chars(after, d) = t /\ Outside(after, d, Len(t) + 1)
            /\ MayReceive(d, n, s) =>
                   LET after == stringCopyTo(memory, d, n, s)
                   IN  /\ \A i \in 1..n : after[d + i - 1] = IF i <= l THEN t[i] ELSE 0
                       /\ Outside(after, d, n)
            /\ d \in Strings =>
                   LET u == Chars(memory, d)
                   IN  /\ MayReceive(d, Len(u) + l + 1, s) =>
                              LET after == stringConcat(memory, d, n, s)
                              IN  /\ Chars(after, d) = u \o Prefix(t, n)
                                  /\ Outside(after, d, Len(u) + l + 1)
                       /\ MayReceive(d, Len(u) + Len(t) + 1, s) =>
                              Chars(strcat(memory, d, s), d) = u \o t

(* The comparisons are those of the texts, or of as much as the limit allows. *)
ComparesTexts ==
    \A s, t \in Strings, n \in Lengths :
        LET a == Chars(memory, s)
            b == Chars(memory, t)
        IN  /\ strcmp(memory, s, t) = 0 <=> a = b
            /\ strcmp(memory, s, t) = -strcmp(memory, t, s)
            /\ strncmp(memory, s, t, n) = 0 <=> Prefix(a, n) = Prefix(b, n)
            /\ Fits(s, n) /\ Fits(t, n) /\ memcmp(memory, s, t, n) = 0 => strncmp(memory, s, t, n) = 0

Tail0(t, n) == SubSeq(t, n + 1, Len(t))
OccursIn(b, a) == \E i \in 0..(Len(a) - Len(b)) : Prefix(Tail0(a, i), Len(b)) = b

(* strstr finds a text wherever it is in another, also where it begins within a
   part of itself that did not match; strspn, strcspn and strpbrk divide a text
   at the same places, and the first and the last of a byte enclose the others. *)
SearchesFind ==
    \A s, t \in Strings :
        LET a == Chars(memory, s)
            b == Chars(memory, t)
            k == strcspn(memory, s, t)
        IN  /\ strstr(memory, s, t) # Null <=> a # <<>> /\ OccursIn(b, a)
            /\ \A i \in 1..Len(a) : i <= strspn(memory, s, t) => strchr(memory, t, a[i]) # Null
            /\ strpbrk(memory, s, t) = IF k = Len(a) THEN Null ELSE s + k
            /\ \A c \in ByteValues :
                   /\ strchr(memory, s, c) = memchr(memory, s, c, Len(a) + 1)
                   /\ \A i \in 1..Len(a) : a[i] = c =>
                          s + i - 1 \in strchr(memory, s, c)..strrchr(memory, s, c)

(* bsearch finds every key of a table, and no other, in tables of even and odd
   length alike. *)
BsearchFinds ==
    \A key \in 0..(2 * Len(table)) :
        LET found == bsearch(table, key)
        IN  /\ found # Null => table[found + 1] = key
            /\ found = Null => \A i \in DOMAIN table : table[i] # key

(* The functions that stand for the C library do what their names promise. *)
MemoryAgrees == MovesAreExact /\ CopiesAreTexts /\ ComparesTexts /\ SearchesFind /\ BsearchFinds
===============================================================================
