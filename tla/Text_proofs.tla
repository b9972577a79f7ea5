------------------------------ MODULE Text_proofs ------------------------------
(* Theorems about what the PRX has in place of a C library: its functions on  *)
(* strings (Strings, Text) and on memory (Clib), for every text, pattern,     *)
(* memory and table.                                                          *)
EXTENDS Text, Clib, TLAPS, FiniteSetTheorems, SequenceTheorems, WellFoundedInduction

(***************************************************************************)
(* Induction over numbers and over sequences, for sets of them.            *)
(***************************************************************************)

\* A set of naturals that is not empty has a least element.
LEMMA LeastNumber ==
    ASSUME NEW S, S \subseteq Nat, S # {}
    PROVE  \E x \in S : \A y \in S : x <= y
<1>1. \E x \in S : \A y \in S : ~(<<y, x>> \in OpToRel(<, Nat))
    BY NatLessThanWellFounded, WFMin
<1>2. PICK x \in S : \A y \in S : ~(y < x)
    BY <1>1 DEF OpToRel
<1>3. \A y \in S : x <= y
    <2> TAKE y \in S
    <2>1. x \in Nat /\ y \in Nat /\ ~(y < x)
        BY <1>2
    <2> QED
        BY <2>1
<1> QED
    BY <1>3

\* What holds of 0, and of each number when of the one before, holds of all.
LEMMA ByCounting ==
    ASSUME NEW S, S \subseteq Nat, 0 \in S, \A n \in S : n + 1 \in S
    PROVE  S = Nat
<1> SUFFICES ASSUME Nat \ S # {} PROVE FALSE
    OBVIOUS
<1>1. PICK x \in Nat \ S : \A y \in Nat \ S : x <= y
    BY LeastNumber
<1>2. x # 0 /\ x - 1 \in Nat /\ x - 1 < x
    BY <1>1
<1>3. x - 1 \in S
    BY <1>1, <1>2
<1>4. (x - 1) + 1 \in S
    BY <1>3
<1> QED
    BY <1>1, <1>4

\* A sequence that is not empty is one that has been appended to.
LEMMA Appended ==
    ASSUME NEW S, NEW s \in Seq(S), s # <<>>
    PROVE  \E t \in Seq(S), e \in S : s = Append(t, e) /\ Len(s) = Len(t) + 1
<1>1. Len(s) \in Nat \ {0}
    BY EmptySeq
<1>2. PICK n \in Nat : Len(s) = n + 1 /\ Len(s) - 1 = n
    BY <1>1
<1>3. /\ SubSeq(s, 1, n) \in Seq(S) /\ Len(SubSeq(s, 1, n)) = n
      /\ \A i \in 1..n : SubSeq(s, 1, n)[i] = s[i]
    BY <1>2
<1>4. s = Append(SubSeq(s, 1, n), s[n + 1]) /\ s[n + 1] \in S
    BY <1>2, <1>3
<1> QED
    BY <1>2, <1>3, <1>4

\* What holds of the empty sequence, and of each that is appended to one it holds
\* of, holds of all.
LEMMA ByAppending ==
    ASSUME NEW S, NEW T, T \subseteq Seq(S), <<>> \in T,
           \A s \in T, e \in S : Append(s, e) \in T
    PROVE  T = Seq(S)
<1> DEFINE Z == {n \in Nat : \A s \in Seq(S) : Len(s) = n => s \in T}
<1>1. 0 \in Z
    BY EmptySeq
<1>2. \A n \in Z : n + 1 \in Z
    <2>1. ASSUME NEW n \in Nat, \A s \in Seq(S) : Len(s) = n => s \in T,
                 NEW s \in Seq(S), Len(s) = n + 1
          PROVE  s \in T
        <3>1. s # <<>>
            BY <2>1
        <3>2. PICK t \in Seq(S), e \in S : Len(s) = Len(t) + 1 /\ s = Append(t, e)
            BY <3>1, Appended
        <3>3. t \in T
            BY <2>1, <3>2
        <3> QED
            BY <3>2, <3>3
    <2>2. \A n \in Nat : n + 1 \in Nat
        OBVIOUS
    <2> QED
        BY <2>1, <2>2, Zenon
<1>3. Z = Nat
    <2> HIDE DEF Z
    <2>1. Z \subseteq Nat
        BY DEF Z
    <2> QED
        BY <1>1, <1>2, <2>1, ByCounting
<1> QED
    BY <1>3, LenProperties

(***************************************************************************)
(* Recursive functions on 0..N, each value from the one before it.         *)
(***************************************************************************)
StaysIn(step, D, N) == \A n \in 1..N : step[n] \in [D -> D]

\* g goes from b by the steps, as long as it stays in D.
GoesBy(g, b, step, D, N) ==
    /\ g = [i \in 0..N |-> g[i]] /\ g[0] = b
    /\ \A i \in 1..N : g[i - 1] \in D => g[i] = step[i][g[i - 1]]

LEMMA StepsStay ==
    ASSUME NEW D, NEW b \in D, NEW N \in Nat, NEW step, StaysIn(step, D, N),
           NEW g, GoesBy(g, b, step, D, N)
    PROVE  /\ g \in [0..N -> D] /\ g[0] = b
           /\ \A i \in 1..N : g[i] = step[i][g[i - 1]]
<1> DEFINE Z == {n \in Nat : n <= N => g[n] \in D}
<1>1. 0 \in Z
    BY DEF GoesBy
<1>2. \A n \in Z : n + 1 \in Z
    <2> SUFFICES ASSUME NEW n \in Z, n + 1 <= N PROVE g[n + 1] \in D
        OBVIOUS
    <2>1. n + 1 \in 1..N /\ (n + 1) - 1 = n /\ g[n] \in D
        OBVIOUS
    <2>2. g[n + 1] = step[n + 1][g[n]]
        BY <2>1 DEF GoesBy
    <2>3. step[n + 1] \in [D -> D]
        BY <2>1 DEF StaysIn
    <2> QED
        BY <2>1, <2>2, <2>3
<1>3. Z = Nat
    <2> HIDE DEF Z
    <2>1. Z \subseteq Nat
        BY DEF Z
    <2> QED
        BY <1>1, <1>2, <2>1, ByCounting
<1>4. \A i \in 0..N : g[i] \in D
    BY <1>3
<1>5. \A i \in 1..N : i - 1 \in 0..N
    OBVIOUS
<1> QED
    BY <1>4, <1>5 DEF GoesBy

LEMMA StepsExist ==
    ASSUME NEW D, NEW b \in D, NEW M \in Nat, NEW step, StaysIn(step, D, M)
    PROVE  \E g : GoesBy(g, b, step, D, M)
<1> DEFINE Z == {n \in Nat : n <= M => \E g : GoesBy(g, b, step, D, n)}
<1>1. 0 \in Z
    <2>1. GoesBy([i \in 0..0 |-> b], b, step, D, 0)
        BY DEF GoesBy
    <2> QED
        BY <2>1
<1>2. \A n \in Z : n + 1 \in Z
    <2> SUFFICES ASSUME NEW n \in Z, n + 1 <= M PROVE \E h : GoesBy(h, b, step, D, n + 1)
        OBVIOUS
    <2>1. n \in Nat /\ n <= M
        OBVIOUS
    <2>2. PICK g : GoesBy(g, b, step, D, n)
        BY <2>1
    <2> DEFINE h == [i \in 0..(n + 1) |-> IF i = n + 1 THEN step[n + 1][g[n]] ELSE g[i]]
    <2>3. h = [i \in 0..(n + 1) |-> h[i]] /\ h[0] = b
        BY <2>1, <2>2 DEF GoesBy
    <2>4. \A i \in 1..(n + 1) : h[i - 1] \in D => h[i] = step[i][h[i - 1]]
        <3> TAKE i \in 1..(n + 1)
        <3>1. CASE i = n + 1
            <4>1. h[i] = step[i][g[n]] /\ h[i - 1] = g[n]
                BY <2>1, <3>1
            <4> QED
                BY <4>1
        <3>2. CASE i # n + 1
            <4>1. i \in 1..n /\ h[i] = g[i] /\ h[i - 1] = g[i - 1]
                BY <2>1, <3>2
            <4> QED
                BY <2>2, <4>1 DEF GoesBy
        <3> QED
            BY <3>1, <3>2
    <2> HIDE DEF h
    <2>5. GoesBy(h, b, step, D, n + 1)
        BY <2>3, <2>4 DEF GoesBy
    <2> QED
        BY <2>5
<1>3. Z = Nat
    <2> HIDE DEF Z
    <2>1. Z \subseteq Nat
        BY DEF Z
    <2> QED
        BY <1>1, <1>2, <2>1, ByCounting
<1> QED
    BY <1>3

\* The values up to a number depend on nothing but the steps up to it.
LEMMA StepsAgree ==
    ASSUME NEW D, NEW b \in D, NEW n \in Nat, NEW m \in Nat, n <= m,
           NEW step, NEW other, StaysIn(step, D, n), StaysIn(other, D, m),
           \A i \in 1..n : step[i] = other[i],
           NEW g, NEW h, GoesBy(g, b, step, D, n), GoesBy(h, b, other, D, m)
    PROVE  \A i \in 0..n : g[i] = h[i]
<1>1. /\ g[0] = b /\ h[0] = b
      /\ \A i \in 1..n : g[i] = step[i][g[i - 1]]
      /\ \A i \in 1..m : h[i] = other[i][h[i - 1]]
    BY StepsStay
<1> DEFINE Z == {k \in Nat : k <= n => g[k] = h[k]}
<1>2. 0 \in Z
    BY <1>1
<1>3. \A k \in Z : k + 1 \in Z
    <2> SUFFICES ASSUME NEW k \in Z, k + 1 <= n PROVE g[k + 1] = h[k + 1]
        OBVIOUS
    <2>1. k + 1 \in 1..n /\ k + 1 \in 1..m /\ (k + 1) - 1 = k /\ g[k] = h[k]
        OBVIOUS
    <2> QED
        BY <1>1, <2>1
<1>4. Z = Nat
    <2> HIDE DEF Z
    <2>1. Z \subseteq Nat
        BY DEF Z
    <2> QED
        BY <1>2, <1>3, <2>1, ByCounting
<1> QED
    BY <1>4

(***************************************************************************)
(* Folds: recursion over the elements of a sequence.                       *)
(***************************************************************************)
Along(step, s) == [i \in 1..Len(s) |-> step[s[i]]]
IsFold(g, b, step, D, s) ==
    /\ g = [i \in 0..Len(s) |-> g[i]] /\ g[0] = b
    /\ \A i \in 1..Len(s) : g[i - 1] \in D => g[i] = step[s[i]][g[i - 1]]
FoldsTo(v, b, step, D, s) == \E g : IsFold(g, b, step, D, s) /\ v = g[Len(s)]
Steps(step, S, D) == step \in [S -> [D -> D]]

LEMMA StepsAlong ==
    ASSUME NEW S, NEW D, NEW step, Steps(step, S, D), NEW s \in Seq(S)
    PROVE  StaysIn(Along(step, s), D, Len(s))
BY DEF StaysIn, Along, Steps

LEMMA FoldGoesAlong ==
    ASSUME NEW g, NEW b, NEW step, NEW D, NEW s
    PROVE  IsFold(g, b, step, D, s) <=> GoesBy(g, b, Along(step, s), D, Len(s))
BY DEF IsFold, GoesBy, Along

LEMMA FoldExists ==
    ASSUME NEW S, NEW D, NEW step, Steps(step, S, D), NEW b \in D, NEW s \in Seq(S)
    PROVE  \E g : /\ g \in [0..Len(s) -> D] /\ g[0] = b
                 /\ \A i \in 1..Len(s) : g[i] = step[s[i]][g[i - 1]]
<1> DEFINE along == Along(step, s)
<1>1. PICK n \in Nat : n = Len(s)
    BY LenProperties
<1>2. StaysIn(along, D, n) /\ \A i \in 1..n : along[i] = step[s[i]]
    BY <1>1, StepsAlong DEF Along
<1> HIDE DEF along
<1>3. PICK g : GoesBy(g, b, along, D, n)
    BY <1>2, StepsExist
<1>4. g \in [0..n -> D] /\ g[0] = b /\ \A i \in 1..n : g[i] = along[i][g[i - 1]]
    BY <1>2, <1>3, StepsStay
<1> QED
    BY <1>1, <1>2, <1>4

LEMMA FoldOfNothing ==
    ASSUME NEW D, NEW step, NEW b \in D, NEW v, FoldsTo(v, b, step, D, <<>>)
    PROVE  v = b
BY DEF FoldsTo, IsFold, GoesBy

LEMMA FoldStays ==
    ASSUME NEW S, NEW D, NEW step, Steps(step, S, D), NEW b \in D, NEW s \in Seq(S),
           NEW v, FoldsTo(v, b, step, D, s)
    PROVE  v \in D
<1>1. PICK g : IsFold(g, b, step, D, s) /\ v = g[Len(s)]
    BY DEF FoldsTo
<1>2. PICK n \in Nat : n = Len(s)
    BY LenProperties
<1>3. g \in [0..n -> D]
    <2>1. GoesBy(g, b, Along(step, s), D, n) /\ StaysIn(Along(step, s), D, n)
        BY <1>1, <1>2, FoldGoesAlong, StepsAlong
    <2> QED
        BY <2>1, StepsStay
<1>4. n \in 0..n
    OBVIOUS
<1> QED
    BY <1>1, <1>2, <1>3, <1>4

LEMMA FoldOfAppended ==
    ASSUME NEW S, NEW D, NEW step, Steps(step, S, D), NEW b \in D, NEW s \in Seq(S), NEW e \in S,
           NEW v, FoldsTo(v, b, step, D, s), NEW w, FoldsTo(w, b, step, D, Append(s, e))
    PROVE  w = step[e][v]
<1>1. PICK g : IsFold(g, b, step, D, s) /\ v = g[Len(s)]
    BY DEF FoldsTo
<1>2. PICK h : IsFold(h, b, step, D, Append(s, e)) /\ w = h[Len(Append(s, e))]
    BY DEF FoldsTo
<1>3. PICK n \in Nat : n = Len(s)
    BY LenProperties
<1>4. Append(s, e) \in Seq(S) /\ Len(Append(s, e)) = n + 1 /\ Append(s, e)[n + 1] = e
      /\ \A i \in 1..n : Append(s, e)[i] = s[i]
    BY <1>3
<1> DEFINE short == Along(step, s)
           long == Along(step, Append(s, e))
<1>5. StaysIn(short, D, n) /\ StaysIn(long, D, n + 1)
    BY <1>3, <1>4, StepsAlong
<1>6. (\A i \in 1..n : short[i] = long[i]) /\ long[n + 1] = step[e]
    BY <1>3, <1>4 DEF Along
<1>7. GoesBy(g, b, short, D, n) /\ GoesBy(h, b, long, D, n + 1)
    BY <1>1, <1>2, <1>3, <1>4, FoldGoesAlong
<1> HIDE DEF short, long
<1>8. n <= n + 1 /\ n + 1 \in Nat /\ n \in 0..n /\ n + 1 \in 1..(n + 1) /\ (n + 1) - 1 = n
    OBVIOUS
<1>9. \A i \in 0..n : g[i] = h[i]
    <2>1. PICK m \in Nat : m = n + 1
        BY <1>8
    <2>2. StaysIn(short, D, n) /\ StaysIn(long, D, m)
        BY <1>5, <2>1
    <2>3. GoesBy(g, b, short, D, n) /\ GoesBy(h, b, long, D, m)
        BY <1>7, <2>1
    <2>4. n <= m /\ \A i \in 1..n : short[i] = long[i]
        BY <1>6, <2>1
    <2> QED
        BY <2>2, <2>3, <2>4, StepsAgree, SMTT(30)
<1>10. h[n + 1] = long[n + 1][h[n]]
    BY <1>5, <1>7, <1>8, StepsStay
<1> QED
    BY <1>1, <1>2, <1>3, <1>4, <1>6, <1>9, <1>10

(***************************************************************************)
(* Strings: what is trimmed, and how a text is split.                      *)
(***************************************************************************)
LEMMA TrimIs ==
    ASSUME NEW S, NEW s \in Seq(S), NEW from \in 1..Len(s), NEW to \in from..Len(s),
           ~charIsWhitespace(s[from]), ~charIsWhitespace(s[to]),
           \A k \in 1..Len(s) : k < from \/ k > to => charIsWhitespace(s[k])
    PROVE  stringTrim(s) = SubSeq(s, from, to)
<1>1. PICK len \in Nat : len = Len(s)
    BY LenProperties
<1>2. Blanks(s) = from - 1
    <2>1. from \in Solid(s) /\ \A j \in Solid(s) : j \in 1..len /\ from <= j
        BY <1>1 DEF Solid
    <2>2. \A i \in Solid(s) : (\A j \in Solid(s) : i <= j) => i = from
        <3> SUFFICES ASSUME NEW i \in Solid(s), \A j \in Solid(s) : i <= j PROVE i = from
            OBVIOUS
        <3>1. i <= from /\ from <= i /\ i \in 1..len
            BY <2>1
        <3> QED
            BY <3>1
    <2>3. (CHOOSE i \in Solid(s) : \A j \in Solid(s) : i <= j) = from
        BY <2>1, <2>2
    <2> QED
        BY <2>1, <2>3 DEF Blanks
<1>3. PICK t : t = SubSeq(s, from, len)
    OBVIOUS
<1>4. t \in Seq(S) /\ Len(t) = len - from + 1
    BY <1>1, <1>3
<1>5. \A k \in 1..(len - from + 1) : t[k] = s[from + k - 1]
    BY <1>1, <1>3
<1>6. stringTrimLeft(s) = t
    BY <1>1, <1>2, <1>3 DEF stringTrimLeft, stringSubstringEx
<1>7. Kept(t) = to - from + 1
    <2>1. PICK last \in 1..(len - from + 1) : last = to - from + 1
        BY <1>1
    <2>2. last \in Solid(t)
        BY <1>1, <1>4, <1>5, <2>1, SMTT(30) DEF Solid
    <2>3. \A j \in Solid(t) : j \in 1..(len - from + 1) /\ j <= last
        <3> TAKE j \in Solid(t)
        <3>1. j \in 1..(len - from + 1) /\ ~charIsWhitespace(t[j])
            BY <1>4 DEF Solid
        <3>2. from + j - 1 \in 1..len /\ ~charIsWhitespace(s[from + j - 1])
            BY <1>1, <1>5, <3>1
        <3>3. ~(from + j - 1 > to)
            BY <1>1, <3>2
        <3> QED
            BY <1>1, <2>1, <3>1, <3>3
    <2>4. \A i \in Solid(t) : (\A j \in Solid(t) : j <= i) => i = last
        <3> SUFFICES ASSUME NEW i \in Solid(t), \A j \in Solid(t) : j <= i PROVE i = last
            OBVIOUS
        <3>1. i <= last /\ last <= i /\ i \in Int
            BY <2>2, <2>3
        <3> QED
            BY <3>1
    <2>5. (CHOOSE i \in Solid(t) : \A j \in Solid(t) : j <= i) = last
        BY <2>2, <2>3, <2>4
    <2> QED
        BY <2>1, <2>2, <2>5 DEF Kept
<1>8. stringTrim(s) = SubSeq(t, 1, to - from + 1)
    BY <1>6, <1>7 DEF stringTrim, stringTrimRight, stringSubstringEx
<1>9. PICK n \in Nat : n = to - from + 1 /\ n <= len - from + 1
    BY <1>1
<1>10. PICK u : u = SubSeq(t, 1, n)
    OBVIOUS
<1>11. u \in Seq(S) /\ Len(u) = n /\ \A k \in 1..n : u[k] = t[k]
    BY <1>4, <1>9, <1>10
<1>12. PICK v : v = SubSeq(s, from, to)
    OBVIOUS
<1>13. v \in Seq(S) /\ Len(v) = n
    BY <1>1, <1>9, <1>12
<1>14. \A k \in 1..n : v[k] = s[from + k - 1]
    BY <1>1, <1>9, <1>12
<1>15. u = v
    <2>1. \A k \in 1..n : u[k] = v[k]
        BY <1>5, <1>9, <1>11, <1>14
    <2> QED
        BY <1>11, <1>13, <2>1, SeqEqual
<1> QED
    BY <1>8, <1>9, <1>10, <1>12, <1>15

LEMMA LastChanged ==
    ASSUME NEW T, NEW p \in Seq(T), p # <<>>, NEW e \in T
    PROVE  /\ Len(p) \in Nat \ {0}
           /\ [p EXCEPT ![Len(p)] = e] \in Seq(T) /\ [p EXCEPT ![Len(p)] = e] # <<>>
           /\ Len([p EXCEPT ![Len(p)] = e]) = Len(p)
           /\ [p EXCEPT ![Len(p)] = e][Len(p)] = e
           /\ \A i \in 1..(Len(p) - 1) : [p EXCEPT ![Len(p)] = e][i] = p[i]
<1>1. PICK n \in Nat : n = Len(p) /\ n # 0
    BY LenProperties, EmptySeq
<1>2. p \in [1..n -> T]
    BY <1>1
<1>3. PICK q : q = [p EXCEPT ![n] = e]
    OBVIOUS
<1>4. q \in [1..n -> T] /\ q[n] = e /\ \A i \in 1..(n - 1) : q[i] = p[i]
    BY <1>1, <1>2, <1>3
<1>5. q \in Seq(T) /\ Len(q) = n
    BY <1>4, SeqDef, LenProperties
<1>6. q # <<>>
    BY <1>1, <1>5
<1> QED
    BY <1>1, <1>3, <1>4, <1>5, <1>6

\* stringSplit character by character.
IsSplit(g, s, c, N) ==
    /\ g[0] = <<<<>>>>
    /\ \A i \in 1..N :
           g[i] = IF i < Len(s) /\ s[i] = c THEN Append(g[i - 1], <<>>)
                  ELSE [g[i - 1] EXCEPT ![Len(g[i - 1])] = Append(@, s[i])]

LEMMA SplitSteps ==
    ASSUME NEW S, NEW s \in Seq(S), NEW c
    PROVE  \E g \in [0..Len(s) -> Seq(Seq(S)) \ {<<>>}] :
               IsSplit(g, s, c, Len(s)) /\ stringSplit(s, c) = g[Len(s)]
<1> DEFINE D == Seq(Seq(S)) \ {<<>>}
           E(i, a) == IF i < Len(s) /\ s[i] = c THEN Append(a, <<>>)
                      ELSE [a EXCEPT ![Len(a)] = Append(@, s[i])]
           step == [i \in 1..Len(s) |-> [a \in D |-> E(i, a)]]
           Is(g) == g = [i \in 0..Len(s) |-> IF i = 0 THEN <<<<>>>>
                                             ELSE LET before == g[i - 1]
                                                  IN  IF i < Len(s) /\ s[i] = c
                                                      THEN Append(before, <<>>)
                                                      ELSE [before EXCEPT ![Len(before)] = Append(@, s[i])]]
<1>1. PICK len \in Nat : len = Len(s)
    BY LenProperties
<1>2. <<<<>>>> \in D
    OBVIOUS
<1>3. ASSUME NEW i \in 1..len, NEW a \in D PROVE E(i, a) \in D
    <2>1. s[i] \in S /\ <<>> \in Seq(S)
        BY <1>1
    <2>2. Append(a, <<>>) \in D
        <3>1. Append(a, <<>>) \in Seq(Seq(S))
            BY <2>1
        <3>2. Len(Append(a, <<>>)) # 0
            OBVIOUS
        <3> QED
            BY <3>1, <3>2
    <2>3. [a EXCEPT ![Len(a)] = Append(@, s[i])] \in D
        <3>1. a[Len(a)] \in Seq(S)
            OBVIOUS
        <3>2. PICK e \in Seq(S) : e = Append(a[Len(a)], s[i])
            <4>1. PICK x \in Seq(S), y \in S : x = a[Len(a)] /\ y = s[i]
                BY <2>1, <3>1
            <4>2. Append(x, y) \in Seq(S)
                OBVIOUS
            <4> QED
                BY <4>1, <4>2
        <3>3. [a EXCEPT ![Len(a)] = e] \in D
            BY LastChanged
        <3> QED
            BY <3>2, <3>3
    <2> QED
        BY <2>2, <2>3
<1>4. StaysIn(step, D, len) /\ \A i \in 1..len, a \in D : step[i][a] = E(i, a)
    BY <1>1, <1>3 DEF StaysIn
<1>5. ASSUME NEW g, Is(g) PROVE GoesBy(g, <<<<>>>>, step, D, len)
    <2>1. \A i \in 0..len : g[i] = IF i = 0 THEN <<<<>>>> ELSE E(i, g[i - 1])
        BY <1>1, <1>5
    <2>2. g = [i \in 0..len |-> g[i]]
        BY <1>1, <1>5
    <2>3. \A i \in 1..len : i \in 0..len /\ i # 0
        OBVIOUS
    <2> HIDE DEF E, step, Is, D
    <2>4. \A i \in 1..len : g[i - 1] \in D => g[i] = step[i][g[i - 1]]
        BY <1>4, <2>1, <2>3
    <2> QED
        BY <2>1, <2>2, <2>4 DEF GoesBy
<1>6. \E g : Is(g)
    <2>1. PICK g : GoesBy(g, <<<<>>>>, step, D, len)
        <3> HIDE DEF D, step
        <3> QED
            BY <1>2, <1>4, StepsExist
    <2>2. g \in [0..len -> D] /\ g[0] = <<<<>>>> /\ \A i \in 1..len : g[i] = step[i][g[i - 1]]
        <3> HIDE DEF D, step
        <3> QED
            BY <1>2, <1>4, <2>1, StepsStay
    <2>3. \A i \in 0..len : g[i] = IF i = 0 THEN <<<<>>>> ELSE E(i, g[i - 1])
        <3> HIDE DEF E, step, D
        <3> TAKE i \in 0..len
        <3>1. i # 0 => i \in 1..len /\ i - 1 \in 0..len
            OBVIOUS
        <3> QED
            BY <1>4, <2>2, <3>1
    <2>4. g = [i \in 0..len |-> IF i = 0 THEN <<<<>>>> ELSE E(i, g[i - 1])]
        <3> HIDE DEF E, step, D
        <3> QED
            BY <2>2, <2>3
    <2>5. Is(g)
        BY <1>1, <2>4
    <2> QED
        BY <2>5
<1>7. PICK g : g = CHOOSE h : Is(h)
    OBVIOUS
<1>8. stringSplit(s, c) = g[len]
    BY <1>1, <1>7 DEF stringSplit
<1>9. GoesBy(g, <<<<>>>>, step, D, len)
    <2> HIDE DEF Is, step, D
    <2> QED
        BY <1>5, <1>6, <1>7
<1>10. g \in [0..len -> D] /\ g[0] = <<<<>>>> /\ \A i \in 1..len : g[i] = step[i][g[i - 1]]
    <2> HIDE DEF D, step
    <2> QED
        BY <1>2, <1>4, <1>9, StepsStay
<1>11. \A i \in 1..len : g[i] = E(i, g[i - 1])
    <2> HIDE DEF E, step, D
    <2> TAKE i \in 1..len
    <2>1. i - 1 \in 0..len
        OBVIOUS
    <2> QED
        BY <1>4, <1>10, <2>1
<1>12. IsSplit(g, s, c, len)
    BY <1>10, <1>11 DEF IsSplit
<1> QED
    BY <1>1, <1>8, <1>10, <1>12

\* A separator begins a piece, and any other character goes to the last one.
Splits(a, b, s, c, i) ==
    /\ i < Len(s) /\ s[i] = c =>
           /\ Len(b) = Len(a) + 1 /\ b[Len(a) + 1] = <<>>
           /\ \A j \in 1..Len(a) : b[j] = a[j]
    /\ ~(i < Len(s) /\ s[i] = c) =>
           /\ Len(b) = Len(a) /\ b[Len(a)] = Append(a[Len(a)], s[i])
           /\ \A j \in 1..(Len(a) - 1) : b[j] = a[j]

LEMMA SplitStep ==
    ASSUME NEW S, NEW s \in Seq(S), NEW c, NEW g \in [0..Len(s) -> Seq(Seq(S)) \ {<<>>}],
           IsSplit(g, s, c, Len(s))
    PROVE  \A i \in 1..Len(s) : Splits(g[i - 1], g[i], s, c, i)
<1> SUFFICES ASSUME NEW i \in 1..Len(s) PROVE Splits(g[i - 1], g[i], s, c, i)
    OBVIOUS
<1>0. PICK a, b : a = g[i - 1] /\ b = g[i]
    OBVIOUS
<1>1. i \in 0..Len(s) /\ i - 1 \in 0..Len(s)
    OBVIOUS
<1>2. a \in Seq(Seq(S)) /\ a # <<>> /\ b \in Seq(Seq(S)) /\ b # <<>>
    BY <1>0, <1>1
<1>3. PICK n \in Nat \ {0} : n = Len(a)
    BY <1>2, LenProperties, EmptySeq
<1>4. b = IF i < Len(s) /\ s[i] = c THEN Append(a, <<>>)
          ELSE [a EXCEPT ![Len(a)] = Append(@, s[i])]
    BY <1>0 DEF IsSplit
<1>5. ASSUME i < Len(s) /\ s[i] = c
      PROVE  Len(b) = n + 1 /\ b[n + 1] = <<>> /\ \A j \in 1..n : b[j] = a[j]
    <2>1. b = Append(a, <<>>)
        BY <1>4, <1>5
    <2> DEFINE T == Seq(S)
    <2>2. PICK e \in T : e = <<>>
        <3>1. <<>> \in T
            OBVIOUS
        <3> QED
            BY <3>1, Zenon
    <2>3. a \in Seq(T)
        BY <1>2
    <2> HIDE DEF T
    <2>4. Len(Append(a, e)) = n + 1
        BY <1>3, <2>3
    <2>5. Append(a, e)[n + 1] = e
        BY <1>3, <2>3
    <2>6. \A j \in 1..n : Append(a, e)[j] = a[j]
        BY <1>3, <2>3
    <2> QED
        BY <2>1, <2>2, <2>4, <2>5, <2>6
<1>6. ASSUME ~(i < Len(s) /\ s[i] = c)
      PROVE  Len(b) = n /\ b[n] = Append(a[n], s[i]) /\ \A j \in 1..(n - 1) : b[j] = a[j]
    <2>1. b = [a EXCEPT ![Len(a)] = Append(@, s[i])]
        BY <1>4, <1>6
    <2> DEFINE T == Seq(S)
    <2>2. PICK x \in T, y \in S : x = a[n] /\ y = s[i]
        BY <1>2, <1>3
    <2>3. PICK e \in T : e = Append(x, y)
        <3>1. Append(x, y) \in T
            OBVIOUS
        <3> QED
            BY <3>1, Zenon
    <2>4. b = [a EXCEPT ![Len(a)] = e]
        BY <1>3, <2>1, <2>2, <2>3
    <2>5. a \in Seq(T) /\ a # <<>>
        BY <1>2
    <2> HIDE DEF T
    <2>6. Len(b) = Len(a) /\ b[Len(a)] = e /\ \A j \in 1..(Len(a) - 1) : b[j] = a[j]
        BY <2>4, <2>5, LastChanged
    <2> QED
        BY <1>3, <2>2, <2>3, <2>6
<1>7. Splits(a, b, s, c, i)
    BY <1>3, <1>5, <1>6 DEF Splits
<1> QED
    BY <1>0, <1>7

\* A text of m + 1 characters with one separator between each two.
LEMMA SplitOfWords ==
    ASSUME NEW S, NEW s \in Seq(S), NEW c, NEW m \in Nat, Len(s) = 2 * m + 1,
           \A k \in 0..m : s[2 * k + 1] # c, \A k \in 1..m : s[2 * k] = c
    PROVE  stringSplit(s, c) = [i \in 1..(m + 1) |-> <<s[2 * i - 1]>>]
<1>1. PICK N \in Nat : N = Len(s) /\ N = 2 * m + 1
    OBVIOUS
<1>2. PICK g \in [0..Len(s) -> Seq(Seq(S)) \ {<<>>}] :
          IsSplit(g, s, c, Len(s)) /\ stringSplit(s, c) = g[Len(s)]
    BY SplitSteps
<1>0. \A i \in 1..Len(s) : Splits(g[i - 1], g[i], s, c, i)
    BY <1>2, SplitStep
<1>3. \A i \in 1..N : s[i] \in S
    BY <1>1
<1> DEFINE Done(k) == LET a == g[2 * k + 1]
                      IN  Len(a) = k + 1 /\ \A i \in 1..(k + 1) : a[i] = <<s[2 * i - 1]>>
           Z == {k \in Nat : k <= m => Done(k)}
<1>4. Done(0)
    <2>1. PICK one : one = 1
        OBVIOUS
    <2>2. one \in 1..Len(s) /\ one - 1 = 0 /\ one = 2 * 0 + 1 /\ s[one] \in S
        BY <1>1, <1>3, <2>1
    <2>3. s[one] # c
        <3>1. 0 \in 0..m
            OBVIOUS
        <3> QED
            BY <2>2, <3>1
    <2>4. PICK a, b : a = g[one - 1] /\ b = g[one]
        OBVIOUS
    <2>5. a = <<<<>>>>
        BY <1>2, <2>2, <2>4 DEF IsSplit
    <2>6. Len(b) = Len(a) /\ b[Len(a)] = Append(a[Len(a)], s[one])
        <3>1. Splits(a, b, s, c, one)
            BY <1>0, <2>2, <2>4
        <3> QED
            BY <2>3, <3>1 DEF Splits
    <2>7. Len(a) = 1 /\ a[1] = <<>>
        BY <2>5
    <2>8. Append(<<>>, s[one]) = <<s[one]>>
        BY <2>2
    <2>9. Len(b) = 1 /\ b[1] = <<s[1]>>
        BY <2>1, <2>6, <2>7, <2>8
    <2>10. 2 * 0 + 1 = 1 /\ 0 + 1 = 1 /\ \A i \in 1..1 : i = 1 /\ 2 * i - 1 = 1
        OBVIOUS
    <2> QED
        BY <2>1, <2>4, <2>9, <2>10
<1>5. ASSUME NEW k \in Nat, k + 1 <= m, Done(k) PROVE Done(k + 1)
    <2>1. PICK n \in Nat : n = 2 * k + 2
        OBVIOUS
    <2>2. n \in 1..Len(s) /\ n + 1 \in 1..Len(s) /\ n < Len(s)
          /\ n - 1 = 2 * k + 1 /\ (n + 1) - 1 = n /\ n + 1 = 2 * (k + 1) + 1
        BY <1>1, <1>5, <2>1
    <2>3. s[n] = c
        <3>1. k + 1 \in 1..m /\ n = 2 * (k + 1)
            BY <1>5, <2>1
        <3> QED
            BY <3>1
    <2>4. s[n + 1] # c /\ s[n + 1] \in S
        <3>1. k + 1 \in 0..m
            BY <1>5
        <3> QED
            BY <1>1, <1>3, <2>2, <3>1
    <2>5. PICK a, b, d : a = g[n - 1] /\ b = g[n] /\ d = g[n + 1]
        OBVIOUS
    <2>6. Len(a) = k + 1 /\ \A i \in 1..(k + 1) : a[i] = <<s[2 * i - 1]>>
        BY <1>5, <2>2, <2>5
    <2>7. Len(b) = Len(a) + 1 /\ b[Len(a) + 1] = <<>> /\ \A j \in 1..Len(a) : b[j] = a[j]
        <3>1. Splits(a, b, s, c, n)
            BY <1>0, <2>2, <2>5
        <3> QED
            BY <2>2, <2>3, <3>1 DEF Splits
    <2>8. Len(b) = k + 2 /\ b[k + 2] = <<>> /\ \A i \in 1..(k + 1) : b[i] = <<s[2 * i - 1]>>
        <3>1. (k + 1) + 1 = k + 2
            OBVIOUS
        <3> QED
            BY <2>6, <2>7, <3>1
    <2>9. /\ Len(d) = Len(b) /\ d[Len(b)] = Append(b[Len(b)], s[n + 1])
          /\ \A j \in 1..(Len(b) - 1) : d[j] = b[j]
        <3>1. Splits(b, d, s, c, n + 1)
            BY <1>0, <2>2, <2>5
        <3> QED
            BY <2>4, <3>1 DEF Splits
    <2>10. Append(<<>>, s[n + 1]) = <<s[n + 1]>>
        BY <2>4
    <2>11. Len(d) = k + 2 /\ d[k + 2] = <<s[n + 1]>> /\ \A i \in 1..(k + 1) : d[i] = <<s[2 * i - 1]>>
        <3>1. (k + 2) - 1 = k + 1
            OBVIOUS
        <3> QED
            BY <2>8, <2>9, <2>10, <3>1
    <2>12. \A i \in 1..(k + 2) : d[i] = <<s[2 * i - 1]>>
        <3> TAKE i \in 1..(k + 2)
        <3>1. CASE i = k + 2
            <4>1. 2 * i - 1 = n + 1
                BY <2>1, <3>1
            <4> QED
                BY <2>11, <3>1, <4>1
        <3>2. CASE i # k + 2
            <4>1. i \in 1..(k + 1)
                BY <3>2
            <4> QED
                BY <2>11, <4>1
        <3> QED
            BY <3>1, <3>2
    <2>13. (k + 1) + 1 = k + 2
        OBVIOUS
    <2> QED
        BY <2>2, <2>5, <2>11, <2>12, <2>13
<1>6. Z = Nat
    <2> HIDE DEF Done
    <2>1. 0 \in Z
        BY <1>4
    <2>2. \A k \in Z : k + 1 \in Z
        BY <1>5
    <2>3. Z \subseteq Nat
        OBVIOUS
    <2> HIDE DEF Z
    <2> QED
        BY <2>1, <2>2, <2>3, ByCounting
<1>7. Done(m)
    <2> HIDE DEF Done
    <2>1. m \in Z
        <3> HIDE DEF Z
        <3> QED
            BY <1>6
    <2> QED
        BY <2>1
<1>8. PICK q \in Seq(Seq(S)) : q = g[Len(s)]
    <2>1. Len(s) \in 0..Len(s)
        OBVIOUS
    <2> QED
        BY <1>2, <2>1
<1>9. Len(q) = m + 1 /\ \A i \in 1..(m + 1) : q[i] = <<s[2 * i - 1]>>
    BY <1>1, <1>7, <1>8
<1>10. q = [i \in 1..(m + 1) |-> <<s[2 * i - 1]>>]
    <2>1. q = [i \in 1..Len(q) |-> q[i]]
        OBVIOUS
    <2> QED
        BY <1>9, <2>1
<1> QED
    BY <1>2, <1>8, <1>10


(***************************************************************************)
(* Searches.                                                               *)
(***************************************************************************)
\* Where a pattern is in a text, and what the two searches make of it.
Found(s, p, i) ==
    i \in Nat /\ i + Len(p) <= Len(s) /\ \A j \in 1..Len(p) : s[i + j] = p[j]

LEMMA MatchesAre ==
    ASSUME NEW S, NEW s \in Seq(S), NEW p \in Seq(S), p # <<>>
    PROVE  /\ Len(s) \in Nat /\ Len(p) \in Nat \ {0}
           /\ Matches(s, p, FALSE) \subseteq Nat
           /\ \A i : i \in Matches(s, p, FALSE) <=> Found(s, p, i)
<1>1. PICK n \in Nat \ {0} : n = Len(p) /\ DOMAIN p = 1..n
    BY LenProperties, EmptySeq
<1>2. PICK len \in Nat : len = Len(s)
    BY LenProperties
<1>3. \A i : i \in 0..(len - n) <=> i \in Nat /\ i + n <= len
    OBVIOUS
<1>4. \A i : MatchAt(s, p, i, FALSE) <=> \A j \in 1..n : s[i + j] = p[j]
    BY <1>1 DEF MatchAt, Same
<1>5. \A i : i \in Matches(s, p, FALSE) <=> i \in 0..(len - n) /\ MatchAt(s, p, i, FALSE)
    BY <1>1, <1>2 DEF Matches
<1>6. \A i : i \in Matches(s, p, FALSE) <=> Found(s, p, i)
    BY <1>1, <1>2, <1>3, <1>4, <1>5 DEF Found
<1>7. Matches(s, p, FALSE) \subseteq Nat
    BY <1>3, <1>5
<1> QED
    BY <1>1, <1>2, <1>6, <1>7

LEMMA FirstIs ==
    ASSUME NEW s, NEW p, NEW ignoreCase, Matches(s, p, ignoreCase) \subseteq Nat
    PROVE  /\ Matches(s, p, ignoreCase) = {} => stringIndexOfEx(s, p, ignoreCase) = -1
           /\ Matches(s, p, ignoreCase) # {} =>
                  /\ stringIndexOfEx(s, p, ignoreCase) \in Matches(s, p, ignoreCase)
                  /\ \A i \in Matches(s, p, ignoreCase) : stringIndexOfEx(s, p, ignoreCase) <= i
<1> DEFINE found == Matches(s, p, ignoreCase)
<1>1. CASE found = {}
    BY <1>1 DEF stringIndexOfEx
<1>2. CASE found # {}
    <2>1. \E i \in found : \A j \in found : i <= j
        BY <1>2, LeastNumber
    <2>2. stringIndexOfEx(s, p, ignoreCase) = CHOOSE i \in found : \A j \in found : i <= j
        BY <1>2 DEF stringIndexOfEx
    <2> HIDE DEF found
    <2>3. stringIndexOfEx(s, p, ignoreCase) \in found
          /\ \A j \in found : stringIndexOfEx(s, p, ignoreCase) <= j
        BY <2>1, <2>2
    <2> QED
        BY <1>2, <2>3 DEF found
<1> QED
    BY <1>1, <1>2

\* A set of numbers with a bound has a greatest element.
LEMMA GreatestNumber ==
    ASSUME NEW T, T \subseteq Nat, T # {}, NEW n \in Nat, \A x \in T : x <= n
    PROVE  \E x \in T : \A y \in T : y <= x
<1> DEFINE U == {n - x : x \in T}
<1>1. U \subseteq Nat /\ U # {}
    <2>1. \A x \in T : n - x \in Nat
        OBVIOUS
    <2>2. PICK x \in T : TRUE
        OBVIOUS
    <2>3. n - x \in U
        OBVIOUS
    <2> QED
        BY <2>1, <2>3
<1>2. PICK u \in U : \A y \in U : u <= y
    <2> HIDE DEF U
    <2> QED
        BY <1>1, LeastNumber
<1>3. PICK x \in T : u = n - x
    OBVIOUS
<1>4. \A y \in T : y <= x
    <2> TAKE y \in T
    <2>1. n - y \in U /\ x \in Nat /\ y \in Nat
        OBVIOUS
    <2>2. n - x <= n - y
        BY <1>2, <1>3, <2>1
    <2> QED
        BY <2>1, <2>2
<1> QED
    BY <1>4

LEMMA LastIs ==
    ASSUME NEW S, NEW s \in Seq(S), NEW p \in Seq(S), p # <<>>
    PROVE  /\ Matches(s, p, FALSE) = {} =>
                  \A i \in stringLastIndexOfEx(s, p, FALSE) : i \in Int /\ i < 0
           /\ Matches(s, p, FALSE) # {} =>
                  \E i \in Matches(s, p, FALSE) :
                      /\ stringLastIndexOfEx(s, p, FALSE) = {i}
                      /\ \A j \in Matches(s, p, FALSE) : j <= i
<1> DEFINE found == Matches(s, p, FALSE)
<1>1. PICK n \in Nat \ {0}, len \in Nat : n = Len(p) /\ len = Len(s)
    BY MatchesAre
<1>2. \A i \in found : i \in Nat /\ i + n <= len
    <2>1. \A i \in found : Found(s, p, i)
        BY MatchesAre
    <2> QED
        BY <1>1, <2>1 DEF Found
<1>3. CASE found = {}
    <2>1. stringLastIndexOfEx(s, p, FALSE) \subseteq {-1} \cup (-n)..(-1)
        BY <1>1, <1>3 DEF stringLastIndexOfEx
    <2>2. \A i \in {-1} \cup (-n)..(-1) : i \in Int /\ i < 0
        OBVIOUS
    <2> QED
        BY <1>3, <2>1, <2>2
<1>4. CASE found # {}
    <2>1. ~(n > len)
        <3>1. PICK i \in found : TRUE
            BY <1>4
        <3>2. i \in Nat /\ i + n <= len
            BY <1>2
        <3> QED
            BY <3>2
    <2>2. \E i \in found : \A j \in found : j <= i
        <3> HIDE DEF found
        <3>1. found \subseteq Nat /\ \A x \in found : x <= len
            BY <1>2
        <3> QED
            BY <1>4, <3>1, GreatestNumber
    <2>3. PICK i : i = CHOOSE k \in found : \A j \in found : j <= k
        OBVIOUS
    <2>4. stringLastIndexOfEx(s, p, FALSE) = {i}
        BY <1>1, <1>4, <2>1, <2>3 DEF stringLastIndexOfEx
    <2> HIDE DEF found
    <2>5. i \in found /\ \A j \in found : j <= i
        BY <2>2, <2>3
    <2> QED
        BY <1>4, <2>4, <2>5 DEF found
<1> QED
    BY <1>3, <1>4

\* A pattern is in the place of a part of the text if the part is the pattern.
LEMMA PartIs ==
    ASSUME NEW S, NEW s \in Seq(S), NEW p \in Seq(S), NEW i \in Nat, i + Len(p) <= Len(s)
    PROVE  SubSeq(s, i + 1, i + Len(p)) = p <=> \A j \in 1..Len(p) : s[i + j] = p[j]
<1>1. PICK n \in Nat, len \in Nat : n = Len(p) /\ len = Len(s)
    BY LenProperties
<1>2. PICK u : u = SubSeq(s, i + 1, i + n)
    OBVIOUS
<1>3. u \in Seq(S) /\ Len(u) = n
    BY <1>1, <1>2
<1>4. \A j \in 1..n : u[j] = s[i + j]
    <2> TAKE j \in 1..n
    <2>1. (i + 1) + j - 1 = i + j /\ j \in 1..((i + n) - (i + 1) + 1)
        BY <1>1
    <2>2. SubSeq(s, i + 1, i + n)[j] = s[(i + 1) + j - 1]
        BY <1>1, <2>1
    <2> QED
        BY <1>2, <2>1, <2>2
<1>5. u = p <=> \A j \in 1..n : u[j] = p[j]
    BY <1>1, <1>3, SeqEqual
<1> QED
    BY <1>1, <1>2, <1>4, <1>5

LEMMA StartsWithIs ==
    ASSUME NEW S, NEW s \in Seq(S), NEW p \in Seq(S), p # <<>>
    PROVE  stringStartsWith(s, p) <=> Len(p) <= Len(s) /\ SubSeq(s, 1, Len(p)) = p
<1>1. PICK n \in Nat \ {0}, len \in Nat : n = Len(p) /\ len = Len(s)
    BY MatchesAre
<1>2. PICK found : found = Matches(s, p, FALSE)
    OBVIOUS
<1>3. found \subseteq Nat
    BY <1>2, MatchesAre
<1>4. 0 \in found <=> n <= len /\ SubSeq(s, 1, n) = p
    <2>1. 0 \in found <=> n <= len /\ \A j \in 1..n : s[0 + j] = p[j]
        <3>1. 0 \in found <=> Found(s, p, 0)
            BY <1>2, MatchesAre
        <3> QED
            BY <1>1, <3>1 DEF Found
    <2>2. n <= len => (SubSeq(s, 0 + 1, 0 + n) = p <=> \A j \in 1..n : s[0 + j] = p[j])
        BY <1>1, PartIs
    <2>3. 0 + 1 = 1 /\ 0 + n = n
        OBVIOUS
    <2> QED
        BY <2>1, <2>2, <2>3
<1>5. stringIndexOfEx(s, p, FALSE) = 0 <=> 0 \in found
    <2>1. CASE found = {}
        <3>1. stringIndexOfEx(s, p, FALSE) = -1
            BY <1>2, <2>1, FirstIs
        <3>2. 0 \notin found /\ -1 # 0
            BY <2>1
        <3> QED
            BY <3>1, <3>2
    <2>2. CASE found # {}
        <3>1. PICK first : first = stringIndexOfEx(s, p, FALSE)
            OBVIOUS
        <3>2. first \in found /\ \A i \in found : first <= i
            BY <1>2, <1>3, <2>2, <3>1, FirstIs
        <3>3. 0 \in found => first = 0
            <4>1. first \in Nat /\ (0 \in found => first <= 0)
                BY <1>3, <3>2
            <4> QED
                BY <4>1
        <3> QED
            BY <3>1, <3>2, <3>3
    <2> QED
        BY <2>1, <2>2
<1> QED
    BY <1>1, <1>4, <1>5 DEF stringStartsWith

LEMMA EndsWithIs ==
    ASSUME NEW S, NEW s \in Seq(S), NEW p \in Seq(S), p # <<>>
    PROVE  stringEndsWith(s, p) <=>
               Len(p) <= Len(s) /\ SubSeq(s, Len(s) - Len(p) + 1, Len(s)) = p
<1>1. PICK n \in Nat \ {0}, len \in Nat : n = Len(p) /\ len = Len(s)
    BY MatchesAre
<1>2. PICK found, last : found = Matches(s, p, FALSE) /\ last = stringLastIndexOfEx(s, p, FALSE)
    OBVIOUS
<1>3. \A i \in found : i \in Nat /\ i + n <= len
    <2>1. \A i \in found : Found(s, p, i)
        BY <1>2, MatchesAre
    <2> QED
        BY <1>1, <2>1 DEF Found
<1>4. n <= len => (len - n \in found <=> SubSeq(s, len - n + 1, len) = p)
    <2> SUFFICES ASSUME n <= len PROVE len - n \in found <=> SubSeq(s, len - n + 1, len) = p
        OBVIOUS
    <2>1. PICK i \in Nat : i = len - n /\ i + n = len
        OBVIOUS
    <2>2. i \in found <=> \A j \in 1..Len(p) : s[i + j] = p[j]
        <3>1. i \in found <=> Found(s, p, i)
            BY <1>2, MatchesAre
        <3>2. i + Len(p) <= Len(s)
            BY <1>1, <2>1
        <3> QED
            BY <3>1, <3>2 DEF Found
    <2>3. SubSeq(s, i + 1, i + Len(p)) = p <=> \A j \in 1..Len(p) : s[i + j] = p[j]
        <3>1. i + Len(p) <= Len(s)
            BY <1>1, <2>1
        <3> QED
            BY <3>1, PartIs
    <2>4. SubSeq(s, i + 1, i + Len(p)) = SubSeq(s, len - n + 1, len)
        BY <1>1, <2>1
    <2> QED
        BY <2>1, <2>2, <2>3, <2>4
<1>5. stringEndsWith(s, p) <=> \E i \in last : i # -1 /\ i = len - n
    BY <1>1, <1>2 DEF stringEndsWith
<1>6. CASE found = {}
    <2>1. \A i \in last : i \in Int /\ i < 0
        BY <1>2, <1>6, LastIs
    <2>2. CASE n <= len
        BY <1>1, <1>4, <1>5, <1>6, <2>1, <2>2
    <2>3. CASE ~(n <= len)
        <3>1. n > len
            BY <2>3
        <3>2. Len(p) > Len(s)
            BY <1>1, <3>1
        <3>3. stringLastIndexOfEx(s, p, FALSE) = {-1}
            BY <1>2, <1>6, <3>2, Zenon DEF stringLastIndexOfEx
        <3>4. last = {-1}
            BY <1>2, <3>3
        <3> QED
            BY <1>1, <1>5, <2>3, <3>4
    <2> QED
        BY <2>2, <2>3
<1>7. CASE found # {}
    <2>1. PICK i \in found : last = {i} /\ \A j \in found : j <= i
        BY <1>2, <1>7, LastIs
    <2>2. i \in Nat /\ i + n <= len /\ n <= len /\ i # -1
        BY <1>3, <2>1
    <2>3. i = len - n <=> len - n \in found
        <3>1. len - n \in found => len - n <= i
            BY <2>1
        <3> QED
            BY <2>1, <2>2, <3>1
    <2> QED
        BY <1>1, <1>4, <1>5, <2>1, <2>2, <2>3
<1> QED
    BY <1>6, <1>7

\* SearchesAgree, pattern by pattern.
LEMMA SearchesMeet ==
    ASSUME NEW S, NEW s \in Seq(S), NEW p \in Seq(S), p # <<>>
    PROVE  LET first == stringIndexOfEx(s, p, FALSE)
               last  == stringLastIndexOfEx(s, p, FALSE)
           IN  /\ first # -1 <=> \E i \in last : i >= 0
               /\ first # -1 => \A i \in last : first <= i
<1>1. PICK found, first, last :
          /\ found = Matches(s, p, FALSE) /\ first = stringIndexOfEx(s, p, FALSE)
          /\ last = stringLastIndexOfEx(s, p, FALSE)
    OBVIOUS
<1>2. found \subseteq Nat
    BY <1>1, MatchesAre
<1> SUFFICES /\ first # -1 <=> \E i \in last : i >= 0
             /\ first # -1 => \A i \in last : first <= i
    BY <1>1, Zenon
<1>3. CASE found = {}
    <2>1. first = -1
        BY <1>1, <1>3, FirstIs, MatchesAre
    <2>2. \A i \in last : i \in Int /\ i < 0
        BY <1>1, <1>3, LastIs
    <2> QED
        BY <2>1, <2>2
<1>4. CASE found # {}
    <2>1. first \in found /\ \A i \in found : first <= i
        BY <1>1, <1>2, <1>4, FirstIs
    <2>2. PICK i \in found : last = {i}
        BY <1>1, <1>4, LastIs
    <2>3. first \in Nat /\ i \in Nat /\ first <= i
        BY <1>2, <2>1, <2>2
    <2> QED
        BY <2>2, <2>3
<1> QED
    BY <1>3, <1>4

LEMMA TextTypeCorrect == TextSpec => [](text \in Seq(Characters))
<1>1. TextInit => text \in Seq(Characters)
    BY DEF TextInit
<1>2. text \in Seq(Characters) /\ [TextNext]_text => (text \in Seq(Characters))'
    <2> SUFFICES ASSUME text \in Seq(Characters), [TextNext]_text PROVE text' \in Seq(Characters)
        OBVIOUS
    <2>1. CASE UNCHANGED text
        BY <2>1
    <2>2. ASSUME NEW c \in Characters, AppendCharacter(c) PROVE text' \in Seq(Characters)
        BY <2>2 DEF AppendCharacter
    <2> QED
        BY <2>1, <2>2 DEF TextNext
<1> QED
    BY <1>1, <1>2, PTL DEF TextSpec

\* Searching from either end agrees on what is there, for every text and pattern.
THEOREM SearchesAgreeCorrect == TextSpec => []SearchesAgree
<1>1. text \in Seq(Characters) => SearchesAgree
    <2> SUFFICES ASSUME text \in Seq(Characters), NEW p \in Patterns
                 PROVE  LET first == stringIndexOfEx(text, p, FALSE)
                            last  == stringLastIndexOfEx(text, p, FALSE)
                        IN  /\ first # -1 <=> \E i \in last : i >= 0
                            /\ first # -1 => \A i \in last : first <= i
                            /\ stringStartsWith(text, p) <=>
                                   Len(p) <= Len(text) /\ SubSeq(text, 1, Len(p)) = p
                            /\ stringEndsWith(text, p) <=>
                                   Len(p) <= Len(text)
                                   /\ SubSeq(text, Len(text) - Len(p) + 1, Len(text)) = p
        BY Zenon DEF SearchesAgree
    <2>1. p \in Seq(Characters) /\ p # <<>>
        BY TextAssumption
    <2>2. stringStartsWith(text, p) <=> Len(p) <= Len(text) /\ SubSeq(text, 1, Len(p)) = p
        BY <2>1, StartsWithIs
    <2>3. stringEndsWith(text, p) <=>
              Len(p) <= Len(text) /\ SubSeq(text, Len(text) - Len(p) + 1, Len(text)) = p
        BY <2>1, EndsWithIs
    <2> QED
        BY <2>1, <2>2, <2>3, SearchesMeet, Zenon
<1> QED
    BY <1>1, TextTypeCorrect, PTL

LEMMA TrimMeans ==
    ASSUME NEW S, NEW s \in Seq(S), ~stringIsNullOrWhitespace(s)
    PROVE  LET t == stringTrim(s)
           IN  /\ ~charIsWhitespace(t[1]) /\ ~charIsWhitespace(t[Len(t)])
               /\ \E i, j \in 0..Len(s) :
                      /\ s = SubSeq(s, 1, i) \o t \o SubSeq(s, Len(s) - j + 1, Len(s))
                      /\ stringIsNullOrWhitespace(SubSeq(s, 1, i))
                      /\ stringIsNullOrWhitespace(SubSeq(s, Len(s) - j + 1, Len(s)))
<1>1. PICK len \in Nat : len = Len(s) /\ DOMAIN s = 1..len
    BY LenProperties
<1> DEFINE T == Solid(s)
<1>2. T \subseteq 1..len /\ T # {}
    BY <1>1 DEF stringIsNullOrWhitespace, Solid
<1>3. \A k \in 1..len : k \in T <=> ~charIsWhitespace(s[k])
    BY <1>1 DEF Solid
<1> HIDE DEF T
<1>4. PICK from \in T : \A j \in T : from <= j
    <2>1. T \subseteq Nat
        BY <1>2
    <2> QED
        BY <1>2, <2>1, LeastNumber
<1>5. PICK to \in T : \A j \in T : j <= to
    <2>1. T \subseteq Nat /\ \A x \in T : x <= len
        BY <1>2
    <2> QED
        BY <1>2, <2>1, GreatestNumber
<1>6. from \in 1..len /\ to \in 1..len /\ from <= to
    BY <1>2, <1>4, <1>5
<1>7. \A k \in 1..len : k < from \/ k > to => charIsWhitespace(s[k])
    BY <1>2, <1>3, <1>4, <1>5, <1>6
<1>8. ~charIsWhitespace(s[from]) /\ ~charIsWhitespace(s[to])
    BY <1>3, <1>6
<1>9. PICK t : t = stringTrim(s)
    OBVIOUS
<1>10. t = SubSeq(s, from, to)
    BY <1>1, <1>6, <1>7, <1>8, <1>9, TrimIs, SMTT(30)
<1>11. PICK n \in Nat \ {0} : n = to - from + 1
    BY <1>6
<1>12. t \in Seq(S) /\ Len(t) = n
    BY <1>1, <1>6, <1>10, <1>11
<1>13. \A k \in 1..n : t[k] = s[from + k - 1]
    BY <1>1, <1>6, <1>10, <1>11
<1>14. ~charIsWhitespace(t[1]) /\ ~charIsWhitespace(t[Len(t)])
    <2>1. 1 \in 1..n /\ n \in 1..n /\ from + 1 - 1 = from /\ from + n - 1 = to
        BY <1>6, <1>11
    <2> QED
        BY <1>8, <1>12, <1>13, <2>1
<1>15. PICK i \in 0..len, j \in 0..len : i = from - 1 /\ j = len - to
    BY <1>6
<1>16. PICK u, w : u = SubSeq(s, 1, i) /\ w = SubSeq(s, len - j + 1, len)
    OBVIOUS
<1>17. u \in Seq(S) /\ Len(u) = i
    BY <1>1, <1>16
<1>18. w \in Seq(S) /\ Len(w) = j
    BY <1>1, <1>16
<1>19. \A k \in 1..i : u[k] = s[k]
    BY <1>1, <1>16
<1>20. \A k \in 1..j : w[k] = s[len - j + k]
    BY <1>1, <1>16
<1>21. stringIsNullOrWhitespace(u)
    <2>1. \A k \in 1..i : charIsWhitespace(s[k])
        BY <1>6, <1>7, <1>15
    <2>2. DOMAIN u = 1..i
        BY <1>17
    <2> QED
        BY <1>19, <2>1, <2>2 DEF stringIsNullOrWhitespace
<1>22. stringIsNullOrWhitespace(w)
    <2>1. \A k \in 1..j : charIsWhitespace(s[len - j + k])
        <3> TAKE k \in 1..j
        <3>1. len - j + k \in 1..len /\ len - j + k > to
            BY <1>6, <1>15
        <3> QED
            BY <1>7, <3>1
    <2>2. DOMAIN w = 1..j
        BY <1>18
    <2> QED
        BY <1>20, <2>1, <2>2 DEF stringIsNullOrWhitespace
<1>23. s = u \o t \o w
    <2>1. PICK v : v = u \o t
        OBVIOUS
    <2>2. v \in Seq(S) /\ Len(v) = i + n
        BY <1>12, <1>17, <2>1, ConcatProperties
    <2>3. \A k \in 1..(i + n) : v[k] = IF k <= i THEN u[k] ELSE t[k - i]
        BY <1>12, <1>17, <2>1, ConcatProperties
    <2>4. \A k \in 1..(i + n) : v[k] = s[k]
        <3> TAKE k \in 1..(i + n)
        <3>1. CASE k <= i
            BY <1>19, <2>3, <3>1
        <3>2. CASE ~(k <= i)
            <4>1. k - i \in 1..n /\ from + (k - i) - 1 = k
                BY <1>6, <1>15, <3>2
            <4> QED
                BY <1>13, <2>3, <3>2, <4>1
        <3> QED
            BY <3>1, <3>2
    <2>5. PICK x : x = v \o w
        OBVIOUS
    <2>6. x \in Seq(S) /\ Len(x) = i + n + j
        BY <1>18, <2>2, <2>5, ConcatProperties
    <2>7. \A k \in 1..(i + n + j) : x[k] = IF k <= i + n THEN v[k] ELSE w[k - (i + n)]
        BY <1>18, <2>2, <2>5, ConcatProperties
    <2>8. i + n + j = len /\ i + n = to /\ len - j = to
        BY <1>6, <1>11, <1>15
    <2>9. \A k \in 1..len : x[k] = s[k]
        <3> TAKE k \in 1..len
        <3>1. CASE k <= i + n
            BY <2>4, <2>7, <2>8, <3>1
        <3>2. CASE ~(k <= i + n)
            <4>1. k - (i + n) \in 1..j /\ len - j + (k - (i + n)) = k
                BY <2>8, <3>2
            <4> QED
                BY <1>20, <2>7, <2>8, <3>2, <4>1
        <3> QED
            BY <3>1, <3>2
    <2>10. x = s
        BY <1>1, <2>6, <2>8, <2>9, SeqEqual
    <2> QED
        BY <2>1, <2>5, <2>10
<1>24. \E a, b \in 0..Len(s) :
           /\ s = SubSeq(s, 1, a) \o t \o SubSeq(s, Len(s) - b + 1, Len(s))
           /\ stringIsNullOrWhitespace(SubSeq(s, 1, a))
           /\ stringIsNullOrWhitespace(SubSeq(s, Len(s) - b + 1, Len(s)))
    BY <1>1, <1>15, <1>16, <1>21, <1>22, <1>23, Zenon
<1> QED
    BY <1>9, <1>14, <1>24, Zenon

\* stringTrim takes all whitespace from both ends and nothing else, for every text.
THEOREM TrimIsExactCorrect == TextSpec => []TrimIsExact
<1>1. text \in Seq(Characters) => TrimIsExact
    BY TrimMeans, Zenon DEF TrimIsExact
<1> QED
    BY <1>1, TextTypeCorrect, PTL


(***************************************************************************)
(* Joining.                                                                *)
(***************************************************************************)
IsJoin(J, pieces, c) ==
    /\ J[1] = pieces[1]
    /\ \A i \in 2..Len(pieces) : J[i] = J[i - 1] \o <<c>> \o pieces[i]

LEMMA Between ==
    ASSUME NEW S, NEW c \in S, NEW u \in Seq(S), NEW w \in Seq(S)
    PROVE  u \o <<c>> \o w \in Seq(S)
<1>1. PICK o \in Seq(S) : o = <<c>>
    <2>1. <<c>> \in Seq(S)
        OBVIOUS
    <2> QED
        BY <2>1, Zenon
<1>2. u \o o \in Seq(S)
    BY ConcatProperties
<1>3. (u \o o) \o w \in Seq(S)
    BY <1>2, ConcatProperties
<1> QED
    BY <1>1, <1>3

IsPieces(a, S) == a \in Seq(Seq(S)) /\ a # <<>>

LEMMA PiecesAre ==
    ASSUME NEW S, NEW a, IsPieces(a, S)
    PROVE  Len(a) \in Nat \ {0} /\ \A i \in 1..Len(a) : a[i] \in Seq(S)
BY LenProperties, EmptySeq DEF IsPieces

\* stringJoinArray piece by piece.
LEMMA JoinSteps ==
    ASSUME NEW S, NEW c \in S, NEW pieces, IsPieces(pieces, S)
    PROVE  \E J \in [1..Len(pieces) -> Seq(S)] :
               IsJoin(J, pieces, c) /\ stringJoinArray(c, pieces) = J[Len(pieces)]
<1> DEFINE D == Seq(S)
           E(a, i) == a \o <<c>> \o pieces[i + 1]
           step(N) == [i \in 1..N |-> [a \in D |-> E(a, i)]]
           Is(J) == J = [i \in 1..Len(pieces) |->
                            IF i = 1 THEN pieces[1] ELSE J[i - 1] \o <<c>> \o pieces[i]]
<1>1. PICK n \in Nat \ {0}, N \in Nat : n = Len(pieces) /\ N = n - 1
    BY PiecesAre
<1>2. \A i \in 1..n : pieces[i] \in D
    BY <1>1, PiecesAre
<1>3. \A i \in 1..N, a \in D : E(a, i) \in D
    <2> SUFFICES ASSUME NEW i \in 1..N, NEW a \in D PROVE E(a, i) \in D
        OBVIOUS
    <2>1. i + 1 \in 1..n
        BY <1>1
    <2>2. PICK w \in D : w = pieces[i + 1]
        BY <1>2, <2>1
    <2>3. a \o <<c>> \o w \in Seq(S)
        BY Between
    <2> QED
        BY <2>2, <2>3
<1>4. StaysIn(step(N), D, N) /\ \A i \in 1..N, a \in D : step(N)[i][a] = E(a, i)
    BY <1>3 DEF StaysIn
<1>5. \E J : Is(J)
    <2>1. pieces[1] \in D
        BY <1>1, <1>2
    <2>2. PICK h : GoesBy(h, pieces[1], step(N), D, N)
        <3> HIDE DEF step, D
        <3> QED
            BY <1>4, <2>1, StepsExist
    <2>3. h \in [0..N -> D] /\ h[0] = pieces[1] /\ \A i \in 1..N : h[i] = step(N)[i][h[i - 1]]
        <3> HIDE DEF step, D
        <3> QED
            BY <1>4, <2>1, <2>2, StepsStay
    <2> DEFINE J == [i \in 1..n |-> h[i - 1]]
    <2>4. J[1] = pieces[1]
        BY <1>1, <2>3
    <2>5. \A i \in 2..n : J[i] = E(J[i - 1], i - 1)
        <3> TAKE i \in 2..n
        <3>1. i \in 1..n /\ i - 1 \in 1..n /\ i - 1 \in 1..N /\ (i - 1) - 1 \in 0..N
            BY <1>1
        <3>2. J[i] = h[i - 1] /\ J[i - 1] = h[(i - 1) - 1]
            BY <3>1
        <3> HIDE DEF J, step, E, D
        <3>3. h[(i - 1) - 1] \in D
            BY <2>3, <3>1
        <3> QED
            BY <1>4, <2>3, <3>1, <3>2, <3>3
    <2>6. J = [i \in 1..n |-> IF i = 1 THEN pieces[1] ELSE J[i - 1] \o <<c>> \o pieces[i]]
        <3>1. \A i \in 1..n : J[i] = IF i = 1 THEN pieces[1] ELSE J[i - 1] \o <<c>> \o pieces[i]
            <4> TAKE i \in 1..n
            <4>1. i # 1 => i \in 2..n /\ (i - 1) + 1 = i
                OBVIOUS
            <4> HIDE DEF J
            <4> QED
                BY <2>4, <2>5, <4>1
        <3>2. J = [i \in 1..n |-> J[i]]
            OBVIOUS
        <3> HIDE DEF J
        <3> QED
            BY <3>1, <3>2
    <2>7. Is(J)
        <3> HIDE DEF J
        <3> QED
            BY <1>1, <2>6
    <2> QED
        BY <2>7
<1>6. PICK J : J = CHOOSE h : Is(h)
    OBVIOUS
<1>7. Is(J)
    <2> HIDE DEF Is
    <2> QED
        BY <1>5, <1>6
<1>8. stringJoinArray(c, pieces) = J[n]
    BY <1>1, <1>6 DEF stringJoinArray
<1>9. J[1] = pieces[1] /\ \A i \in 2..n : J[i] = J[i - 1] \o <<c>> \o pieces[i]
    <2>1. \A i \in 2..n : i \in 1..n /\ i # 1
        OBVIOUS
    <2>2. 1 \in 1..n
        BY <1>1
    <2> QED
        BY <1>1, <1>7, <2>1, <2>2
<1>10. \A i \in 1..n : J[i] \in D
    <2> DEFINE Z == {k \in Nat : k + 1 <= n => J[k + 1] \in D}
    <2>1. 0 \in Z
        BY <1>1, <1>2, <1>9
    <2>2. \A k \in Z : k + 1 \in Z
        <3> SUFFICES ASSUME NEW k \in Z, (k + 1) + 1 <= n PROVE J[(k + 1) + 1] \in D
            OBVIOUS
        <3>1. k \in Nat /\ k + 1 <= n /\ k + 1 \in 1..N
            BY <1>1
        <3>2. PICK a \in D : a = J[k + 1]
            BY <3>1
        <3>3. E(a, k + 1) \in D
            BY <1>3, <3>1
        <3>4. PICK m : m = (k + 1) + 1
            OBVIOUS
        <3>5. m \in 2..n /\ m - 1 = k + 1
            BY <3>1, <3>4
        <3>6. J[m] = J[m - 1] \o <<c>> \o pieces[m]
            BY <1>9, <3>5
        <3> QED
            BY <3>2, <3>3, <3>4, <3>5, <3>6
    <2>3. Z = Nat
        <3> HIDE DEF Z
        <3>1. Z \subseteq Nat
            BY DEF Z
        <3> QED
            BY <2>1, <2>2, <3>1, ByCounting
    <2> TAKE i \in 1..n
    <2>4. i - 1 \in Nat /\ (i - 1) + 1 = i
        OBVIOUS
    <2>5. i - 1 \in Z
        <3> HIDE DEF Z
        <3> QED
            BY <2>3, <2>4
    <2>6. (i - 1) + 1 <= n
        BY <2>4
    <2>7. J[(i - 1) + 1] \in D
        BY <2>5, <2>6
    <2> QED
        BY <2>4, <2>7
<1>11. J \in [1..n -> D]
    BY <1>1, <1>7, <1>10
<1> QED
    BY <1>1, <1>8, <1>9, <1>11 DEF IsJoin

\* What is joined up to a piece depends on nothing but the pieces up to it.
SameUpTo(a, b, n) ==
    /\ n \in Nat /\ Len(a) \in Nat /\ Len(b) \in Nat /\ n <= Len(a) /\ n <= Len(b)
    /\ \A i \in 1..n : a[i] = b[i]

LEMMA JoinsAgree ==
    ASSUME NEW a, NEW b, NEW c, NEW J, NEW K, IsJoin(J, a, c), IsJoin(K, b, c),
           NEW n, SameUpTo(a, b, n)
    PROVE  \A i \in 1..n : J[i] = K[i]
<1>0. /\ n \in Nat /\ Len(a) \in Nat /\ Len(b) \in Nat /\ n <= Len(a) /\ n <= Len(b)
      /\ \A i \in 1..n : a[i] = b[i]
    BY DEF SameUpTo
<1> DEFINE Z == {k \in Nat : k + 1 <= n => J[k + 1] = K[k + 1]}
<1>1. 0 \in Z
    BY <1>0 DEF IsJoin
<1>2. \A k \in Z : k + 1 \in Z
    <2> SUFFICES ASSUME NEW k \in Z, (k + 1) + 1 <= n PROVE J[(k + 1) + 1] = K[(k + 1) + 1]
        OBVIOUS
    <2>1. PICK m : m = (k + 1) + 1
        OBVIOUS
    <2>2. k \in Nat /\ m \in 2..Len(a) /\ m \in 2..Len(b) /\ m \in 1..n /\ m - 1 = k + 1
          /\ J[m - 1] = K[m - 1]
        BY <1>0, <2>1
    <2>3. J[m] = J[m - 1] \o <<c>> \o a[m] /\ K[m] = K[m - 1] \o <<c>> \o b[m]
        BY <2>2 DEF IsJoin
    <2> QED
        BY <1>0, <2>1, <2>2, <2>3
<1>3. Z = Nat
    <2> HIDE DEF Z
    <2>1. Z \subseteq Nat
        BY DEF Z
    <2> QED
        BY <1>1, <1>2, <2>1, ByCounting
<1> TAKE i \in 1..n
<1>4. i - 1 \in Nat /\ (i - 1) + 1 = i
    OBVIOUS
<1>5. i - 1 \in Z
    <2> HIDE DEF Z
    <2> QED
        BY <1>3, <1>4
<1>6. J[(i - 1) + 1] = K[(i - 1) + 1]
    BY <1>4, <1>5
<1> QED
    BY <1>4, <1>6

LEMMA AppendedBehind ==
    ASSUME NEW S, NEW v \in Seq(S), NEW w \in Seq(S), NEW e \in S
    PROVE  v \o Append(w, e) = Append(v \o w, e)
<1>1. PICK o \in Seq(S) : o = <<e>>
    <2>1. <<e>> \in Seq(S)
        OBVIOUS
    <2> QED
        BY <2>1, Zenon
<1>2. v \o w \in Seq(S)
    BY ConcatProperties
<1>3. Append(w, e) = w \o o /\ Append(v \o w, e) = (v \o w) \o o
    BY <1>1, <1>2, AppendIsConcat
<1>4. (v \o w) \o o = v \o (w \o o)
    BY ConcatAssociative
<1> QED
    BY <1>3, <1>4

\* A piece more, and a character more in the last one.
Extended(a, b) == Len(b) = Len(a) + 1 /\ \A j \in 1..Len(a) : b[j] = a[j]

LEMMA JoinMore ==
    ASSUME NEW S, NEW c \in S, NEW a, IsPieces(a, S), NEW b, IsPieces(b, S),
           Extended(a, b)
    PROVE  stringJoinArray(c, b) = stringJoinArray(c, a) \o <<c>> \o b[Len(b)]
<1>0. Len(b) = Len(a) + 1 /\ \A j \in 1..Len(a) : b[j] = a[j]
    BY DEF Extended
<1>1. PICK n \in Nat \ {0}, m \in Nat : n = Len(a) /\ m = n + 1 /\ m = Len(b)
    BY <1>0, PiecesAre
<1>3. PICK J : IsJoin(J, a, c) /\ stringJoinArray(c, a) = J[n]
    BY <1>1, JoinSteps
<1>4. PICK K : IsJoin(K, b, c) /\ stringJoinArray(c, b) = K[m]
    BY <1>1, JoinSteps
<1>5. \A i \in 1..n : J[i] = K[i]
    <2>1. SameUpTo(a, b, n)
        BY <1>0, <1>1 DEF SameUpTo
    <2> QED
        BY <1>3, <1>4, <2>1, JoinsAgree
<1>6. K[m] = K[m - 1] \o <<c>> \o b[m]
    <2>1. m \in 2..Len(b)
        BY <1>1
    <2> QED
        BY <1>4, <2>1 DEF IsJoin
<1>7. K[m - 1] = J[n]
    <2>1. m - 1 = n /\ n \in 1..n
        BY <1>1
    <2> QED
        BY <1>5, <2>1
<1> QED
    BY <1>1, <1>3, <1>4, <1>6, <1>7

LEMMA JoinEmpty ==
    ASSUME NEW S, NEW c \in S, NEW a, IsPieces(a, S), NEW b, IsPieces(b, S), Extended(a, b),
           b[Len(b)] = <<>>, NEW u \in Seq(S), stringJoinArray(c, a) = u
    PROVE  stringJoinArray(c, b) = Append(u, c)
<1>1. stringJoinArray(c, b) = u \o <<c>> \o b[Len(b)]
    BY JoinMore, ZenonT(60)
<1>2. Append(u, c) = u \o <<c>> /\ Append(u, c) \in Seq(S)
    BY AppendIsConcat
<1>3. (u \o <<c>>) \o <<>> = u \o <<c>>
    BY <1>2, ConcatEmptySeq
<1> QED
    BY <1>1, <1>2, <1>3

Longer(a, b, e) ==
    Len(b) = Len(a) /\ b[Len(a)] = Append(a[Len(a)], e) /\ \A j \in 1..(Len(a) - 1) : b[j] = a[j]

LEMMA JoinLonger ==
    ASSUME NEW S, NEW c \in S, NEW e \in S, NEW a, IsPieces(a, S), NEW b, IsPieces(b, S),
           Longer(a, b, e)
    PROVE  stringJoinArray(c, b) = Append(stringJoinArray(c, a), e)
<1>0. Len(b) = Len(a) /\ \A j \in 1..(Len(a) - 1) : b[j] = a[j]
    BY Zenon DEF Longer
<1>01. b[Len(a)] = Append(a[Len(a)], e)
    BY Zenon DEF Longer
<1>1. PICK n \in Nat \ {0}, m \in Nat : n = Len(a) /\ m = n - 1
    <2>1. Len(a) \in Nat \ {0}
        BY PiecesAre
    <2>2. Len(a) - 1 \in Nat
        BY <2>1
    <2> QED
        BY <2>1, <2>2
<1>2. n = Len(b)
    BY <1>0, <1>1
<1>3. PICK J : J \in [1..n -> Seq(S)] /\ IsJoin(J, a, c) /\ stringJoinArray(c, a) = J[n]
    BY <1>1, JoinSteps
<1>4. PICK K : K \in [1..n -> Seq(S)] /\ IsJoin(K, b, c) /\ stringJoinArray(c, b) = K[n]
    BY <1>2, JoinSteps
<1>5. \A i \in 1..m : J[i] = K[i]
    <2>1. SameUpTo(a, b, m)
        BY <1>0, <1>1, <1>2 DEF SameUpTo
    <2>2. IsJoin(J, a, c) /\ IsJoin(K, b, c)
        BY <1>3, <1>4
    <2> QED
        BY <2>1, <2>2, JoinsAgree
<1>6. CASE n = 1
    <2>2. J[1] = a[1] /\ K[1] = b[1] /\ b[1] = Append(a[1], e)
        BY <1>01, <1>1, <1>3, <1>4, <1>6 DEF IsJoin
    <2> QED
        BY <1>1, <1>3, <1>4, <1>6, <2>2
<1>7. CASE n # 1
    <2>1. n \in 2..Len(a) /\ n \in 2..Len(b) /\ m \in 1..m /\ n - 1 = m /\ m \in 1..n /\ n \in 1..n
        BY <1>1, <1>2, <1>7
    <2>2. J[n] = J[m] \o <<c>> \o a[n] /\ K[n] = K[m] \o <<c>> \o b[n]
        <3>1. J[n] = J[n - 1] \o <<c>> \o a[n] /\ K[n] = K[n - 1] \o <<c>> \o b[n]
            BY <1>3, <1>4, <2>1 DEF IsJoin
        <3> QED
            BY <2>1, <3>1
    <2>3. K[m] = J[m] /\ J[m] \in Seq(S)
        BY <1>3, <1>5, <2>1
    <2>4. PICK v \in Seq(S) : v = J[m] \o <<c>>
        <3>1. PICK u \in Seq(S), o \in Seq(S) : u = J[m] /\ o = <<c>>
            <4>1. <<c>> \in Seq(S)
                OBVIOUS
            <4> QED
                BY <2>3, <4>1
        <3>2. u \o o \in Seq(S)
            BY ConcatProperties
        <3> QED
            BY <3>1, <3>2
    <2>5. PICK w \in Seq(S) : w = a[n]
        <3>1. a[n] \in Seq(S)
            BY <1>1, PiecesAre
        <3> QED
            BY <3>1, Zenon
    <2>6. v \o Append(w, e) = Append(v \o w, e)
        BY AppendedBehind
    <2> QED
        BY <1>01, <1>1, <1>3, <1>4, <2>2, <2>3, <2>4, <2>5, <2>6
<1> QED
    BY <1>6, <1>7

\* What stringSplit has split joins up to the text it has come to, and holds no
\* separator but one at the end of the text.
SplitUpTo(pieces, s, c, i) ==
    /\ stringJoinArray(c, pieces) = SubSeq(s, 1, i)
    /\ \A k \in 1..Len(pieces) : \A j \in 1..Len(pieces[k]) :
           pieces[k][j] = c => i = Len(s) /\ k = Len(pieces) /\ j = Len(pieces[k])

LEMMA SplitJoins ==
    ASSUME NEW S, NEW c \in S, NEW s \in Seq(S), NEW g \in [0..Len(s) -> Seq(Seq(S)) \ {<<>>}],
           IsSplit(g, s, c, Len(s))
    PROVE  \A i \in 0..Len(s) : SplitUpTo(g[i], s, c, i)
<1>1. PICK len \in Nat : len = Len(s)
    BY LenProperties
<1>2. \A i \in 1..len : Splits(g[i - 1], g[i], s, c, i)
    BY <1>1, SplitStep
<1>3. \A i \in 0..len : IsPieces(g[i], S)
    BY <1>1 DEF IsPieces
<1>4. \A i \in 1..len : s[i] \in S
    BY <1>1
<1> DEFINE Joins(i) == stringJoinArray(c, g[i]) = SubSeq(s, 1, i)
           Clean(i) == \A k \in 1..Len(g[i]) : \A j \in 1..Len(g[i][k]) :
                           g[i][k][j] = c => i = len /\ k = Len(g[i]) /\ j = Len(g[i][k])
<1>5. Joins(0) /\ Clean(0)
    <2>1. PICK a : a = g[0]
        OBVIOUS
    <2>2. a = <<<<>>>> /\ Len(a) = 1 /\ a[1] = <<>> /\ IsPieces(a, S)
        <3>1. 0 \in 0..len
            OBVIOUS
        <3>2. a = <<<<>>>>
            BY <2>1, Zenon DEF IsSplit
        <3>3. IsPieces(a, S)
            BY <1>3, <2>1, <3>1
        <3> QED
            BY <3>2, <3>3
    <2>3. PICK J : IsJoin(J, a, c) /\ stringJoinArray(c, a) = J[1]
        BY <2>2, JoinSteps
    <2>4. J[1] = <<>>
        BY <2>2, <2>3 DEF IsJoin
    <2>5. SubSeq(s, 1, 0) = <<>>
        BY <1>1
    <2>6. Joins(0)
        BY <2>1, <2>3, <2>4, <2>5
    <2>7. Clean(0)
        <3>1. \A k \in 1..Len(a) : \A j \in 1..Len(a[k]) : FALSE
            <4> SUFFICES ASSUME NEW k \in 1..Len(a), NEW j \in 1..Len(a[k]) PROVE FALSE
                OBVIOUS
            <4>1. k = 1 /\ Len(a[k]) = 0
                BY <2>2
            <4> QED
                BY <4>1
        <3> QED
            BY <2>1, <3>1
    <2> QED
        BY <2>6, <2>7
<1>6. ASSUME NEW i \in Nat, i + 1 <= len, Joins(i), Clean(i) PROVE Joins(i + 1) /\ Clean(i + 1)
    <2>1. PICK n \in 1..len : n = i + 1 /\ n - 1 = i
        BY <1>6
    <2>2. i \in 0..len /\ n \in 0..len /\ i # len
        BY <1>6, <2>1
    <2>3. PICK a, b : a = g[i] /\ b = g[n]
        OBVIOUS
    <2>4. IsPieces(a, S) /\ IsPieces(b, S) /\ Splits(a, b, s, c, n) /\ s[n] \in S
        BY <1>2, <1>3, <1>4, <2>1, <2>2, <2>3
    <2>5. \A k \in 1..Len(a) : \A j \in 1..Len(a[k]) : a[k][j] # c
        BY <1>6, <2>2, <2>3
    <2>6. SubSeq(s, 1, n) = Append(SubSeq(s, 1, i), s[n])
        BY <1>1, <2>1
    <2>7. stringJoinArray(c, a) = SubSeq(s, 1, i) /\ SubSeq(s, 1, i) \in Seq(S)
        BY <1>1, <1>6, <2>2, <2>3
    <2>8. Len(a) \in Nat \ {0} /\ \A k \in 1..Len(a) : a[k] \in Seq(S)
        BY <2>4, PiecesAre
    <2>9. ASSUME n < Len(s) /\ s[n] = c
          PROVE  /\ stringJoinArray(c, b) = SubSeq(s, 1, n)
                 /\ \A k \in 1..Len(b) : \A j \in 1..Len(b[k]) : b[k][j] # c
        <3>1. /\ Len(b) = Len(a) + 1 /\ b[Len(a) + 1] = <<>>
              /\ \A j \in 1..Len(a) : b[j] = a[j]
            BY <2>4, <2>9 DEF Splits
        <3>2. Extended(a, b) /\ b[Len(b)] = <<>>
            BY <3>1 DEF Extended
        <3>3. IsPieces(a, S) /\ IsPieces(b, S) /\ stringJoinArray(c, a) \in Seq(S)
            BY <2>4, <2>7
        <3>4. stringJoinArray(c, b) = SubSeq(s, 1, n)
            <4>1. stringJoinArray(c, b) = Append(stringJoinArray(c, a), c)
                BY <3>2, <3>3, JoinEmpty, Zenon
            <4> QED
                BY <2>6, <2>7, <2>9, <4>1
        <3>5. \A k \in 1..Len(b) : \A j \in 1..Len(b[k]) : b[k][j] # c
            <4> SUFFICES ASSUME NEW k \in 1..Len(b), NEW j \in 1..Len(b[k]) PROVE b[k][j] # c
                OBVIOUS
            <4>1. CASE k = Len(a) + 1
                <5>1. Len(b[k]) = 0
                    BY <3>1, <4>1
                <5> QED
                    BY <5>1
            <4>2. CASE k # Len(a) + 1
                <5>1. k \in 1..Len(a)
                    BY <2>8, <3>1, <4>2
                <5> QED
                    BY <2>5, <3>1, <5>1
            <4> QED
                BY <4>1, <4>2
        <3> QED
            BY <3>4, <3>5
    <2>10. ASSUME ~(n < Len(s) /\ s[n] = c)
           PROVE  /\ stringJoinArray(c, b) = SubSeq(s, 1, n)
                  /\ \A k \in 1..Len(b) : \A j \in 1..Len(b[k]) :
                         b[k][j] = c => n = len /\ k = Len(b) /\ j = Len(b[k])
        <3>1. /\ Len(b) = Len(a) /\ b[Len(a)] = Append(a[Len(a)], s[n])
              /\ \A j \in 1..(Len(a) - 1) : b[j] = a[j]
            BY <2>4, <2>10, Zenon DEF Splits
        <3>2. Longer(a, b, s[n])
            BY <3>1, Zenon DEF Longer
        <3>3. stringJoinArray(c, b) = Append(stringJoinArray(c, a), s[n])
            BY <2>4, <3>2, JoinLonger
        <3>4. \A k \in 1..Len(b) : \A j \in 1..Len(b[k]) :
                  b[k][j] = c => n = len /\ k = Len(b) /\ j = Len(b[k])
            <4> SUFFICES ASSUME NEW k \in 1..Len(b), NEW j \in 1..Len(b[k]), b[k][j] = c
                         PROVE  n = len /\ k = Len(b) /\ j = Len(b[k])
                OBVIOUS
            <4>1. CASE k # Len(a)
                <5>1. k \in 1..(Len(a) - 1) /\ k \in 1..Len(a)
                    BY <2>8, <3>1, <4>1
                <5> QED
                    BY <2>5, <3>1, <5>1
            <4>2. CASE k = Len(a)
                <5>1. PICK w \in Seq(S), e \in S : w = a[k] /\ e = s[n]
                    BY <2>4, <2>8, <4>2
                <5>2. b[k] = Append(w, e)
                    BY <3>1, <4>2, <5>1
                <5>3. Len(w) \in Nat /\ Len(b[k]) = Len(w) + 1 /\ b[k][Len(w) + 1] = e
                      /\ \A x \in 1..Len(w) : b[k][x] = w[x]
                    BY <5>2
                <5>4. CASE j = Len(w) + 1
                    <6>1. e = c
                        BY <5>3, <5>4
                    <6>2. n = len
                        BY <1>1, <2>10, <5>1, <6>1
                    <6> QED
                        BY <3>1, <4>2, <5>3, <5>4, <6>2
                <5>5. CASE j # Len(w) + 1
                    <6>1. j \in 1..Len(w)
                        BY <5>3, <5>5
                    <6>2. w[j] = c
                        BY <5>3, <6>1
                    <6>3. k \in 1..Len(a)
                        BY <2>8, <4>2
                    <6> QED
                        BY <2>5, <5>1, <6>1, <6>2, <6>3
                <5> QED
                    BY <5>4, <5>5
            <4> QED
                BY <4>1, <4>2
        <3> QED
            BY <2>6, <2>7, <3>3, <3>4
    <2>11. stringJoinArray(c, b) = SubSeq(s, 1, n)
        BY <2>9, <2>10
    <2>12. \A k \in 1..Len(b) : \A j \in 1..Len(b[k]) :
               b[k][j] = c => n = len /\ k = Len(b) /\ j = Len(b[k])
        BY <2>9, <2>10
    <2> QED
        BY <2>1, <2>3, <2>11, <2>12
<1> DEFINE Z == {i \in Nat : i <= len => Joins(i) /\ Clean(i)}
<1>7. Z = Nat
    <2> HIDE DEF Joins, Clean
    <2>1. 0 \in Z
        BY <1>5
    <2>2. \A i \in Z : i + 1 \in Z
        <3> SUFFICES ASSUME NEW i \in Z, i + 1 <= len PROVE Joins(i + 1) /\ Clean(i + 1)
            OBVIOUS
        <3>1. i \in Nat /\ i <= len
            OBVIOUS
        <3> QED
            BY <1>6, <3>1
    <2>3. Z \subseteq Nat
        OBVIOUS
    <2> HIDE DEF Z
    <2> QED
        BY <2>1, <2>2, <2>3, ByCounting
<1>8. \A i \in 0..len : Joins(i) /\ Clean(i)
    <2> HIDE DEF Joins, Clean
    <2> TAKE i \in 0..len
    <2>1. i \in Z
        <3>1. i \in Nat
            OBVIOUS
        <3> HIDE DEF Z
        <3> QED
            BY <1>7, <3>1
    <2> QED
        BY <2>1
<1> QED
    BY <1>1, <1>8 DEF SplitUpTo

IsSplitOf(pieces, s, c) ==
    /\ pieces # <<>> /\ stringJoinArray(c, pieces) = s
    /\ \A i \in DOMAIN pieces : \A j \in DOMAIN pieces[i] :
           pieces[i][j] = c => i = Len(pieces) /\ j = Len(pieces[i])

LEMMA SplitMeans ==
    ASSUME NEW T, NEW s \in Seq(T), NEW c
    PROVE  IsSplitOf(stringSplit(s, c), s, c)
<1> DEFINE S == T \cup {c}
<1>1. s \in Seq(S) /\ c \in S
    OBVIOUS
<1> HIDE DEF S
<1>2. PICK len \in Nat : len = Len(s)
    BY LenProperties
<1>3. PICK g \in [0..Len(s) -> Seq(Seq(S)) \ {<<>>}] :
          IsSplit(g, s, c, Len(s)) /\ stringSplit(s, c) = g[Len(s)]
    BY <1>1, SplitSteps
<1>4. PICK pieces : pieces = g[len]
    OBVIOUS
<1>5. len \in 0..Len(s)
    BY <1>2
<1>6. /\ stringJoinArray(c, pieces) = SubSeq(s, 1, len)
      /\ \A k \in 1..Len(pieces) : \A j \in 1..Len(pieces[k]) :
             pieces[k][j] = c => k = Len(pieces) /\ j = Len(pieces[k])
    <2>1. SplitUpTo(pieces, s, c, len)
        BY <1>1, <1>3, <1>4, <1>5, SplitJoins
    <2> QED
        BY <2>1, Zenon DEF SplitUpTo
<1>7. SubSeq(s, 1, len) = s
    BY <1>2
<1>8. pieces = stringSplit(s, c) /\ IsPieces(pieces, S)
    BY <1>2, <1>3, <1>4, <1>5 DEF IsPieces
<1>9. \A i \in DOMAIN pieces : i \in 1..Len(pieces) /\ DOMAIN pieces[i] = 1..Len(pieces[i])
    BY <1>8 DEF IsPieces
<1>10. pieces # <<>>
    BY <1>8 DEF IsPieces
<1>11. \A i \in DOMAIN pieces : \A j \in DOMAIN pieces[i] :
           pieces[i][j] = c => i = Len(pieces) /\ j = Len(pieces[i])
    BY <1>6, <1>9
<1> QED
    BY <1>6, <1>7, <1>8, <1>10, <1>11, Zenon DEF IsSplitOf

\* stringSplit loses nothing: what it makes of any text is that text when joined again.
THEOREM SplitRejoinsCorrect == TextSpec => []SplitRejoins
<1>1. text \in Seq(Characters) => SplitRejoins
    <2> SUFFICES ASSUME text \in Seq(Characters) PROVE SplitRejoins
        OBVIOUS
    <2>1. PICK pieces : pieces = stringSplit(text, " ")
        OBVIOUS
    <2>2. /\ pieces # <<>> /\ stringJoinArray(" ", pieces) = text
          /\ \A i \in DOMAIN pieces : \A j \in DOMAIN pieces[i] :
                 pieces[i][j] = " " => i = Len(pieces) /\ j = Len(pieces[i])
        <3>1. IsSplitOf(pieces, text, " ")
            BY <2>1, SplitMeans
        <3> QED
            BY <3>1, Zenon DEF IsSplitOf
    <2>3. stringJoinArgs(" ", pieces) = text
        BY <2>2, Zenon DEF stringJoinArgs
    <2> QED
        BY <2>1, <2>2, <2>3, Zenon DEF SplitRejoins
<1> QED
    BY <1>1, TextTypeCorrect, PTL


(***************************************************************************)
(* Numbers.                                                                *)
(***************************************************************************)
LEMMA IndexInIs ==
    ASSUME NEW s, NEW c, In(c, s)
    PROVE  IndexIn(c, s) \in DOMAIN s /\ s[IndexIn(c, s)] = c
BY DEF In, IndexIn

LEMMA DigitTable ==
    /\ DOMAIN Digits = 1..10
    /\ DOMAIN Lower = 1..7 /\ DOMAIN Upper = 1..7
<1>1. DOMAIN Digits = 1..10
    BY DEF Digits
<1>2. DOMAIN Lower = 1..7
    BY DEF Lower
<1>3. DOMAIN Upper = 1..7
    BY DEF Upper
<1> QED
    BY <1>1, <1>2, <1>3

LEMMA NoDigits == ~charIsDigit("-") /\ ~charIsDigit("x")
<1>1. \A i \in 1..10 : Digits[i] # "-" /\ Digits[i] # "x"
    BY DEF Digits
<1> QED
    BY <1>1, DigitTable DEF charIsDigit, In

LEMMA LowerOfHex ==
    ASSUME NEW c, charIsHexDigit(c)
    PROVE  In(charToLower(c), Lower)
<1>1. CASE In(c, Upper)
    <2>1. PICK i \in DOMAIN Upper : i = IndexIn(c, Upper)
        BY <1>1, IndexInIs
    <2>2. charToLower(c) = Lower[i] /\ i \in DOMAIN Lower
        BY <1>1, <2>1, DigitTable DEF charToLower
    <2> QED
        BY <2>2 DEF In
<1>2. CASE ~In(c, Upper)
    <2>1. charToLower(c) = c
        BY <1>2 DEF charToLower
    <2>2. \A i \in DOMAIN SubSeq(Upper, 1, 6) : i \in DOMAIN Upper /\ SubSeq(Upper, 1, 6)[i] = Upper[i]
        BY DEF Upper
    <2>3. \A i \in DOMAIN SubSeq(Lower, 1, 6) : i \in DOMAIN Lower /\ SubSeq(Lower, 1, 6)[i] = Lower[i]
        BY DEF Lower
    <2>4. ~In(c, SubSeq(Upper, 1, 6))
        BY <1>2, <2>2 DEF In
    <2>5. In(c, SubSeq(Lower, 1, 6))
        BY <2>4 DEF charIsHexDigit
    <2>6. In(c, Lower)
        BY <2>3, <2>5 DEF In
    <2> QED
        BY <2>1, <2>6
<1> QED
    BY <1>1, <1>2

LEMMA CharValues ==
    ASSUME NEW c, NEW base
    PROVE  CharValue(c, base) \in Int
<1>1. CASE charIsDigit(c)
    <2>1. IndexIn(c, Digits) \in 1..10
        BY <1>1, IndexInIs, DigitTable DEF charIsDigit
    <2>2. CharValue(c, base) = IndexIn(c, Digits) - 1 \/ CharValue(c, base) = IndexIn(charToLower(c), Lower) + 9
        BY <1>1 DEF CharValue
    <2>3. charIsHexDigit(c) => IndexIn(charToLower(c), Lower) \in 1..7
        BY LowerOfHex, IndexInIs, DigitTable
    <2> QED
        BY <1>1, <2>1, <2>3 DEF CharValue
<1>2. CASE ~charIsDigit(c) /\ base = 16 /\ charIsHexDigit(c)
    <2>1. IndexIn(charToLower(c), Lower) \in 1..7
        BY <1>2, LowerOfHex, IndexInIs, DigitTable
    <2> QED
        BY <1>2, <2>1 DEF CharValue
<1>3. CASE ~charIsDigit(c) /\ ~(base = 16 /\ charIsHexDigit(c))
    BY <1>3 DEF CharValue
<1> QED
    BY <1>1, <1>2, <1>3

LEMMA PowerIs ==
    ASSUME NEW base \in Int
    PROVE  /\ ToThe(base, 0) = 1
           /\ \A n \in Nat : ToThe(base, n) \in Int /\ ToThe(base, n + 1) = ToThe(base, n) * base
<1> DEFINE step(n) == [i \in 1..n |-> [x \in Int |-> x * base]]
           Is(f, n) == f = [i \in 0..n |-> IF i = 0 THEN 1 ELSE f[i - 1] * base]
           P(n) == CHOOSE f : Is(f, n)
           D == Int
<1>0. PICK one \in D : one = 1
    OBVIOUS
<1>1. \A n \in Nat : StaysIn(step(n), D, n)
    BY DEF StaysIn
<1>2. ASSUME NEW n \in Nat, NEW f, Is(f, n) PROVE GoesBy(f, one, step(n), D, n)
    <2>1. f = [i \in 0..n |-> f[i]] /\ f[0] = one
        BY <1>0, <1>2
    <2>2. \A i \in 1..n : f[i] = f[i - 1] * base
        <3>1. \A i \in 1..n : i \in 0..n /\ i # 0
            OBVIOUS
        <3> QED
            BY <1>2, <3>1
    <2>3. \A i \in 1..n : f[i - 1] \in D => f[i] = step(n)[i][f[i - 1]]
        BY <2>2
    <2> HIDE DEF Is, step, D
    <2> QED
        BY <2>1, <2>3 DEF GoesBy
<1>3. ASSUME NEW n \in Nat PROVE \E f : Is(f, n)
    <2>1. PICK f : GoesBy(f, one, step(n), D, n)
        <3> HIDE DEF step, D
        <3> QED
            BY <1>1, StepsExist
    <2>2. f \in [0..n -> Int] /\ f[0] = 1 /\ \A i \in 1..n : f[i] = step(n)[i][f[i - 1]]
        <3> HIDE DEF step, D
        <3>1. f \in [0..n -> D] /\ f[0] = one /\ \A i \in 1..n : f[i] = step(n)[i][f[i - 1]]
            BY <1>1, <2>1, StepsStay
        <3> QED
            BY <1>0, <3>1 DEF D
    <2>3. \A i \in 1..n : f[i] = f[i - 1] * base
        <3> TAKE i \in 1..n
        <3>1. f[i - 1] \in Int
            <4>1. i - 1 \in 0..n
                OBVIOUS
            <4> QED
                BY <2>2, <4>1
        <3> QED
            BY <2>2, <3>1
    <2>4. Is(f, n)
        <3>1. \A i \in 0..n : i # 0 => i \in 1..n
            OBVIOUS
        <3> QED
            BY <2>2, <2>3, <3>1
    <2> QED
        BY <2>4
<1>4. \A n \in Nat : ToThe(base, n) = P(n)[n]
    BY DEF ToThe
<1>5. \A n \in Nat : GoesBy(P(n), one, step(n), D, n)
    <2> TAKE n \in Nat
    <2>1. Is(P(n), n)
        <3> HIDE DEF Is
        <3> QED
            BY <1>3
    <2> HIDE DEF P, Is, step, D
    <2> QED
        BY <1>2, <2>1
<1>6. ASSUME NEW n \in Nat
      PROVE  /\ P(n) \in [0..n -> Int] /\ P(n)[0] = 1
             /\ \A i \in 1..n : P(n)[i] = step(n)[i][P(n)[i - 1]]
    <2> HIDE DEF P, step, D
    <2>1. PICK f, st : f = P(n) /\ st = step(n)
        OBVIOUS
    <2>2. GoesBy(f, one, st, D, n) /\ StaysIn(st, D, n)
        BY <1>1, <1>5, <2>1
    <2>3. f \in [0..n -> D] /\ f[0] = one /\ \A i \in 1..n : f[i] = st[i][f[i - 1]]
        BY <2>2, StepsStay
    <2> QED
        BY <1>0, <2>1, <2>3 DEF D
<1>7. ToThe(base, 0) = 1
    <2> HIDE DEF P, step, D
    <2> QED
        BY <1>4, <1>6
<1>8. ASSUME NEW n \in Nat
      PROVE  ToThe(base, n) \in Int /\ ToThe(base, n + 1) = ToThe(base, n) * base
    <2>1. PICK m \in Nat : m = n + 1 /\ n <= m /\ m \in 1..m /\ m - 1 = n /\ n \in 0..n
        OBVIOUS
    <2>2. PICK f, h : f = P(n) /\ h = P(m)
        OBVIOUS
    <2>3. f \in [0..n -> Int] /\ h \in [0..m -> Int] /\ h[m] = step(m)[m][h[n]]
        <3> HIDE DEF P, step, D
        <3> QED
            BY <1>6, <2>1, <2>2
    <2>4. \A i \in 1..n : step(n)[i] = step(m)[i]
        <3>1. \A i \in 1..n : i \in 1..m
            BY <2>1
        <3> QED
            BY <3>1
    <2>5. \A i \in 0..n : f[i] = h[i]
        <3> HIDE DEF P, D
        <3>0. PICK st, tt : st = step(n) /\ tt = step(m)
            OBVIOUS
        <3> HIDE DEF step
        <3>1. GoesBy(f, one, st, D, n) /\ GoesBy(h, one, tt, D, m)
            BY <1>5, <2>2, <3>0
        <3>2. StaysIn(st, D, n) /\ StaysIn(tt, D, m)
            BY <1>1, <3>0
        <3>3. (\A i \in 1..n : st[i] = tt[i]) /\ m \in Nat /\ n <= m
            BY <2>1, <2>4, <3>0
        <3> QED
            BY <3>1, <3>2, <3>3, StepsAgree
    <2>6. f[n] \in Int /\ h[m] = f[n] * base
        <3>1. h[n] = f[n] /\ f[n] \in Int
            BY <2>1, <2>3, <2>5
        <3> QED
            BY <2>1, <2>3, <3>1
    <2> HIDE DEF P
    <2> QED
        BY <1>4, <2>1, <2>2, <2>6
<1> QED
    BY <1>7, <1>8

\* Powers are added by multiplying, and grow.
LEMMA PowersAdd ==
    ASSUME NEW base \in Int, NEW m \in Nat, NEW n \in Nat
    PROVE  ToThe(base, m + n) = ToThe(base, m) * ToThe(base, n)
<1> DEFINE Z == {k \in Nat : ToThe(base, m + k) = ToThe(base, m) * ToThe(base, k)}
<1>1. 0 \in Z
    <2>1. m + 0 = m /\ ToThe(base, 0) = 1 /\ ToThe(base, m) \in Int
        BY PowerIs
    <2> QED
        BY <2>1
<1>2. \A k \in Z : k + 1 \in Z
    <2> SUFFICES ASSUME NEW k \in Z
                 PROVE  ToThe(base, m + (k + 1)) = ToThe(base, m) * ToThe(base, k + 1)
        OBVIOUS
    <2>1. k \in Nat /\ m + k \in Nat /\ m + (k + 1) = (m + k) + 1
        OBVIOUS
    <2>2. PICK a \in Int, b \in Int : a = ToThe(base, m) /\ b = ToThe(base, k)
        BY <2>1, PowerIs
    <2>3. ToThe(base, m + (k + 1)) = ToThe(base, m + k) * base
        BY <2>1, PowerIs
    <2>4. ToThe(base, k + 1) = b * base
        BY <2>1, <2>2, PowerIs
    <2>5. ToThe(base, m + k) = a * b
        BY <2>2
    <2>6. (a * b) * base = a * (b * base)
        OBVIOUS
    <2> QED
        BY <2>2, <2>3, <2>4, <2>5, <2>6
<1>3. Z \subseteq Nat
    OBVIOUS
<1>4. n \in Z
    <2> HIDE DEF Z
    <2> QED
        BY <1>1, <1>2, <1>3, ByCounting
<1> QED
    BY <1>4

LEMMA PowersGrow ==
    ASSUME NEW base \in Nat, base >= 1
    PROVE  /\ \A n \in Nat : ToThe(base, n) \in Nat /\ ToThe(base, n) >= 1
           /\ \A m, n \in Nat : m <= n => ToThe(base, m) <= ToThe(base, n)
<1> DEFINE Z == {k \in Nat : ToThe(base, k) \in Nat /\ ToThe(base, k) >= 1}
<1>1. 0 \in Z
    BY PowerIs
<1>2. \A k \in Z : k + 1 \in Z
    <2> SUFFICES ASSUME NEW k \in Z
                 PROVE  ToThe(base, k + 1) \in Nat /\ ToThe(base, k + 1) >= 1
        OBVIOUS
    <2>1. PICK a \in Nat : a = ToThe(base, k) /\ a >= 1
        OBVIOUS
    <2>2. ToThe(base, k + 1) = a * base
        BY <2>1, PowerIs
    <2>3. a * base \in Nat /\ a * base >= 1
        BY <2>1
    <2> QED
        BY <2>2, <2>3
<1>3. Z \subseteq Nat
    OBVIOUS
<1>4. Z = Nat
    <2> HIDE DEF Z
    <2> QED
        BY <1>1, <1>2, <1>3, ByCounting
<1>5. \A n \in Nat : ToThe(base, n) \in Nat /\ ToThe(base, n) >= 1
    BY <1>4
<1>6. ASSUME NEW m \in Nat, NEW n \in Nat, m <= n PROVE ToThe(base, m) <= ToThe(base, n)
    <2>1. PICK d \in Nat : n = m + d
        <3>1. n - m \in Nat /\ n = m + (n - m)
            BY <1>6
        <3> QED
            BY <3>1
    <2>2. PICK a \in Nat, b \in Nat : a = ToThe(base, m) /\ b = ToThe(base, d) /\ b >= 1
        BY <1>5
    <2>3. ToThe(base, n) = a * b
        BY <2>1, <2>2, PowersAdd
    <2>4. a * b >= a
        BY <2>2
    <2> QED
        BY <2>2, <2>3, <2>4
<1> QED
    BY <1>5, <1>6

\* The halves of numbers.
LEMMA HalfOf ==
    ASSUME NEW e \in Nat
    PROVE  /\ e \div 2 \in Nat /\ 2 * (e \div 2) <= e
           /\ e % 2 = 0 => e = 2 * (e \div 2) /\ (e > 0 => e \div 2 < e)
           /\ e % 2 # 0 => /\ e = 2 * (e \div 2) + 1 /\ e - 1 \in Nat
                           /\ (e - 1) \div 2 = e \div 2 /\ e - 1 < e
    OBVIOUS

\* What pow returns: the power, unless the square it comes from is none.
LEMMA PowIs ==
    ASSUME NEW base \in Nat, base >= 1, NEW y \in Nat
    PROVE  pow(base, y) = IF ToThe(base, 2 * (y \div 2)) < FloatMax THEN ToThe(base, y)
                                                                    ELSE Infinite
<1> DEFINE B(f, e) == IF e = 0 THEN 1
                      ELSE IF e % 2 = 0 THEN Squared(f[e \div 2])
                      ELSE IF f[e - 1] = Infinite THEN Infinite ELSE base * f[e - 1]
           Is(f) == f = [e \in 0..y |-> B(f, e)]
           G == [e \in 0..y |-> IF ToThe(base, 2 * (e \div 2)) < FloatMax THEN ToThe(base, e)
                                                                          ELSE Infinite]
<1>1. pow(base, y) = (CHOOSE f : Is(f))[y]
    BY DEF pow
<1>2. \A f : B(f, 0) = 1
    OBVIOUS
<1>3. \A f : \A e \in Nat : e > 0 /\ e % 2 = 0 => B(f, e) = Squared(f[e \div 2])
    OBVIOUS
<1>4. \A f : \A e \in Nat : e % 2 # 0 =>
          B(f, e) = IF f[e - 1] = Infinite THEN Infinite ELSE base * f[e - 1]
    <2>1. \A e \in Nat : e % 2 # 0 => e > 0
        BY HalfOf
    <2> QED
        BY <2>1
<1> HIDE DEF B
<1>5. ASSUME NEW e \in 0..y PROVE G[e] = B(G, e)
    <2>0. e \in Nat /\ e \div 2 \in 0..y
        BY HalfOf
    <2>1. PICK h \in Nat : h = e \div 2 /\ h \in 0..y
        BY <2>0
    <2>2. PICK low \in Nat, full \in Nat : low = ToThe(base, h) /\ full = ToThe(base, 2 * h) /\ low >= 1
        <3>1. h \in Nat /\ 2 * h \in Nat
            BY <2>1
        <3> QED
            BY <3>1, PowersGrow
    <2>3. full = low * low
        <3>1. 2 * h = h + h
            OBVIOUS
        <3> QED
            BY <2>2, <3>1, PowersAdd
    <2>4. FloatMax \in Nat /\ 1 < FloatMax
        BY NumeralsAssumption
    <2>5. CASE e = 0
        <3>1. h = 0 /\ 2 * h = 0
            BY <2>1, <2>5
        <3>2. G[e] = 1
            BY <2>1, <2>4, <2>5, <3>1, PowerIs
        <3> QED
            BY <1>2, <2>5, <3>2
    <2>6. CASE e > 0 /\ e % 2 = 0
        <3>1. e = 2 * h
            BY <2>0, <2>1, <2>6, HalfOf
        <3>2. G[e] = IF full < FloatMax THEN full ELSE Infinite
            BY <2>1, <2>2, <3>1
        <3>3. PICK quarter \in Nat : quarter = ToThe(base, 2 * (h \div 2)) /\ quarter <= full
            <4>1. h \div 2 \in Nat /\ 2 * (h \div 2) \in Nat /\ 2 * (h \div 2) <= 2 * h
                BY HalfOf
            <4> QED
                BY <2>2, <4>1, PowersGrow
        <3>4. G[h] = IF quarter < FloatMax THEN low ELSE Infinite
            BY <2>1, <2>2, <3>3
        <3>5. Squared(G[h]) = IF full < FloatMax THEN full ELSE Infinite
            <4>1. CASE quarter < FloatMax
                <5>1. G[h] = low /\ low # Infinite
                    BY <2>2, <3>4, <4>1 DEF Infinite
                <5> QED
                    BY <2>2, <2>3, <2>4, <5>1 DEF Squared
            <4>2. CASE ~(quarter < FloatMax)
                <5>1. G[h] = Infinite /\ ~(full < FloatMax)
                    BY <2>4, <3>3, <3>4, <4>2
                <5> QED
                    BY <5>1 DEF Squared
            <4> QED
                BY <4>1, <4>2
        <3>6. B(G, e) = Squared(G[h])
            <4> HIDE DEF G
            <4> QED
                BY <1>3, <2>0, <2>1, <2>6
        <3> QED
            BY <3>2, <3>5, <3>6
    <2>7. CASE e % 2 # 0
        <3>1. e = 2 * h + 1 /\ e - 1 \in Nat /\ (e - 1) \div 2 = h /\ e - 1 \in 0..y /\ e - 1 = 2 * h
            BY <2>0, <2>1, <2>7, HalfOf
        <3>2. G[e - 1] = IF full < FloatMax THEN full ELSE Infinite
            BY <2>2, <3>1
        <3>3. ToThe(base, e) = full * base
            BY <2>2, <3>1, PowerIs
        <3>4. G[e] = IF full < FloatMax THEN full * base ELSE Infinite
            BY <2>1, <2>2, <3>3
        <3>5. full # Infinite /\ full * base = base * full
            BY <2>2 DEF Infinite
        <3>6. B(G, e) = IF G[e - 1] = Infinite THEN Infinite ELSE base * G[e - 1]
            <4> HIDE DEF G
            <4> QED
                BY <1>4, <2>0, <2>7
        <3> HIDE DEF G
        <3> QED
            BY <3>2, <3>4, <3>5, <3>6
    <2> QED
        BY <2>0, <2>5, <2>6, <2>7
<1>6. Is(G)
    <2>1. G = [e \in 0..y |-> G[e]]
        OBVIOUS
    <2> HIDE DEF G
    <2> QED
        BY <1>5, <2>1, Zenon
<1>7. ASSUME NEW f, Is(f) PROVE f[y] = G[y]
    <2> DEFINE D == {e \in Nat : e <= y /\ f[e] # G[e]}
    <2>1. \A e \in 0..y : f[e] = B(f, e)
        BY <1>7, Zenon
    <2> SUFFICES ASSUME D # {} PROVE FALSE
        <3>1. y \in Nat /\ y <= y
            OBVIOUS
        <3> QED
            BY <3>1
    <2>2. PICK e \in D : \A d \in D : e <= d
        <3>1. D \subseteq Nat
            OBVIOUS
        <3> HIDE DEF D
        <3> QED
            BY <3>1, LeastNumber
    <2> HIDE DEF G
    <2>3. e \in 0..y /\ e \in Nat /\ f[e] # G[e]
        OBVIOUS
    <2>4. \A d \in Nat : d < e => f[d] = G[d]
        BY <2>2, <2>3
    <2>5. B(f, e) = B(G, e)
        <3>1. CASE e = 0
            BY <1>2, <3>1
        <3>2. CASE e > 0 /\ e % 2 = 0
            <4>1. e \div 2 \in Nat /\ e \div 2 < e
                BY <2>3, <3>2, HalfOf
            <4>2. f[e \div 2] = G[e \div 2]
                BY <2>4, <4>1
            <4> QED
                BY <1>3, <2>3, <3>2, <4>2
        <3>3. CASE e % 2 # 0
            <4>1. e - 1 \in Nat /\ e - 1 < e
                BY <2>3, <3>3, HalfOf
            <4>2. f[e - 1] = G[e - 1]
                BY <2>4, <4>1
            <4> QED
                BY <1>4, <2>3, <3>3, <4>2
        <3> QED
            BY <2>3, <3>1, <3>2, <3>3
    <2> QED
        BY <1>5, <2>1, <2>3, <2>5
<1>8. PICK f : f = CHOOSE h : Is(h)
    OBVIOUS
<1>9. Is(f)
    <2> HIDE DEF Is, G
    <2> QED
        BY <1>6, <1>8
<1>10. f[y] = G[y]
    <2> HIDE DEF Is, G
    <2> QED
        BY <1>7, <1>9
<1>11. pow(base, y) = f[y]
    BY <1>1, <1>8
<1> QED
    BY <1>10, <1>11

\* Number reads digit by digit.
LEMMA ReadIs ==
    ASSUME NEW base \in Int, NEW S, NEW ds \in Seq(S)
    PROVE  \E read \in [0..Len(ds) -> Int] :
               /\ read[0] = 0 /\ Number(base, ds) = read[Len(ds)]
               /\ \A i \in 1..Len(ds) : read[i] = base * read[i - 1] + CharValue(ds[i], base)
<1>1. PICK len \in Nat : len = Len(ds)
    BY LenProperties
<1>2. PICK v \in [1..len -> Int] : \A i \in 1..len : v[i] = CharValue(ds[i], base)
    <2> DEFINE w == [i \in 1..len |-> CharValue(ds[i], base)]
    <2>1. w \in [1..len -> Int]
        BY CharValues
    <2> QED
        BY <2>1
<1> DEFINE D == Int
           step == [i \in 1..len |-> [x \in D |-> base * x + v[i]]]
           Is(f) == f = [i \in 0..Len(ds) |->
                            IF i = 0 THEN 0 ELSE base * f[i - 1] + CharValue(ds[i], base)]
<1>3. PICK zero \in D : zero = 0
    OBVIOUS
<1>4. StaysIn(step, D, len)
    BY <1>2 DEF StaysIn
<1>5. ASSUME NEW f, Is(f) PROVE GoesBy(f, zero, step, D, len)
    <2>1. f = [i \in 0..len |-> f[i]] /\ f[0] = zero
        BY <1>1, <1>3, <1>5
    <2>2. \A i \in 1..len : f[i] = base * f[i - 1] + v[i]
        <3>1. \A i \in 1..len : i \in 0..len /\ i # 0
            OBVIOUS
        <3> QED
            BY <1>1, <1>2, <1>5, <3>1
    <2>3. \A i \in 1..len : f[i - 1] \in D => f[i] = step[i][f[i - 1]]
        BY <2>2
    <2> HIDE DEF Is, step, D
    <2> QED
        BY <2>1, <2>3 DEF GoesBy
<1>6. ASSUME NEW f, GoesBy(f, zero, step, D, len)
      PROVE  /\ f \in [0..len -> Int] /\ f[0] = 0
             /\ \A i \in 1..len : f[i] = base * f[i - 1] + CharValue(ds[i], base)
    <2>1. f \in [0..len -> D] /\ f[0] = zero /\ \A i \in 1..len : f[i] = step[i][f[i - 1]]
        <3> HIDE DEF step, D
        <3> QED
            BY <1>4, <1>6, StepsStay
    <2>2. \A i \in 1..len : i - 1 \in 0..len
        OBVIOUS
    <2>3. \A i \in 1..len : f[i - 1] \in D
        BY <2>1, <2>2
    <2> QED
        BY <1>2, <1>3, <2>1, <2>3
<1>7. \E f : Is(f)
    <2>1. PICK f : GoesBy(f, zero, step, D, len)
        <3> HIDE DEF step, D
        <3> QED
            BY <1>4, StepsExist
    <2>2. \A i \in 0..len : i # 0 => i \in 1..len
        OBVIOUS
    <2>3. f \in [0..len -> Int] /\ f[0] = 0
          /\ \A i \in 1..len : f[i] = base * f[i - 1] + CharValue(ds[i], base)
        BY <1>6, <2>1
    <2>4. Is(f)
        BY <1>1, <2>2, <2>3
    <2> QED
        BY <2>4
<1>8. PICK read : read = CHOOSE f : Is(f)
    OBVIOUS
<1>9. Number(base, ds) = read[len]
    BY <1>1, <1>8 DEF Number
<1>10. Is(read)
    <2> HIDE DEF Is
    <2> QED
        BY <1>7, <1>8
<1>11. GoesBy(read, zero, step, D, len)
    <2> HIDE DEF Is, step, D
    <2> QED
        BY <1>5, <1>10
<1>12. /\ read \in [0..len -> Int] /\ read[0] = 0
       /\ \A i \in 1..len : read[i] = base * read[i - 1] + CharValue(ds[i], base)
    <2> HIDE DEF step, D
    <2> QED
        BY <1>6, <1>11
<1> QED
    BY <1>1, <1>9, <1>12

\* What intParse makes of digits alone, and that it is their number, if they fit.
Worth(digits, base) ==
    LET value(i) == CharValue(digits[i], base)
        counted  == {i \in DOMAIN digits : \A j \in 1..i : value(j) >= 0}
        parsedValue[i \in 0..Len(digits)] ==
            IF i = 0 THEN 0
            ELSE IF i \in counted
                 THEN PlusDigit(parsedValue[i - 1], value(i), pow(base, Len(digits) - i))
                 ELSE parsedValue[i - 1]
    IN  parsedValue[Len(digits)]

Returned(worth, n) == IF worth = Undefined THEN Signed ELSE {AsSigned(n)}

\* Digits in some base that are all of a text without a sign.
Plain(u, t, base) ==
    /\ ~stringStartsWith(u, <<"-">>)
    /\ base = IF stringStartsWith(u, <<"0", "x">>) THEN 16 ELSE 10
    /\ t = IF stringStartsWith(u, <<"0", "x">>) THEN SubSeq(u, 3, Len(u)) ELSE u

LEMMA ParseIs ==
    ASSUME NEW u, NEW t, NEW base, Plain(u, t, base), NEW s
    PROVE  /\ intParse(u) = Returned(Worth(t, base), Worth(t, base))
           /\ stringStartsWith(s, <<"-">>) /\ Tail(s) = u =>
                  intParse(s) = Returned(Worth(t, base), -Worth(t, base))
<1>1. ASSUME NEW x
      PROVE  intParse(x) =
                 LET v == IF stringStartsWith(x, <<"-">>) THEN Tail(x) ELSE x
                     h == stringStartsWith(v, <<"0", "x">>)
                     b == IF h THEN 16 ELSE 10
                     d == IF h THEN SubSeq(v, 3, Len(v)) ELSE v
                 IN  IF stringStartsWith(x, <<"-">>) THEN Returned(Worth(d, b), -Worth(d, b))
                                                     ELSE Returned(Worth(d, b), Worth(d, b))
    BY DEF intParse, Worth, Returned
<1>2. intParse(u) = Returned(Worth(t, base), Worth(t, base))
    BY <1>1 DEF Plain
<1>3. ASSUME stringStartsWith(s, <<"-">>) /\ Tail(s) = u
      PROVE  intParse(s) = Returned(Worth(t, base), -Worth(t, base))
    BY <1>1, <1>3 DEF Plain
<1> QED
    BY <1>2, <1>3

\* Horner's rule.
LEMMA Horner ==
    ASSUME NEW r \in Int, NEW b \in Int, NEW v \in Int, NEW p \in Int
    PROVE  r * (p * b) + v * p = (b * r + v) * p
<1>1. PICK x \in Int : x = r * b
    OBVIOUS
<1>2. r * (p * b) = x * p
    BY <1>1
<1>3. b * r = x
    BY <1>1
<1>4. (x + v) * p = x * p + v * p
    OBVIOUS
<1> QED
    BY <1>2, <1>3, <1>4

\* The weights of digits: those of their places, or some of them are infinite.
LEMMA WeightsAre ==
    ASSUME NEW base \in Nat, base >= 1, NEW len \in Nat, len >= 1
    PROVE  /\ ToThe(base, 2 * ((len - 1) \div 2)) < FloatMax =>
                  \A i \in 1..len : pow(base, len - i) = ToThe(base, len - i)
           /\ ~(ToThe(base, 2 * ((len - 1) \div 2)) < FloatMax) =>
                  pow(base, len - 1) = Infinite
<1>1. ASSUME ToThe(base, 2 * ((len - 1) \div 2)) < FloatMax, NEW i \in 1..len PROVE pow(base, len - i) = ToThe(base, len - i)
    <2>1. PICK d \in Nat, e \in Nat : d = len - i /\ e = len - 1 /\ d <= e
        <3>1. len - i \in Nat /\ len - 1 \in Nat /\ len - i <= len - 1
            OBVIOUS
        <3> QED
            BY <3>1
    <2>2. 2 * (d \div 2) \in Nat /\ 2 * (e \div 2) \in Nat /\ 2 * (d \div 2) <= 2 * (e \div 2)
        BY <2>1
    <2>3. PICK low \in Nat, high \in Nat :
              low = ToThe(base, 2 * (d \div 2)) /\ high = ToThe(base, 2 * (e \div 2)) /\ low <= high
        BY <2>2, PowersGrow
    <2>4. low < FloatMax
        <3>1. high < FloatMax /\ FloatMax \in Nat
            BY <1>1, <2>1, <2>3, NumeralsAssumption
        <3> QED
            BY <2>3, <3>1
    <2> QED
        BY <2>1, <2>3, <2>4, PowIs
<1>2. ASSUME ~(ToThe(base, 2 * ((len - 1) \div 2)) < FloatMax) PROVE pow(base, len - 1) = Infinite
    <2>1. len - 1 \in Nat
        OBVIOUS
    <2> QED
        BY <1>2, <2>1, PowIs
<1> QED
    BY <1>1, <1>2

LEMMA WorthIs ==
    ASSUME NEW base \in Nat, base >= 1, NEW S, NEW ds \in Seq(S), ds # <<>>,
           \A i \in 1..Len(ds) : CharValue(ds[i], base) >= 0
    PROVE  /\ Worth(ds, base) = IF Representable(base, ds) THEN Number(base, ds) ELSE Undefined
           /\ Number(base, ds) \in Nat
<1>0. PICK len \in Nat : len = Len(ds)
    BY LenProperties
<1>1. len = Len(ds) /\ DOMAIN ds = 1..len /\ len >= 1
    <2>1. len \in Nat /\ len # 0 /\ DOMAIN ds = 1..len
        BY <1>0, LenProperties
    <2> QED
        BY <1>0, <2>1
<1>2. PICK v \in [1..len -> Nat] : \A i \in 1..len : v[i] = CharValue(ds[i], base)
    <2> DEFINE w == [i \in 1..len |-> CharValue(ds[i], base)]
    <2>1. \A i \in 1..len : CharValue(ds[i], base) \in Nat
        <3>1. \A i \in 1..len : CharValue(ds[i], base) \in Int /\ CharValue(ds[i], base) >= 0
            BY <1>1, CharValues
        <3> QED
            BY <3>1
    <2>2. w \in [1..len -> Nat]
        BY <2>1
    <2> QED
        BY <2>2
<1>3. PICK place \in [0..len -> Nat] :
          place[0] = 1 /\ \A i \in 0..len : place[i] = ToThe(base, i) /\ place[i] >= 1
    <2> DEFINE w == [i \in 0..len |-> ToThe(base, i)]
    <2>1. \A i \in 0..len : ToThe(base, i) \in Nat /\ ToThe(base, i) >= 1
        <3>1. \A i \in 0..len : i \in Nat
            OBVIOUS
        <3> QED
            BY <3>1, PowersGrow
    <2>2. w \in [0..len -> Nat]
        BY <2>1
    <2>3. w[0] = 1
        <3>1. ToThe(base, 0) = 1
            BY PowerIs
        <3> QED
            BY <3>1
    <2> QED
        BY <2>1, <2>2, <2>3
<1>4. \A i \in 1..len : place[len - (i - 1)] = place[len - i] * base
    <2> TAKE i \in 1..len
    <2>1. PICK k \in Nat : k = len - i /\ k \in 0..len /\ k + 1 \in 0..len /\ len - (i - 1) = k + 1
        OBVIOUS
    <2>2. ToThe(base, k + 1) = ToThe(base, k) * base
        BY PowerIs
    <2> QED
        BY <1>3, <2>1, <2>2
<1>5. PICK read \in [0..len -> Int] :
          /\ read[0] = 0 /\ Number(base, ds) = read[len]
          /\ \A i \in 1..len : read[i] = base * read[i - 1] + v[i]
    <2>1. PICK read \in [0..Len(ds) -> Int] :
              /\ read[0] = 0 /\ Number(base, ds) = read[Len(ds)]
              /\ \A i \in 1..Len(ds) : read[i] = base * read[i - 1] + CharValue(ds[i], base)
        <3>1. base \in Int
            OBVIOUS
        <3> QED
            BY <3>1, ReadIs, Zenon
    <2>2. \A i \in 1..len : read[i] = base * read[i - 1] + v[i]
        BY <1>1, <1>2, <2>1
    <2> QED
        BY <1>1, <2>1, <2>2
<1> DEFINE g == [i \in 0..len |-> read[i] * place[len - i]]
<1>6. g \in [0..len -> Int] /\ g[0] = 0 /\ g[len] = read[len]
    <2>1. \A i \in 0..len : len - i \in 0..len
        OBVIOUS
    <2>2. len - len = 0
        OBVIOUS
    <2> QED
        BY <1>3, <1>5, <2>1, <2>2
<1>7. \A i \in 1..len : g[i] = g[i - 1] + v[i] * place[len - i]
    <2> TAKE i \in 1..len
    <2>1. i - 1 \in 0..len /\ i \in 0..len /\ len - i \in 0..len /\ len - (i - 1) \in 0..len
        OBVIOUS
    <2>2. PICK r \in Int, p \in Int, w \in Int : r = read[i - 1] /\ p = place[len - i] /\ w = v[i]
        <3>1. read[i - 1] \in Int /\ place[len - i] \in Int /\ v[i] \in Int
            BY <1>2, <1>3, <1>5, <2>1
        <3> QED
            BY <3>1
    <2>3. g[i - 1] = r * (p * base)
        BY <1>4, <2>1, <2>2
    <2>4. g[i] = (base * r + w) * p
        BY <1>5, <2>1, <2>2
    <2>5. r * (p * base) + w * p = (base * r + w) * p
        BY Horner
    <2> QED
        BY <2>2, <2>3, <2>4, <2>5
<1>8. \A i \in 1..len : g[i - 1] <= g[i]
    <2> TAKE i \in 1..len
    <2>1. PICK w \in Nat, p \in Nat : w = v[i] /\ p = place[len - i]
        <3>1. len - i \in 0..len
            OBVIOUS
        <3> QED
            BY <3>1
    <2>2. PICK wp \in Nat : wp = w * p
        OBVIOUS
    <2>3. g[i] = g[i - 1] + wp /\ g[i - 1] \in Int
        <3>1. i - 1 \in 0..len
            OBVIOUS
        <3> HIDE DEF g
        <3> QED
            BY <1>6, <1>7, <2>1, <2>2, <3>1
    <2> HIDE DEF g
    <2>4. PICK a \in Int, b \in Int : a = g[i - 1] /\ b = g[i] /\ b = a + wp
        BY <2>3
    <2>5. a <= b
        <3>1. a \in Int /\ wp \in Nat /\ b = a + wp
            BY <2>2, <2>4
        <3> QED
            BY <3>1, SMTT(30)
    <2> QED
        BY <2>4, <2>5
<1>9. \A i \in 0..len : g[i] \in Nat
    <2> HIDE DEF g
    <2> DEFINE Z == {k \in Nat : k <= len => g[k] >= 0}
    <2>1. 0 \in Z
        BY <1>6
    <2>2. \A k \in Z : k + 1 \in Z
        <3> SUFFICES ASSUME NEW k \in Z, k + 1 <= len PROVE g[k + 1] >= 0
            OBVIOUS
        <3>1. k + 1 \in 1..len /\ (k + 1) - 1 = k /\ g[k] >= 0 /\ k \in 0..len /\ k + 1 \in 0..len
            OBVIOUS
        <3>2. PICK m \in 1..len : m = k + 1 /\ m - 1 = k
            BY <3>1
        <3>3. g[k] <= g[k + 1] /\ g[k] \in Int /\ g[k + 1] \in Int
            BY <1>6, <1>8, <3>1, <3>2
        <3>4. PICK a \in Int, b \in Int : a = g[k] /\ b = g[k + 1]
            BY <3>3
        <3>5. b >= 0
            <4>1. a >= 0
                BY <3>1, <3>4
            <4>2. a <= b
                BY <3>3, <3>4
            <4> HIDE DEF Z
            <4>3. \A x, y \in Int : x >= 0 /\ x <= y => y >= 0
                OBVIOUS
            <4> QED
                BY <4>1, <4>2, <4>3, Zenon
        <3> QED
            BY <3>4, <3>5
    <2>3. Z \subseteq Nat
        OBVIOUS
    <2>4. Z = Nat
        <3> HIDE DEF Z
        <3> QED
            BY <2>1, <2>2, <2>3, ByCounting
    <2>5. \A i \in 0..len : i \in Z /\ g[i] \in Int
        <3> HIDE DEF Z
        <3>1. \A i \in 0..len : i \in Nat
            OBVIOUS
        <3> QED
            BY <1>6, <2>4, <3>1
    <2> QED
        BY <2>5
<1> DEFINE finite == ToThe(base, 2 * ((len - 1) \div 2)) < FloatMax
           weight == [i \in 1..len |-> pow(base, len - i)]
           counted == {i \in DOMAIN ds : \A j \in 1..i : CharValue(ds[j], base) >= 0}
           E(i, x) == PlusDigit(x, v[i], weight[i])
           Is(f) == f = [i \in 0..Len(ds) |->
                IF i = 0 THEN 0
                ELSE IF i \in counted
                     THEN PlusDigit(f[i - 1], CharValue(ds[i], base), pow(base, Len(ds) - i))
                     ELSE f[i - 1]]
<1>10. ASSUME NEW f
       PROVE  Is(f) <=> f = [i \in 0..len |-> IF i = 0 THEN 0 ELSE E(i, f[i - 1])]
    <2>1. \A i \in 0..len : i # 0 =>
              /\ i \in counted /\ CharValue(ds[i], base) = v[i]
              /\ pow(base, Len(ds) - i) = weight[i]
        <3> SUFFICES ASSUME NEW i \in 0..len, i # 0
                     PROVE  /\ i \in counted /\ CharValue(ds[i], base) = v[i]
                            /\ pow(base, Len(ds) - i) = weight[i]
            OBVIOUS
        <3>1. i \in 1..len
            OBVIOUS
        <3>2. counted = 1..len
            BY <1>1
        <3> HIDE DEF counted
        <3> QED
            BY <1>1, <1>2, <3>1, <3>2
    <2> HIDE DEF counted, weight
    <2> QED
        BY <1>1, <2>1
<1> DEFINE k == [i \in 0..len |-> IF (i = 0 \/ finite) /\ g[i] < Word THEN g[i] ELSE Undefined]
<1>11. Word \in Nat /\ Word > 0 /\ Infinite = -1 /\ Undefined = -1
    BY NumeralsAssumption DEF Infinite, Undefined
<1>12. ASSUME NEW i \in 1..len PROVE k[i] = E(i, k[i - 1])
    <2>1. i - 1 \in 0..len /\ i \in 0..len /\ len - i \in 0..len /\ i # 0
        OBVIOUS
    <2>2. PICK before \in Nat, after \in Nat : before = g[i - 1] /\ after = g[i] /\ before <= after
        BY <1>8, <1>9, <2>1
    <2>3. PICK w \in Nat, p \in Nat : w = v[i] /\ p = place[len - i] /\ after = before + w * p
        <3>1. v[i] \in Nat /\ place[len - i] \in Nat
            BY <2>1
        <3> HIDE DEF g
        <3> QED
            BY <1>7, <2>2, <3>1
    <2>4. k[i] = IF finite /\ after < Word THEN after ELSE Undefined
        <3> HIDE DEF g, finite
        <3> QED
            BY <2>1, <2>2
    <2>5. k[i - 1] = IF (i - 1 = 0 \/ finite) /\ before < Word THEN before ELSE Undefined
        <3> HIDE DEF g, finite
        <3> QED
            BY <2>1, <2>2
    <2>6. (finite => weight[i] = p) /\ (~finite /\ i = 1 => weight[i] = Infinite)
        <3>1. /\ finite => \A j \in 1..len : pow(base, len - j) = ToThe(base, len - j)
              /\ ~finite => pow(base, len - 1) = Infinite
            BY <1>1, WeightsAre, Zenon
        <3>2. p = ToThe(base, len - i)
            BY <1>3, <2>1, <2>3
        <3> HIDE DEF finite
        <3> QED
            BY <3>1, <3>2
    <2> HIDE DEF g, k, finite, weight
    <2>7. PICK x : x = k[i - 1]
        OBVIOUS
    <2>8. PICK y : y = weight[i]
        OBVIOUS
    <2>9. PlusDigit(x, w, y) = k[i]
        <3>1. CASE finite
            <4>1. y = p /\ y # Infinite
                BY <1>11, <2>6, <2>8, <3>1
            <4>2. CASE before < Word
                <5>1. x = before /\ x # Undefined
                    BY <1>11, <2>5, <2>7, <3>1, <4>2
                <5>2. x + w * y = after
                    BY <2>3, <4>1, <5>1
                <5>3. PlusDigit(x, w, y) = IF after >= Word THEN Undefined ELSE after
                    BY <4>1, <5>1, <5>2 DEF PlusDigit
                <5> QED
                    BY <1>11, <2>4, <3>1, <5>3
            <4>3. CASE ~(before < Word)
                <5>1. x = Undefined /\ ~(after < Word)
                    <6>1. x = Undefined
                        BY <2>5, <2>7, <4>3
                    <6>2. ~(after < Word)
                        <7>1. before \in Nat /\ after \in Nat /\ before <= after
                            BY <2>2
                        <7>2. PICK word \in Nat : word = Word
                            BY <1>11
                        <7> QED
                            BY <4>3, <7>1, <7>2
                    <6> QED
                        BY <6>1, <6>2
                <5> QED
                    BY <2>4, <5>1 DEF PlusDigit
            <4> QED
                BY <4>2, <4>3
        <3>2. CASE ~finite
            <4>1. x = Undefined \/ y = Infinite
                BY <2>5, <2>6, <2>7, <2>8, <3>2
            <4> QED
                BY <2>4, <3>2, <4>1 DEF PlusDigit
        <3> QED
            BY <3>1, <3>2
    <2> QED
        BY <2>3, <2>7, <2>8, <2>9
<1>13. k = [i \in 0..len |-> k[i]] /\ k[0] = 0
    <2>1. 0 \in 0..len
        OBVIOUS
    <2>2. k = [i \in 0..len |-> k[i]]
        BY Zenon
    <2> HIDE DEF g, finite
    <2> QED
        BY <1>6, <1>11, <2>1, <2>2
<1> HIDE DEF E, g, finite
<1>14. Is(k)
    <2>1. \A i \in 0..len : i # 0 => i \in 1..len
        OBVIOUS
    <2>2. k = [i \in 0..len |-> IF i = 0 THEN 0 ELSE E(i, k[i - 1])]
        <3> HIDE DEF k
        <3> QED
            BY <1>12, <1>13, <2>1
    <2> HIDE DEF k, Is
    <2> QED
        BY <1>10, <2>2
<1>15. PICK f : f = CHOOSE h : Is(h)
    OBVIOUS
<1>16. Is(f)
    <2> HIDE DEF Is, k
    <2> QED
        BY <1>14, <1>15
<1>17. Worth(ds, base) = f[len]
    BY <1>1, <1>15 DEF Worth
<1>18. f[0] = 0 /\ \A i \in 1..len : f[i] = E(i, f[i - 1])
    <2>1. f = [i \in 0..len |-> IF i = 0 THEN 0 ELSE E(i, f[i - 1])]
        <3> HIDE DEF Is
        <3> QED
            BY <1>10, <1>16
    <2>2. \A i \in 1..len : i \in 0..len /\ i # 0
        OBVIOUS
    <2>3. 0 \in 0..len
        OBVIOUS
    <2>4. f[0] = 0
        BY <2>1, <2>3, Zenon
    <2>5. \A i \in 1..len : f[i] = E(i, f[i - 1])
        BY <2>1, <2>2, Zenon
    <2> QED
        BY <2>4, <2>5
<1>19. f[len] = k[len]
    <2> HIDE DEF k
    <2> DEFINE Z == {n \in Nat : n <= len => f[n] = k[n]}
    <2>1. 0 \in Z
        BY <1>13, <1>18
    <2>2. ASSUME NEW n \in Z PROVE n + 1 \in Z
        <3>1. n \in Nat /\ n + 1 \in Nat /\ (n <= len => f[n] = k[n])
            OBVIOUS
        <3>2. ASSUME n + 1 <= len PROVE f[n + 1] = k[n + 1]
            <4>1. PICK m \in 1..len : m = n + 1 /\ m - 1 = n
                BY <3>1, <3>2
            <4>2. f[m - 1] = k[m - 1]
                BY <3>1, <3>2, <4>1
            <4>3. f[m] = E(m, f[m - 1]) /\ k[m] = E(m, k[m - 1])
                BY <1>12, <1>18, <4>1
            <4> QED
                BY <4>1, <4>2, <4>3
        <3> QED
            BY <3>1, <3>2
    <2>3. Z \subseteq Nat
        OBVIOUS
    <2>4. len \in Z
        <3> HIDE DEF Z
        <3> QED
            BY <2>1, <2>2, <2>3, ByCounting
    <2> QED
        BY <2>4
<1>20. Number(base, ds) = g[len] /\ g[len] \in Nat /\ len \in 0..len /\ len # 0
    BY <1>1, <1>5, <1>6, <1>9
<1>21. k[len] = IF finite /\ g[len] < Word THEN g[len] ELSE Undefined
    BY <1>20
<1>22. Representable(base, ds) <=> finite /\ g[len] < Word
    BY <1>1, <1>20 DEF Representable, finite
<1> QED
    BY <1>17, <1>19, <1>20, <1>21, <1>22

LEMMA FrontIs ==
    ASSUME NEW S, NEW s \in Seq(S), NEW p \in Seq(S), Len(p) <= Len(s)
    PROVE  SubSeq(s, 1, Len(p)) = p <=> \A j \in 1..Len(p) : s[j] = p[j]
<1>1. PICK n \in Nat, zero \in Nat : n = Len(p) /\ zero = 0 /\ zero + n <= Len(s)
    BY LenProperties
<1>2. SubSeq(s, zero + 1, zero + n) = p <=> \A j \in 1..n : s[zero + j] = p[j]
    BY <1>1, PartIs
<1>3. zero + 1 = 1 /\ zero + n = n /\ \A j \in 1..n : zero + j = j
    BY <1>1
<1> QED
    BY <1>1, <1>2, <1>3

\* What a text begins with, where that is put in front of another.
LEMMA BeginsWithOne ==
    ASSUME NEW S, NEW s \in Seq(S), NEW c \in S
    PROVE  stringStartsWith(s, <<c>>) <=> s # <<>> /\ s[1] = c
<1>1. PICK len \in Nat : len = Len(s)
    BY LenProperties
<1>2. PICK p \in Seq(S) : p = <<c>> /\ p # <<>> /\ Len(p) = 1
    <2>1. <<c>> \in Seq(S)
        OBVIOUS
    <2> QED
        BY <2>1
<1>3. stringStartsWith(s, p) <=> 1 <= len /\ SubSeq(s, 1, 1) = p
    BY <1>1, <1>2, StartsWithIs
<1>4. 1 <= len => (SubSeq(s, 1, 1) = p <=> s[1] = c)
    <2> SUFFICES ASSUME 1 <= len PROVE SubSeq(s, 1, 1) = p <=> s[1] = c
        OBVIOUS
    <2>1. SubSeq(s, 1, Len(p)) = p <=> \A j \in 1..Len(p) : s[j] = p[j]
        <3>1. Len(p) <= Len(s)
            BY <1>1, <1>2
        <3> QED
            BY <3>1, FrontIs
    <2>2. p[1] = c /\ \A j \in 1..1 : j = 1
        BY <1>2
    <2> QED
        BY <1>2, <2>1, <2>2
<1>5. s # <<>> <=> 1 <= len
    BY <1>1, EmptySeq
<1> QED
    BY <1>2, <1>3, <1>4, <1>5

LEMMA BeginsWithTwo ==
    ASSUME NEW S, NEW s \in Seq(S), NEW c \in S, NEW d \in S
    PROVE  stringStartsWith(s, <<c, d>>) <=> Len(s) >= 2 /\ s[1] = c /\ s[2] = d
<1>1. PICK len \in Nat : len = Len(s)
    BY LenProperties
<1>2. PICK p \in Seq(S) : p = <<c, d>> /\ p # <<>> /\ Len(p) = 2
    <2>1. <<c, d>> \in Seq(S)
        OBVIOUS
    <2> QED
        BY <2>1
<1>3. stringStartsWith(s, p) <=> 2 <= len /\ SubSeq(s, 1, 2) = p
    BY <1>1, <1>2, StartsWithIs
<1>4. 2 <= len => (SubSeq(s, 1, 2) = p <=> s[1] = c /\ s[2] = d)
    <2> SUFFICES ASSUME 2 <= len PROVE SubSeq(s, 1, 2) = p <=> s[1] = c /\ s[2] = d
        OBVIOUS
    <2>1. SubSeq(s, 1, Len(p)) = p <=> \A j \in 1..Len(p) : s[j] = p[j]
        <3>1. Len(p) <= Len(s)
            BY <1>1, <1>2
        <3> QED
            BY <3>1, FrontIs
    <2>2. p[1] = c /\ p[2] = d /\ \A j \in 1..2 : j = 1 \/ j = 2
        BY <1>2
    <2> QED
        BY <1>2, <2>1, <2>2
<1> QED
    BY <1>1, <1>2, <1>3, <1>4

LEMMA BehindOne ==
    ASSUME NEW S, NEW s \in Seq(S), NEW c \in S
    PROVE  /\ <<c>> \o s \in Seq(S) /\ <<c>> \o s # <<>> /\ (<<c>> \o s)[1] = c
           /\ Tail(<<c>> \o s) = s
<1>1. PICK len \in Nat : len = Len(s)
    BY LenProperties
<1>2. PICK p \in Seq(S) : p = <<c>> /\ Len(p) = 1 /\ p[1] = c
    <2>1. <<c>> \in Seq(S)
        OBVIOUS
    <2> QED
        BY <2>1
<1>3. PICK u : u = p \o s
    OBVIOUS
<1>4. u \in Seq(S) /\ Len(u) = 1 + len
      /\ \A i \in 1..(1 + len) : u[i] = IF i <= 1 THEN p[i] ELSE s[i - 1]
    BY <1>1, <1>2, <1>3, ConcatProperties
<1>5. u # <<>> /\ u[1] = c
    BY <1>1, <1>2, <1>4
<1>6. PICK v : v = Tail(u)
    OBVIOUS
<1>7. v \in Seq(S) /\ Len(v) = len
    BY <1>1, <1>4, <1>5, <1>6
<1>8. \A i \in 1..len : v[i] = u[i + 1]
    BY <1>1, <1>4, <1>6
<1>9. \A i \in 1..len : v[i] = s[i]
    <2> TAKE i \in 1..len
    <2>1. i + 1 \in 1..(1 + len) /\ ~(i + 1 <= 1) /\ (i + 1) - 1 = i
        OBVIOUS
    <2> QED
        BY <1>4, <1>8, <2>1
<1>10. v = s
    BY <1>1, <1>7, <1>9, SeqEqual
<1> QED
    BY <1>2, <1>3, <1>4, <1>5, <1>6, <1>10

LEMMA BehindTwo ==
    ASSUME NEW S, NEW s \in Seq(S), NEW c \in S, NEW d \in S
    PROVE  /\ <<c, d>> \o s \in Seq(S) /\ Len(<<c, d>> \o s) >= 2
           /\ (<<c, d>> \o s)[1] = c /\ (<<c, d>> \o s)[2] = d
           /\ SubSeq(<<c, d>> \o s, 3, Len(<<c, d>> \o s)) = s
<1>1. PICK len \in Nat : len = Len(s)
    BY LenProperties
<1>2. PICK p \in Seq(S) : p = <<c, d>> /\ Len(p) = 2 /\ p[1] = c /\ p[2] = d
    <2>1. <<c, d>> \in Seq(S)
        OBVIOUS
    <2> QED
        BY <2>1
<1>3. PICK u : u = p \o s
    OBVIOUS
<1>4. u \in Seq(S) /\ Len(u) = 2 + len
      /\ \A i \in 1..(2 + len) : u[i] = IF i <= 2 THEN p[i] ELSE s[i - 2]
    BY <1>1, <1>2, <1>3, ConcatProperties
<1>5. u[1] = c /\ u[2] = d /\ Len(u) >= 2
    BY <1>1, <1>2, <1>4
<1>6. PICK v : v = SubSeq(u, 3, Len(u))
    OBVIOUS
<1>7. v \in Seq(S) /\ Len(v) = len
    BY <1>1, <1>4, <1>6
<1>8. \A i \in 1..len : v[i] = u[i + 2]
    BY <1>1, <1>4, <1>6
<1>9. \A i \in 1..len : v[i] = s[i]
    <2> TAKE i \in 1..len
    <2>1. i + 2 \in 1..(2 + len) /\ ~(i + 2 <= 2) /\ (i + 2) - 2 = i
        OBVIOUS
    <2> QED
        BY <1>4, <1>8, <2>1
<1>10. v = s
    BY <1>1, <1>7, <1>9, SeqEqual
<1> QED
    BY <1>2, <1>3, <1>4, <1>5, <1>6, <1>10

\* A number is read as it is written, with a sign, with a prefix, or with neither.
LEMMA NumberIs ==
    ASSUME NEW S, NEW t \in Seq(S), NEW base \in {10, 16}, AllDigits(base, t)
    PROVE  /\ Worth(t, base) = IF Representable(base, t) THEN Number(base, t) ELSE Undefined
           /\ Number(base, t) \in Nat
           /\ base = 10 => ~stringStartsWith(t, <<"-">>) /\ ~stringStartsWith(t, <<"0", "x">>)
<1>1. \A i \in DOMAIN t : CharValue(t[i], base) >= 0
    BY DEF AllDigits
<1>2. /\ Worth(t, base) = IF Representable(base, t) THEN Number(base, t) ELSE Undefined
      /\ Number(base, t) \in Nat
    <2>1. base \in Nat /\ base >= 1 /\ t # <<>> /\ \A i \in 1..Len(t) : CharValue(t[i], base) >= 0
        BY <1>1 DEF AllDigits
    <2> QED
        BY <2>1, WorthIs
<1>4. ASSUME base = 10
      PROVE  ~stringStartsWith(t, <<"-">>) /\ ~stringStartsWith(t, <<"0", "x">>)
    <2>1. PICK minus, zero, ex : minus = "-" /\ zero = "0" /\ ex = "x"
        OBVIOUS
    <2>2. CharValue(minus, 10) = -1 /\ CharValue(ex, 10) = -1
        BY <2>1, NoDigits DEF CharValue
    <2>3. PICK T : T = S \cup {minus, zero, ex}
        OBVIOUS
    <2>4. t \in Seq(T) /\ minus \in T /\ zero \in T /\ ex \in T
        BY <2>3
    <2>5. stringStartsWith(t, <<minus>>) => Len(t) >= 1 /\ t[1] = minus
        BY <2>4, BeginsWithOne
    <2>6. stringStartsWith(t, <<zero, ex>>) => Len(t) >= 2 /\ t[2] = ex
        BY <2>4, BeginsWithTwo
    <2>7. (Len(t) >= 1 => 1 \in DOMAIN t) /\ (Len(t) >= 2 => 2 \in DOMAIN t)
        OBVIOUS
    <2>8. ~stringStartsWith(t, <<minus>>) /\ ~stringStartsWith(t, <<zero, ex>>)
        BY <1>1, <1>4, <2>2, <2>5, <2>6, <2>7
    <2> QED
        BY <2>1, <2>8
<1> QED
    BY <1>2, <1>4

Written(prefix, base, t) ==
    /\ prefix \in {<<>>, <<"0", "x">>} /\ base = IF prefix = <<>> THEN 10 ELSE 16
    /\ AllDigits(base, t)

LEMMA Unsigned ==
    ASSUME NEW S, NEW t \in Seq(S), NEW prefix, NEW base, Written(prefix, base, t),
           NEW T, T = S \cup {"-", "0", "x"}
    PROVE  prefix \o t \in Seq(T) /\ Plain(prefix \o t, t, base)
<1>0. PICK u : u = prefix \o t
    OBVIOUS
<1> SUFFICES u \in Seq(T) /\ Plain(u, t, base)
    BY <1>0
<1>1. PICK minus, zero, ex : minus = "-" /\ zero = "0" /\ ex = "x" /\ minus # zero
    OBVIOUS
<1>2. T = S \cup {minus, zero, ex}
    BY <1>1
<1>3. t \in Seq(T) /\ minus \in T /\ zero \in T /\ ex \in T
    BY <1>2
<1>4. CASE prefix = <<>>
    <2>1. u = t
        BY <1>0, <1>4
    <2>2. base = 10 /\ AllDigits(base, t)
        BY <1>4 DEF Written
    <2>3. ~stringStartsWith(t, <<"-">>) /\ ~stringStartsWith(t, <<"0", "x">>)
        <3>1. base \in {10, 16}
            BY <2>2
        <3> QED
            BY <2>2, <3>1, NumberIs
    <2> QED
        BY <1>3, <2>1, <2>2, <2>3 DEF Plain
<1>5. CASE prefix = <<zero, ex>>
    <2>1. /\ u \in Seq(T) /\ Len(u) >= 2 /\ u[1] = zero /\ u[2] = ex
          /\ SubSeq(u, 3, Len(u)) = t
        BY <1>0, <1>3, <1>5, BehindTwo
    <2>2. stringStartsWith(u, <<zero, ex>>)
        <3>1. u \in Seq(T) /\ Len(u) >= 2 /\ u[1] = zero /\ u[2] = ex
            BY <2>1
        <3> QED
            BY <1>3, <3>1, BeginsWithTwo
    <2>3. ~stringStartsWith(u, <<minus>>)
        <3>1. u \in Seq(T) /\ u[1] = zero
            BY <2>1
        <3> QED
            BY <1>1, <1>3, <3>1, BeginsWithOne
    <2>4. base = 16
        BY <1>5 DEF Written
    <2>5. Plain(u, t, base)
        BY <1>1, <2>1, <2>2, <2>3, <2>4 DEF Plain
    <2> QED
        BY <2>1, <2>5
<1> QED
    BY <1>1, <1>4, <1>5 DEF Written

LEMMA NumberParses ==
    ASSUME NEW S, NEW t \in Seq(S), NEW prefix, NEW base, Written(prefix, base, t)
    PROVE  /\ intParse(prefix \o t) = Returned(Worth(t, base), Worth(t, base))
           /\ intParse(<<"-">> \o prefix \o t) = Returned(Worth(t, base), -Worth(t, base))
<1>1. PICK u : u = prefix \o t
    OBVIOUS
<1>2. PICK T : T = S \cup {"-", "0", "x"}
    OBVIOUS
<1>3. u \in Seq(T) /\ Plain(u, t, base)
    BY <1>1, <1>2, Unsigned
<1>6. intParse(u) = Returned(Worth(t, base), Worth(t, base))
    BY <1>3, ParseIs
<1>7. PICK s : s = <<"-">> \o u
    OBVIOUS
<1>8. intParse(s) = Returned(Worth(t, base), -Worth(t, base))
    <2>1. PICK minus \in T : minus = "-"
        BY <1>2
    <2>2. s \in Seq(T) /\ s # <<>> /\ s[1] = minus /\ Tail(s) = u
        BY <1>3, <1>7, <2>1, BehindOne
    <2>3. stringStartsWith(s, <<minus>>)
        BY <2>2, BeginsWithOne
    <2>4. stringStartsWith(s, <<"-">>) /\ Tail(s) = u
        BY <2>1, <2>2, <2>3
    <2> QED
        BY <1>3, <2>4, ParseIs
<1>9. <<"-">> \o prefix \o t = s
    <2>1. <<"-">> \in Seq(T)
        <3>1. "-" \in T
            BY <1>2
        <3> QED
            BY <3>1
    <2>2. prefix \in Seq(T)
        <3>1. "0" \in T /\ "x" \in T
            BY <1>2
        <3>2. <<"0", "x">> \in Seq(T) /\ <<>> \in Seq(T)
            BY <3>1
        <3> QED
            BY <3>2 DEF Written
    <2>3. t \in Seq(T)
        BY <1>2
    <2>4. PICK minus \in Seq(T) : minus = <<"-">>
        BY <2>1, Zenon
    <2>5. (minus \o prefix) \o t = minus \o (prefix \o t)
        BY <2>2, <2>3, ConcatAssociative
    <2> QED
        BY <1>1, <1>7, <2>4, <2>5
<1> QED
    BY <1>1, <1>6, <1>8, <1>9

\* The remainder of a negative number.
LEMMA WrapsAround ==
    ASSUME NEW w \in Nat, w > 0, NEW m \in Nat, m < w
    PROVE  m % w = m /\ (m - w) % w = m
<1>1. \A n \in Int : n \div w \in Int /\ n % w \in 0..(w - 1) /\ n = w * (n \div w) + (n % w)
    OBVIOUS
<1>2. ASSUME NEW n \in {m, m - w} PROVE n % w = m
    <2>1. PICK q \in Int, r \in 0..(w - 1) : q = n \div w /\ r = n % w /\ n = w * q + r
        BY <1>1
    <2>2. PICK p \in Int : p = w * q
        OBVIOUS
    <2>3. (q >= 1 => p >= w) /\ (q = 0 => p = 0) /\ (q = -1 => p = -w) /\ (q <= -2 => p <= -2 * w)
        BY <2>2
    <2>4. q >= 1 \/ q = 0 \/ q = -1 \/ q <= -2
        OBVIOUS
    <2>5. n = p + r
        BY <2>1, <2>2
    <2> QED
        BY <2>1, <2>3, <2>4, <2>5
<1> QED
    BY <1>2

\* A word is made signed by taking its bits for those of a signed one.
LEMMA BitsStay ==
    ASSUME NEW n \in Nat, n < Word
    PROVE  AsSigned(n) = SameBits(n) /\ AsSigned(-n) = SameBits(-n)
<1>1. PICK half \in Nat : half = Word \div 2 /\ Word = 2 * half /\ half > 0
    <2>1. Word \in Nat /\ Word > 0 /\ Word % 2 = 0
        BY NumeralsAssumption
    <2>2. Word = 2 * (Word \div 2) /\ Word \div 2 \in Nat
        BY <2>1
    <2> QED
        BY <2>1, <2>2
<1>2. Signed = (-half)..(half - 1)
    BY <1>1 DEF Signed
<1>3. AsSigned(n) = SameBits(n)
    <2>1. n % Word = n
        BY <1>1, WrapsAround
    <2>2. AsSigned(n) = IF n < half THEN n ELSE n - Word
        BY <1>1, <2>1 DEF AsSigned
    <2>3. n \in Signed <=> n < half
        BY <1>1, <1>2
    <2> QED
        BY <2>2, <2>3 DEF SameBits
<1>4. AsSigned(-n) = SameBits(-n)
    <2>1. CASE n = 0
        BY <1>3, <2>1
    <2>2. CASE n > 0
        <3>1. (-n) % Word = Word - n
            <4>1. PICK m \in Nat : m = Word - n /\ m < Word
                <5>1. Word - n \in Nat /\ Word - n < Word
                    BY <1>1, <2>2
                <5> QED
                    BY <5>1
            <4>2. -n = m - Word
                BY <1>1, <4>1
            <4>3. (m - Word) % Word = m
                BY <1>1, <4>1, WrapsAround
            <4> QED
                BY <4>1, <4>2, <4>3
        <3>2. AsSigned(-n) = IF Word - n < half THEN Word - n ELSE -n
            <4>1. (Word - n) - Word = -n
                BY <1>1
            <4> QED
                BY <1>1, <3>1, <4>1 DEF AsSigned
        <3>3. -n \in Signed <=> ~(Word - n < half)
            BY <1>1, <1>2, <2>2
        <3> QED
            BY <1>1, <2>2, <3>2, <3>3 DEF SameBits
    <2> QED
        BY <2>1, <2>2
<1> QED
    BY <1>3, <1>4

\* intParse reads every number digit by digit, with its sign and in its base: as the
\* signed word with its bits, if it is a word and its powers are floats, and as any
\* signed word if not.
THEOREM NumbersAsWrittenCorrect == TextSpec => []NumbersAsWritten
<1>1. ASSUME text \in Seq(Characters),
             NEW sign \in {<<>>, <<"-">>}, NEW prefix \in {<<>>, <<"0", "x">>},
             NEW base, base = IF prefix = <<>> THEN 10 ELSE 16, AllDigits(base, text),
             NEW n, n = Number(base, text)
      PROVE  intParse(sign \o prefix \o text) =
                 IF Representable(base, text) THEN {SameBits(IF sign = <<>> THEN n ELSE -n)}
                                              ELSE Signed
    <2>1. /\ intParse(prefix \o text) = Returned(Worth(text, base), Worth(text, base))
          /\ intParse(<<"-">> \o prefix \o text) = Returned(Worth(text, base), -Worth(text, base))
        <3>1. Written(prefix, base, text)
            BY <1>1 DEF Written
        <3> QED
            BY <1>1, <3>1, NumberParses
    <2>2. <<>> \o prefix = prefix
        OBVIOUS
    <2>3. PICK w : w = Worth(text, base)
        OBVIOUS
    <2>4. n \in Nat /\ w = IF Representable(base, text) THEN n ELSE Undefined
        <3>1. base \in {10, 16}
            BY <1>1
        <3> QED
            BY <1>1, <2>3, <3>1, NumberIs
    <2>5. intParse(sign \o prefix \o text) = Returned(w, IF sign = <<>> THEN w ELSE -w)
        <3>1. <<"-">> # <<>>
            OBVIOUS
        <3> QED
            BY <2>1, <2>2, <2>3, <3>1
    <2>6. CASE Representable(base, text)
        <3>1. n < Word /\ n # Undefined /\ w = n
            BY <1>1, <2>4, <2>6 DEF Representable, Undefined
        <3>2. AsSigned(n) = SameBits(n) /\ AsSigned(-n) = SameBits(-n)
            BY <2>4, <3>1, BitsStay
        <3> QED
            BY <2>5, <2>6, <3>1, <3>2 DEF Returned
    <2>7. CASE ~Representable(base, text)
        BY <2>4, <2>5, <2>7 DEF Returned
    <2> QED
        BY <2>6, <2>7
<1>2. text \in Seq(Characters) => NumbersAsWritten
    BY <1>1 DEF NumbersAsWritten
<1> QED
    BY <1>2, TextTypeCorrect, PTL


(***************************************************************************)
(* Editing.                                                                *)
(***************************************************************************)
LEMMA CaseTables ==
    /\ \A i, j \in 1..7 : Upper[i] # Lower[j]
    /\ \A i, j \in 1..7 : Upper[i] = Upper[j] => i = j
<1>1. \A i, j \in 1..7 : Upper[i] # Lower[j]
    BY DEF Upper, Lower
<1>2. \A i, j \in 1..7 : Upper[i] = Upper[j] => i = j
    BY DEF Upper
<1> QED
    BY <1>1, <1>2

\* The case of a letter makes no difference to the letter in lower case.
LEMMA LettersLower ==
    ASSUME NEW c
    PROVE  /\ charToLower(charToUpper(c)) = charToLower(c)
           /\ charToLower(charToLower(c)) = charToLower(c)
<1>1. CASE In(c, Upper)
    <2>1. PICK k \in 1..7 : k = IndexIn(c, Upper) /\ Upper[k] = c
        BY <1>1, IndexInIs, DigitTable
    <2>2. ~In(c, Lower) /\ ~In(Lower[k], Upper)
        BY <2>1, CaseTables, DigitTable DEF In
    <2>3. charToLower(c) = Lower[k] /\ charToUpper(c) = c
        BY <1>1, <2>1, <2>2 DEF charToLower, charToUpper
    <2>4. charToLower(Lower[k]) = Lower[k]
        BY <2>2 DEF charToLower
    <2> QED
        BY <2>3, <2>4
<1>2. CASE ~In(c, Upper) /\ In(c, Lower)
    <2>1. PICK k \in 1..7 : k = IndexIn(c, Lower) /\ Lower[k] = c
        BY <1>2, IndexInIs, DigitTable
    <2>2. charToUpper(c) = Upper[k] /\ charToLower(c) = c
        BY <1>2, <2>1 DEF charToLower, charToUpper
    <2>3. In(Upper[k], Upper)
        BY DigitTable DEF In
    <2>4. PICK j \in 1..7 : j = IndexIn(Upper[k], Upper) /\ Upper[j] = Upper[k]
        BY <2>3, IndexInIs, DigitTable
    <2>5. j = k
        BY <2>4, CaseTables
    <2>6. charToLower(Upper[k]) = Lower[k]
        BY <2>3, <2>4, <2>5 DEF charToLower
    <2> QED
        BY <2>1, <2>2, <2>6
<1>3. CASE ~In(c, Upper) /\ ~In(c, Lower)
    BY <1>3 DEF charToLower, charToUpper
<1> QED
    BY <1>1, <1>2, <1>3

LEMMA CasesAgree ==
    ASSUME NEW S, NEW s \in Seq(S)
    PROVE  /\ stringEqualsEx(stringToLower(s), stringToUpper(s), TRUE)
           /\ stringToLower(stringToUpper(s)) = stringToLower(s)
<1>1. PICK n \in Nat : n = Len(s) /\ DOMAIN s = 1..n
    BY LenProperties
<1>2. PICK l, u : l = stringToLower(s) /\ u = stringToUpper(s)
    OBVIOUS
<1>3. l = [i \in 1..n |-> charToLower(s[i])] /\ u = [i \in 1..n |-> charToUpper(s[i])]
    BY <1>1, <1>2 DEF stringToLower, stringToUpper
<1>4. Len(l) = n /\ Len(u) = n /\ DOMAIN l = 1..n /\ DOMAIN u = 1..n
    BY <1>3
<1>5. \A i \in 1..n : Same(l[i], u[i], TRUE)
    <2> TAKE i \in 1..n
    <2>1. l[i] = charToLower(s[i]) /\ u[i] = charToUpper(s[i])
        BY <1>3
    <2> QED
        BY <2>1, LettersLower DEF Same
<1>6. stringEqualsEx(l, u, TRUE)
    BY <1>4, <1>5 DEF stringEqualsEx
<1>7. stringToLower(u) = l
    <2>1. stringToLower(u) = [i \in 1..n |-> charToLower(u[i])]
        BY <1>4 DEF stringToLower
    <2>2. \A i \in 1..n : charToLower(u[i]) = charToLower(s[i])
        BY <1>3, LettersLower
    <2> QED
        BY <1>3, <2>1, <2>2
<1> QED
    BY <1>2, <1>6, <1>7

\* What is inserted is found where it is, whatever the case of its letters.
LEMMA InsertedIsFound ==
    ASSUME NEW S, NEW s \in Seq(S), NEW p \in Seq(S), p # <<>>, NEW i \in 0..Len(s)
    PROVE  stringContainsEx(stringInsert(s, i, p), stringToUpper(p), TRUE)
<1>1. PICK n \in Nat, len \in Nat : n = Len(p) /\ DOMAIN p = 1..n /\ len = Len(s)
    BY LenProperties
<1>2. PICK u : u = SubSeq(s, 1, i)
    OBVIOUS
<1>3. u \in Seq(S) /\ Len(u) = i
    BY <1>1, <1>2
<1>4. PICK t : t = u \o p
    OBVIOUS
<1>5. t \in Seq(S) /\ Len(t) = i + n
      /\ \A j \in 1..(i + n) : t[j] = IF j <= i THEN u[j] ELSE p[j - i]
    BY <1>1, <1>3, <1>4, ConcatProperties
<1>6. PICK q : q = stringToUpper(p)
    OBVIOUS
<1>7. q = [j \in 1..n |-> charToUpper(p[j])]
    BY <1>1, <1>6 DEF stringToUpper
<1>8. Len(q) = n /\ DOMAIN q = 1..n
    BY <1>7
<1>9. MatchAt(t, q, i, TRUE)
    <2>1. \A j \in 1..n : Same(t[i + j], q[j], TRUE)
        <3> TAKE j \in 1..n
        <3>1. i + j \in 1..(i + n) /\ ~(i + j <= i) /\ (i + j) - i = j
            BY <1>1
        <3>2. t[i + j] = p[j] /\ q[j] = charToUpper(p[j])
            BY <1>5, <1>7, <3>1
        <3> QED
            BY <3>2, LettersLower DEF Same
    <2> QED
        BY <1>8, <2>1 DEF MatchAt
<1>10. i \in Matches(t, q, TRUE) /\ Matches(t, q, TRUE) \subseteq Nat
    <2>1. Len(t) - Len(q) = i /\ i \in 0..i
        BY <1>1, <1>5, <1>8
    <2>2. Matches(t, q, TRUE) = {k \in 0..i : MatchAt(t, q, k, TRUE)}
        BY <2>1 DEF Matches
    <2>3. i \in {k \in 0..i : MatchAt(t, q, k, TRUE)}
        BY <1>9, <2>1
    <2>4. {k \in 0..i : MatchAt(t, q, k, TRUE)} \subseteq Nat
        <3>1. \A k \in {k \in 0..i : MatchAt(t, q, k, TRUE)} : k \in 0..i
            OBVIOUS
        <3>2. \A k \in 0..i : k \in Nat
            OBVIOUS
        <3> QED
            BY <3>1, <3>2, Zenon
    <2> QED
        BY <2>2, <2>3, <2>4
<1>11. stringIndexOfEx(t, q, TRUE) \in Nat
    BY <1>10, FirstIs
<1>12. stringContainsEx(t, q, TRUE)
    <2>1. \A k \in Nat : k # -1
        OBVIOUS
    <2>2. stringIndexOfEx(t, q, TRUE) # -1
        BY <1>11, <2>1
    <2> QED
        BY <2>2 DEF stringContainsEx
<1> QED
    BY <1>2, <1>4, <1>6, <1>12 DEF stringInsert

(***************************************************************************)
(* Recursion from any of the values before.                                *)
(***************************************************************************)
\* body says what the value at n is, and looks at nothing but values before it.
LooksBack(body, N, V) ==
    /\ body \in [0..N -> [[0..N -> V] -> V]]
    /\ \A n \in 0..N, g \in [0..N -> V], h \in [0..N -> V] :
           (\A m \in 0..N : m < n => g[m] = h[m]) => body[n][g] = body[n][h]

\* A function that is what body says everywhere.
Solved(body, N, V) == \E h \in [0..N -> V] : \A n \in 0..N : h[n] = body[n][h]

LEMMA CourseOfValues ==
    ASSUME NEW V, V # {}, NEW N \in Nat, NEW body, LooksBack(body, N, V)
    PROVE  Solved(body, N, V)
<1> DEFINE F == [0..N -> V]
           UpTo(h, k) == \A n \in 0..N : n < k => h[n] = body[n][h]
           Z == {k \in Nat : k <= N + 1 => \E h \in F : UpTo(h, k)}
<1>1. 0 \in Z
    <2>1. PICK v \in V : TRUE
        OBVIOUS
    <2>2. [n \in 0..N |-> v] \in F
        OBVIOUS
    <2>3. \A n \in 0..N : ~(n < 0)
        OBVIOUS
    <2> QED
        BY <2>2, <2>3
<1>2. \A k \in Z : k + 1 \in Z
    <2> SUFFICES ASSUME NEW k \in Z, k + 1 <= N + 1 PROVE \E h \in F : UpTo(h, k + 1)
        BY SMTT(30)
    <2>1. k \in 0..N /\ k <= N + 1
        OBVIOUS
    <2>2. PICK g \in F : UpTo(g, k)
        BY <2>1
    <2>3. PICK v \in V : v = body[k][g]
        BY <2>1 DEF LooksBack
    <2> DEFINE h == [n \in 0..N |-> IF n = k THEN v ELSE g[n]]
    <2>4. h \in F /\ h[k] = v /\ \A n \in 0..N : n < k => h[n] = g[n]
        BY <2>1
    <2> HIDE DEF h
    <2>5. \A n \in 0..N : n <= k => body[n][g] = body[n][h]
        <3> SUFFICES ASSUME NEW n \in 0..N, n <= k PROVE body[n][g] = body[n][h]
            OBVIOUS
        <3>1. \A m \in 0..N : m < n => g[m] = h[m]
            BY <2>1, <2>4
        <3> QED
            BY <2>4, <3>1 DEF LooksBack
    <2>6. \A n \in 0..N : n < k + 1 => h[n] = body[n][h]
        <3> SUFFICES ASSUME NEW n \in 0..N, n < k + 1 PROVE h[n] = body[n][h]
            OBVIOUS
        <3>1. CASE n = k
            BY <2>1, <2>3, <2>4, <2>5, <3>1
        <3>2. CASE n # k
            <4>1. n < k /\ n <= k
                BY <2>1, <3>2
            <4> QED
                BY <2>2, <2>4, <2>5, <4>1
        <3> QED
            BY <3>1, <3>2
    <2> QED
        BY <2>4, <2>6
<1>3. Z = Nat
    <2> HIDE DEF Z
    <2>1. Z \subseteq Nat
        BY DEF Z
    <2> QED
        BY <1>1, <1>2, <2>1, ByCounting
<1>4. N + 1 \in Z
    <2>1. N + 1 \in Nat
        OBVIOUS
    <2> HIDE DEF Z
    <2> QED
        BY <1>3, <2>1
<1>5. PICK h \in F : UpTo(h, N + 1)
    BY <1>4
<1>6. \A n \in 0..N : n < N + 1
    OBVIOUS
<1> QED
    BY <1>5, <1>6 DEF Solved

\* Where the first occurrence behind a place is.
LEMMA IndexBehind ==
    ASSUME NEW S, NEW s \in Seq(S), NEW p \in Seq(S), p # <<>>, NEW k \in 0..Len(s),
           NEW index, index = stringIndexOfEx(Behind(s, k), p, FALSE)
    PROVE  index = -1 \/ (index \in Nat /\ k + index + Len(p) <= Len(s))
<1>0. PICK i : i = index
    OBVIOUS
<1>1. PICK n \in Nat \ {0}, len \in Nat : n = Len(p) /\ len = Len(s)
    BY MatchesAre
<1>2. PICK t : t = Behind(s, k)
    OBVIOUS
<1>3. t \in Seq(S) /\ Len(t) = len - k
    BY <1>1, <1>2 DEF Behind
<1>4. PICK found : found = Matches(t, p, FALSE)
    OBVIOUS
<1>5. found \subseteq Nat /\ \A j \in found : Found(t, p, j)
    BY <1>3, <1>4, MatchesAre
<1>6. found = {} => i = -1
    BY <1>0, <1>2, <1>4, <1>5, FirstIs
<1>7. found # {} => i \in found
    BY <1>0, <1>2, <1>4, <1>5, FirstIs
<1>8. i \in found => i \in Nat /\ i + n <= len - k
    BY <1>1, <1>3, <1>5 DEF Found
<1>9. CASE found = {}
    BY <1>0, <1>6, <1>9
<1>10. CASE found # {}
    <2>1. i \in Nat /\ i + n <= len - k
        BY <1>7, <1>8, <1>10
    <2>2. k \in Nat
        BY <1>1
    <2>3. PICK m \in Nat, x \in Nat : m = i /\ x = k
        BY <2>1, <2>2
    <2>4. m + n <= len - x
        BY <2>1, <2>3
    <2>5. x + m + n <= len
        BY <2>4
    <2> QED
        BY <1>0, <1>1, <2>1, <2>3, <2>5
<1> QED
    BY <1>0, <1>9, <1>10

\* from holds what stringReplaceEx makes of s behind every place of it.
ReplacesBy(from, s, p, new) ==
    /\ stringReplaceEx(s, p, new, FALSE) = from[0]
    /\ \A k \in 0..Len(s) :
           from[k] = LET i == stringIndexOfEx(Behind(s, k), p, FALSE)
                     IN  IF i = -1 THEN <<>>
                         ELSE IF i < k THEN Failed
                         ELSE IF from[i + Len(p)] = Failed THEN Failed
                         ELSE SubSeq(s, k + 1, i) \o new \o from[i + Len(p)]

\* The recursion of stringReplaceEx has a solution: it only looks further behind.
LEMMA ReplaceSteps ==
    ASSUME NEW S, NEW s \in Seq(S), NEW p \in Seq(S), p # <<>>, NEW new \in Seq(S)
    PROVE  \E from : ReplacesBy(from, s, p, new)
<1>1. PICK n \in Nat \ {0}, L \in Nat : n = Len(p) /\ L = Len(s)
    BY MatchesAre
<1> DEFINE T == S \cup {"out of memory"}
           V == Seq(T)
           index(k) == stringIndexOfEx(Behind(s, k), p, FALSE)
           at == [k \in 0..L |-> index(k)]
           head == [k \in 0..L |-> SubSeq(s, k + 1, at[k]) \o new]
           value(k, rest) == IF at[k] = -1 THEN <<>>
                             ELSE IF at[k] < k THEN Failed
                             ELSE IF rest = Failed THEN Failed ELSE head[k] \o rest
           body == [r \in 0..L |-> [h \in [0..L -> V] |-> value(L - r, h[L - (at[L - r] + n)])]]
<1>2. \A k \in 0..L : at[k] = -1 \/ (at[k] \in Nat /\ k + at[k] + n <= L)
    BY <1>1, IndexBehind
<1>3. <<>> \in V /\ Failed \in V
    BY DEF Failed
<1>4. \A k \in 0..L : ~(at[k] = -1) /\ ~(at[k] < k) => head[k] \in V
    <2> SUFFICES ASSUME NEW k \in 0..L, ~(at[k] = -1), ~(at[k] < k) PROVE head[k] \in V
        OBVIOUS
    <2> HIDE DEF at
    <2>1. at[k] \in Nat /\ at[k] <= L /\ k <= at[k]
        <3>1. at[k] \in Nat /\ k + at[k] + n <= L
            BY <1>2
        <3> QED
            BY <3>1
    <2>2. new \in V
        <3>1. \A x \in S : x \in T
            OBVIOUS
        <3> HIDE DEF T
        <3> QED
            BY <3>1
    <2>3. SubSeq(s, k + 1, at[k]) \in V
        <3>1. \A i \in (k + 1)..at[k] : s[i] \in T
            <4> TAKE i \in (k + 1)..at[k]
            <4>1. i \in 1..L
                BY <2>1
            <4>2. \A j \in 1..L : s[j] \in S
                BY <1>1
            <4> QED
                BY <4>1, <4>2
        <3>2. k + 1 \in Int /\ at[k] \in Int
            BY <2>1
        <3> QED
            BY <3>1, <3>2, SubSeqProperties
    <2> HIDE DEF T
    <2>4. SubSeq(s, k + 1, at[k]) \o new \in V
        BY <2>2, <2>3, ConcatProperties
    <2> QED
        BY <2>4
<1>5. \A k \in 0..L, rest \in V : value(k, rest) \in V
    <2> HIDE DEF at, head, T
    <2> TAKE k \in 0..L, rest \in V
    <2>1. CASE at[k] = -1 \/ at[k] < k \/ rest = Failed
        BY <1>3, <2>1
    <2>2. CASE ~(at[k] = -1 \/ at[k] < k \/ rest = Failed)
        <3>1. value(k, rest) = head[k] \o rest
            BY <2>2
        <3>2. head[k] \in V
            BY <1>4, <2>2
        <3>3. head[k] \o rest \in V
            BY <3>2, ConcatProperties
        <3> QED
            BY <3>1, <3>3
    <2> QED
        BY <2>1, <2>2
<1> DEFINE A(k, i, rest) == CASE i = -1 -> <<>>
                              [] i \in 0..(k - 1) -> Failed
                              [] OTHER -> IF rest = Failed THEN Failed
                                          ELSE SubSeq(s, k + 1, i) \o new \o rest
           C(k, x) == A(k, at[k], x)
           Is(f) == f = [k \in 0..Len(s) |-> A(k, index(k), f[index(k) + Len(p)])]
<1>6. \A k \in 0..L : \A x : C(k, x) = value(k, x)
    <2> TAKE k \in 0..L
    <2> TAKE x
    <2> DEFINE R == IF x = Failed THEN Failed ELSE SubSeq(s, k + 1, at[k]) \o new \o x
    <2>1. at[k] = -1 \/ at[k] \in Nat
        BY <1>2
    <2>2. R = IF x = Failed THEN Failed ELSE head[k] \o x
        <3> HIDE DEF at
        <3> QED
            OBVIOUS
    <2> HIDE DEF R, at
    <2>3. value(k, x) = IF at[k] = -1 THEN <<>> ELSE IF at[k] < k THEN Failed ELSE R
        <3> HIDE DEF head
        <3> QED
            BY <2>2
    <2>4. C(k, x) = CASE at[k] = -1 -> <<>> [] at[k] \in 0..(k - 1) -> Failed [] OTHER -> R
        BY DEF R
    <2> HIDE DEF C, value
    <2>5. CASE at[k] = -1
        <3>1. ~(at[k] \in 0..(k - 1))
            BY <2>5
        <3> QED
            BY <2>3, <2>4, <2>5, <3>1
    <2>6. CASE at[k] \in Nat /\ at[k] < k
        <3>1. at[k] # -1 /\ at[k] \in 0..(k - 1)
            BY <2>6
        <3> QED
            BY <2>3, <2>4, <2>6, <3>1
    <2>7. CASE at[k] \in Nat /\ ~(at[k] < k)
        <3>1. at[k] # -1 /\ ~(at[k] \in 0..(k - 1))
            BY <2>7
        <3> QED
            BY <2>3, <2>4, <2>7, <3>1
    <2> QED
        BY <2>1, <2>5, <2>6, <2>7
<1>7. \A f : Is(f) <=> f = [k \in 0..L |-> C(k, f[at[k] + n])]
    <2> TAKE f
    <2>1. \A k \in 0..L : index(k) = at[k]
        OBVIOUS
    <2> HIDE DEF at, index, A
    <2>2. \A k \in 0..L : A(k, index(k), f[index(k) + n]) = A(k, at[k], f[at[k] + n])
        BY <2>1
    <2>3. [k \in 0..L |-> A(k, index(k), f[index(k) + n])] = [k \in 0..L |-> A(k, at[k], f[at[k] + n])]
        BY <2>2
    <2> QED
        BY <1>1, <2>3
<1>8. LooksBack(body, L, V)
    <2> HIDE DEF at, head, T
    <2>1. \A r \in 0..L : L - r \in 0..L
        OBVIOUS
    <2>2. \A r \in 0..L, h \in [0..L -> V] : value(L - r, h[L - (at[L - r] + n)]) \in V
        <3> TAKE r \in 0..L, h \in [0..L -> V]
        <3>1. PICK k \in 0..L : k = L - r
            BY <2>1
        <3>2. CASE at[k] = -1 \/ at[k] < k
            BY <1>3, <3>1, <3>2
        <3>3. CASE ~(at[k] = -1 \/ at[k] < k)
            <4>0. at[k] \in Nat /\ k + at[k] + n <= L
                BY <1>2, <3>3
            <4> HIDE DEF at, value, body, V
            <4>1. L - (at[k] + n) \in 0..L
                <5>1. PICK m \in Nat : m = at[k]
                    BY <4>0
                <5>2. m + n <= L /\ m + n >= 0
                    BY <4>0, <5>1
                <5> QED
                    BY <5>1, <5>2
            <4>2. h[L - (at[k] + n)] \in V
                BY <4>1
            <4> QED
                BY <1>5, <3>1, <4>2
        <3> QED
            BY <3>2, <3>3
    <2>3. body \in [0..L -> [[0..L -> V] -> V]]
        <3> HIDE DEF value, V
        <3> QED
            BY <2>2
    <2>4. ASSUME NEW r \in 0..L, NEW g \in [0..L -> V], NEW h \in [0..L -> V],
                 \A m \in 0..L : m < r => g[m] = h[m]
          PROVE  body[r][g] = body[r][h]
        <3>1. PICK k \in 0..L : k = L - r /\ r = L - k
            BY <2>1
        <3>2. value(k, g[L - (at[k] + n)]) = value(k, h[L - (at[k] + n)])
            <4>1. CASE at[k] = -1 \/ at[k] < k
                BY <4>1
            <4>2. CASE ~(at[k] = -1 \/ at[k] < k)
                <5>0. at[k] \in Nat /\ k + at[k] + n <= L /\ k <= at[k]
                    BY <1>2, <4>2, SMTT(30)
                <5> HIDE DEF at, value, body, V
                <5>1. L - (at[k] + n) \in 0..L /\ L - (at[k] + n) < r
                    <6>1. PICK m \in Nat : m = at[k]
                        BY <5>0
                    <6>2. k + m + n <= L /\ k <= m /\ r = L - k /\ k \in Nat
                        BY <3>1, <5>0, <6>1
                    <6>3. L - (m + n) \in 0..L /\ L - (m + n) < r
                        BY <6>2
                    <6> QED
                        BY <6>1, <6>3
                <5> QED
                    BY <2>4, <5>1
            <4> QED
                BY <4>1, <4>2
        <3> HIDE DEF value, V
        <3> QED
            BY <3>1, <3>2
    <2> QED
        BY <2>3, <2>4 DEF LooksBack
<1>9. \E f : Is(f)
    <2>1. PICK h \in [0..L -> V] : \A r \in 0..L : h[r] = body[r][h]
        <3>1. V # {}
            BY <1>3
        <3> HIDE DEF body, V
        <3>2. Solved(body, L, V)
            BY <1>8, <3>1, CourseOfValues, Zenon
        <3> QED
            BY <3>2 DEF Solved
    <2> DEFINE f == [k \in 0..L |-> h[L - k]]
    <2>2. \A k \in 0..L : f[k] = C(k, f[at[k] + n])
        <3> TAKE k \in 0..L
        <3>0. L - k \in 0..L /\ k = L - (L - k)
            <4> HIDE DEF at, head, body, value, C, f, V, T, index
            <4> QED
                OBVIOUS
        <3>1. PICK r \in 0..L : r = L - k /\ k = L - r
            <4> HIDE DEF at, head, body, value, C, f, V, T, index
            <4> QED
                BY <3>0
        <3>2. h[r] = value(k, h[L - (at[k] + n)])
            <4> HIDE DEF value, V
            <4> QED
                BY <2>1, <3>1
        <3>3. value(k, h[L - (at[k] + n)]) = value(k, f[at[k] + n])
            <4> HIDE DEF at, head, V, T
            <4>1. CASE at[k] = -1 \/ at[k] < k
                BY <4>1
            <4>2. CASE ~(at[k] = -1 \/ at[k] < k)
                <5>1. at[k] + n \in 0..L
                    BY <1>2, <4>2
                <5>2. f[at[k] + n] = h[L - (at[k] + n)]
                    BY <5>1
                <5> HIDE DEF value, f
                <5> QED
                    BY <5>2
            <4> QED
                BY <4>1, <4>2
        <3>4. f[k] = h[r]
            BY <3>1
        <3> HIDE DEF value, C, f, at, V
        <3> QED
            BY <1>6, <3>2, <3>3, <3>4
    <2>3. f = [k \in 0..L |-> C(k, f[at[k] + n])]
        <3>1. f = [k \in 0..L |-> f[k]]
            OBVIOUS
        <3> HIDE DEF f, C
        <3> QED
            BY <2>2, <3>1
    <2> HIDE DEF f, C, Is, at
    <2> QED
        BY <1>7, <2>3
<1>10. PICK from : from = CHOOSE f : Is(f)
    OBVIOUS
<1>11. from = [k \in 0..L |-> C(k, from[at[k] + n])]
    <2> HIDE DEF Is, C, at
    <2> QED
        BY <1>7, <1>9, <1>10
<1>12. stringReplaceEx(s, p, new, FALSE) = from[0]
    BY <1>10 DEF stringReplaceEx
<1>13. \A k \in 0..L : from[k] = value(k, from[at[k] + n])
    <2> HIDE DEF C, at, value
    <2> QED
        BY <1>6, <1>11
<1>14. \A k \in 0..Len(s) :
           from[k] = LET i == stringIndexOfEx(Behind(s, k), p, FALSE)
                     IN  IF i = -1 THEN <<>>
                         ELSE IF i < k THEN Failed
                         ELSE IF from[i + Len(p)] = Failed THEN Failed
                         ELSE SubSeq(s, k + 1, i) \o new \o from[i + Len(p)]
    <2> TAKE k \in 0..Len(s)
    <2>1. k \in 0..L /\ at[k] = stringIndexOfEx(Behind(s, k), p, FALSE)
          /\ head[k] = SubSeq(s, k + 1, at[k]) \o new
        BY <1>1
    <2> HIDE DEF at, head
    <2> QED
        BY <1>1, <1>13, <2>1
<1> QED
    BY <1>12, <1>14 DEF ReplacesBy

\* A pattern found once, at the end of a text, is replaced by what is new.
LEMMA ReplacedAtEnd ==
    ASSUME NEW S, NEW s \in Seq(S), NEW p \in Seq(S), p # <<>>, NEW new \in Seq(S),
           NEW i, Matches(s, p, FALSE) = {i}, i = Len(s) - Len(p)
    PROVE  stringReplaceEx(s, p, new, FALSE) = stringInsert(s, i, new)
<1>1. PICK n \in Nat \ {0}, L \in Nat : n = Len(p) /\ L = Len(s)
    BY MatchesAre
<1>2. PICK from : ReplacesBy(from, s, p, new)
    BY ReplaceSteps
<1>3. Matches(s, p, FALSE) \subseteq Nat
    BY MatchesAre
<1>4. i \in Nat /\ i + n = L
    <2>1. i \in Matches(s, p, FALSE)
        OBVIOUS
    <2>2. PICK m \in Nat : m = i
        BY <1>3, <2>1
    <2>3. m = L - n
        BY <1>1, <2>2
    <2> QED
        BY <2>2, <2>3
<1>5. stringIndexOfEx(s, p, FALSE) = i
    BY <1>3, FirstIs
<1>6. Behind(s, 0) = s
    BY <1>1 DEF Behind
<1>7. Behind(s, L) = <<>>
    BY <1>1 DEF Behind
<1>8. stringIndexOfEx(Behind(s, L), p, FALSE) = -1
    <2>1. PICK j : j = stringIndexOfEx(Behind(s, L), p, FALSE)
        OBVIOUS
    <2>2. L \in 0..Len(s)
        BY <1>1
    <2>3. j = -1 \/ (j \in Nat /\ L + j + Len(p) <= Len(s))
        BY <2>1, <2>2, IndexBehind
    <2>4. CASE j \in Nat /\ L + j + Len(p) <= Len(s)
        <3>1. PICK m \in Nat : m = j
            BY <2>4
        <3>2. L + m + n <= L
            BY <1>1, <2>4, <3>1
        <3> QED
            BY <3>2
    <2> QED
        BY <2>1, <2>3, <2>4
<1>9. from[L] = <<>>
    <2>1. L \in 0..Len(s)
        BY <1>1
    <2> QED
        BY <1>2, <1>8, <2>1 DEF ReplacesBy
<1>10. <<>> # Failed
    BY DEF Failed
<1>11. from[0] = SubSeq(s, 1, i) \o new \o <<>>
    <2>1. 0 \in 0..Len(s) /\ ~(i < 0) /\ i # -1 /\ 0 + 1 = 1
        BY <1>1, <1>4
    <2>2. i + Len(p) = L
        BY <1>1, <1>4
    <2> QED
        BY <1>2, <1>5, <1>6, <1>9, <1>10, <2>1, <2>2 DEF ReplacesBy
<1>12. PICK u \in Seq(S) : u = SubSeq(s, 1, i)
    <2>1. SubSeq(s, 1, i) \in Seq(S)
        BY <1>1, <1>4
    <2> QED
        BY <2>1, Zenon
<1>13. (u \o new) \o <<>> = u \o new
    <2>1. u \o new \in Seq(S)
        BY ConcatProperties
    <2> QED
        BY <2>1, ConcatEmptySeq
<1> QED
    BY <1>2, <1>11, <1>12, <1>13 DEF stringInsert, ReplacesBy

\* Case folding, insertion and replacement agree with each other, for every text.
THEOREM EditsAgreeCorrect == TextSpec => []EditsAgree
<1>1. text \in Seq(Characters) => EditsAgree
    <2> SUFFICES ASSUME text \in Seq(Characters) PROVE EditsAgree
        OBVIOUS
    <2>1. /\ stringEqualsEx(stringToLower(text), stringToUpper(text), TRUE)
          /\ stringToLower(stringToUpper(text)) = stringToLower(text)
        BY CasesAgree
    <2>2. ASSUME NEW p \in Patterns, NEW n \in Patterns, NEW i \in 0..Len(text)
          PROVE  /\ Matches(text, p, FALSE) = {i} /\ i = Len(text) - Len(p) =>
                        stringReplaceEx(text, p, n, FALSE) = stringInsert(text, i, n)
                 /\ stringContainsEx(stringInsert(text, i, p), stringToUpper(p), TRUE)
        <3>1. p \in Seq(Characters) /\ p # <<>> /\ n \in Seq(Characters)
            BY TextAssumption
        <3>2. stringContainsEx(stringInsert(text, i, p), stringToUpper(p), TRUE)
            BY <3>1, InsertedIsFound
        <3>3. ASSUME Matches(text, p, FALSE) = {i}, i = Len(text) - Len(p)
              PROVE  stringReplaceEx(text, p, n, FALSE) = stringInsert(text, i, n)
            BY <3>1, <3>3, ReplacedAtEnd, ZenonT(60)
        <3> QED
            BY <3>2, <3>3
    <2> QED
        BY <2>1, <2>2 DEF EditsAgree
<1> QED
    BY <1>1, TextTypeCorrect, PTL

\* The string library as config.c and ttycmd.c rely on it: the five together.
THEOREM TextsAgreeCorrect == TextSpec => []TextsAgree
<1>1. SearchesAgree /\ TrimIsExact /\ SplitRejoins /\ NumbersAsWritten /\ EditsAgree => TextsAgree
    BY DEF TextsAgree
<1> QED
    BY <1>1, SearchesAgreeCorrect, TrimIsExactCorrect, SplitRejoinsCorrect,
       NumbersAsWrittenCorrect, EditsAgreeCorrect, PTL


(***************************************************************************)
(* Memory.                                                                 *)
(***************************************************************************)
\* m is a memory of N of the bytes B.
IsMemory(m, N, B) == m \in [0..(N - 1) -> B]
AreBytes(B) == 0 \in B /\ B \subseteq 0..255

LEMMA SizeIs ==
    ASSUME NEW N \in Nat, NEW B, NEW m, IsMemory(m, N, B)
    PROVE  SizeOf(m) = N /\ DOMAIN m = 0..(N - 1)
<1>1. DOMAIN m = 0..(N - 1)
    BY DEF IsMemory
<1>2. Cardinality(0..(N - 1)) = N
    <2>1. 0 \in Int /\ N - 1 \in Int
        OBVIOUS
    <2>2. Cardinality(0..(N - 1)) = IF 0 > N - 1 THEN 0 ELSE (N - 1) - 0 + 1
        BY <2>1, FS_Interval
    <2> QED
        BY <2>2
<1> QED
    BY <1>1, <1>2 DEF SizeOf

\* No byte is read that was written before.
Unspoilt(d, s, offsets) == \A i, j \in 1..Len(offsets) : j < i => s + offsets[i] # d + offsets[j]
Inside(p, N, offsets) == p \in Nat /\ \A i \in 1..Len(offsets) : p + offsets[i] \in 0..(N - 1)
\* The first i bytes are there.
After(m, d, s, offsets, i) ==
    [k \in DOMAIN m |-> IF \E j \in 1..i : k = d + offsets[j] THEN m[s + (k - d)] ELSE m[k]]

LEMMA CopiedIs ==
    ASSUME NEW N \in Nat, NEW B, NEW m, IsMemory(m, N, B), NEW d, NEW s, NEW offsets \in Seq(Int),
           Inside(d, N, offsets), Inside(s, N, offsets), Unspoilt(d, s, offsets)
    PROVE  Copied(m, d, s, offsets) = After(m, d, s, offsets, Len(offsets))
<1>1. PICK L \in Nat : L = Len(offsets) /\ \A i \in 1..L : offsets[i] \in Int
    BY LenProperties
<1>2. d \in Nat /\ s \in Nat
    BY DEF Inside
<1> DEFINE E(x, i) == [x EXCEPT ![d + offsets[i]] = x[s + offsets[i]]]
           w == [i \in 0..L |-> After(m, d, s, offsets, i)]
           Is(g) == g = [i \in 0..Len(offsets) |-> IF i = 0 THEN m ELSE E(g[i - 1], i)]
<1>3. DOMAIN m = 0..(N - 1)
    BY SizeIs
<1>4. w[0] = m
    <2>1. 0 \in 0..L /\ \A j \in 1..0 : FALSE
        OBVIOUS
    <2>2. After(m, d, s, offsets, 0) = [k \in DOMAIN m |-> m[k]]
        BY <2>1 DEF After
    <2>3. m = [k \in DOMAIN m |-> m[k]]
        BY DEF IsMemory
    <2> QED
        BY <2>1, <2>2, <2>3
<1>5. ASSUME NEW i \in 1..L PROVE E(w[i - 1], i) = w[i]
    <2>0. i - 1 \in 0..L
        OBVIOUS
    <2>1. PICK x : x = w[i - 1] /\ x = After(m, d, s, offsets, i - 1)
        BY <2>0
    <2>2. PICK o \in Int, p \in 0..(N - 1), q \in 0..(N - 1) :
              o = offsets[i] /\ p = d + o /\ q = s + o
        BY <1>1 DEF Inside
    <2>3. \A j \in 1..i : j \in 1..(i - 1) \/ j = i
        OBVIOUS
    <2>4. DOMAIN x = 0..(N - 1)
        BY <1>3, <2>1 DEF After
    <2>5. x[q] = m[q]
        <3>1. \A j \in 1..(i - 1) : q # d + offsets[j]
            <4> TAKE j \in 1..(i - 1)
            <4>1. j \in 1..L /\ i \in 1..L /\ j < i
                OBVIOUS
            <4> QED
                BY <1>1, <2>2, <4>1 DEF Unspoilt
        <3> QED
            BY <1>3, <2>1, <2>2, <3>1 DEF After
    <2>6. m[s + (p - d)] = m[q]
        <3>1. PICK a \in Nat, b \in Nat : a = d /\ b = s
            BY <1>2
        <3>2. b + (p - a) = q
            BY <2>2, <3>1
        <3> QED
            BY <3>1, <3>2
    <2>7. \A k \in 0..(N - 1) : [x EXCEPT ![p] = x[q]][k] = After(m, d, s, offsets, i)[k]
        <3> TAKE k \in 0..(N - 1)
        <3>1. [x EXCEPT ![p] = x[q]][k] = IF k = p THEN m[q] ELSE x[k]
            BY <2>4, <2>5
        <3>2. x[k] = IF \E j \in 1..(i - 1) : k = d + offsets[j] THEN m[s + (k - d)] ELSE m[k]
            BY <1>3, <2>1 DEF After
        <3>3. After(m, d, s, offsets, i)[k] =
                  IF \E j \in 1..i : k = d + offsets[j] THEN m[s + (k - d)] ELSE m[k]
            BY <1>3 DEF After
        <3>4. CASE k = p
            <4>1. i \in 1..i /\ k = d + offsets[i]
                BY <2>2, <3>4
            <4> QED
                BY <2>6, <3>1, <3>3, <3>4, <4>1
        <3>5. CASE k # p
            <4>1. (\E j \in 1..i : k = d + offsets[j]) <=> \E j \in 1..(i - 1) : k = d + offsets[j]
                <5>1. \A j \in 1..(i - 1) : j \in 1..i
                    OBVIOUS
                <5>2. k # d + offsets[i]
                    BY <2>2, <3>5
                <5> QED
                    BY <2>3, <5>1, <5>2, Zenon
            <4> QED
                BY <3>1, <3>2, <3>3, <3>5, <4>1
        <3> QED
            BY <3>4, <3>5
    <2>8. [x EXCEPT ![p] = x[q]] = After(m, d, s, offsets, i)
        <3>1. PICK y, z : y = [x EXCEPT ![p] = x[q]] /\ z = After(m, d, s, offsets, i)
            OBVIOUS
        <3>2. y = [k \in 0..(N - 1) |-> y[k]] /\ z = [k \in 0..(N - 1) |-> z[k]]
            BY <1>3, <2>4, <3>1 DEF After
        <3>3. \A k \in 0..(N - 1) : y[k] = z[k]
            BY <2>7, <3>1
        <3> QED
            BY <3>1, <3>2, <3>3, Zenon
    <2> HIDE DEF w
    <2>9. w[i] = After(m, d, s, offsets, i)
        BY DEF w
    <2> QED
        BY <2>1, <2>2, <2>8, <2>9
<1>6. Is(w)
    <2>1. \A i \in 0..L : w[i] = IF i = 0 THEN m ELSE E(w[i - 1], i)
        <3> TAKE i \in 0..L
        <3>1. i = 0 \/ i \in 1..L
            OBVIOUS
        <3>2. \A j \in 1..L : j # 0
            OBVIOUS
        <3> HIDE DEF w, E
        <3> QED
            BY <1>4, <1>5, <3>1, <3>2
    <2>2. w = [i \in 0..L |-> w[i]]
        OBVIOUS
    <2> HIDE DEF w, E
    <2>3. w = [i \in 0..L |-> IF i = 0 THEN m ELSE E(w[i - 1], i)]
        BY <2>1, <2>2
    <2> QED
        BY <1>1, <2>3
<1>7. PICK g : g = CHOOSE f : Is(f)
    OBVIOUS
<1>8. Is(g)
    <2> HIDE DEF w, Is
    <2> QED
        BY <1>6, <1>7
<1>9. g[L] = w[L]
    <2> DEFINE Z == {i \in Nat : i <= L => g[i] = w[i]}
    <2>0. \A i \in 0..L : g[i] = IF i = 0 THEN m ELSE E(g[i - 1], i)
        <3> HIDE DEF E
        <3> QED
            BY <1>1, <1>8
    <2> HIDE DEF w, E, Is
    <2>1. 0 \in Z
        <3>1. 0 \in 0..L
            OBVIOUS
        <3> QED
            BY <1>4, <2>0, <3>1
    <2>2. \A i \in Z : i + 1 \in Z
        <3> SUFFICES ASSUME NEW i \in Z, i + 1 <= L PROVE g[i + 1] = w[i + 1]
            OBVIOUS
        <3>1. i + 1 \in 1..L /\ i + 1 \in 0..L /\ i + 1 # 0 /\ (i + 1) - 1 = i /\ g[i] = w[i]
            OBVIOUS
        <3>2. g[i + 1] = E(g[i], i + 1)
            BY <2>0, <3>1
        <3>3. E(w[i], i + 1) = w[i + 1]
            BY <1>5, <3>1
        <3> QED
            BY <3>1, <3>2, <3>3
    <2>3. Z = Nat
        <3> HIDE DEF Z
        <3>1. Z \subseteq Nat
            BY DEF Z
        <3> QED
            BY <2>1, <2>2, <3>1, ByCounting
    <2> QED
        BY <2>3
<1>10. Copied(m, d, s, offsets) = g[L]
    BY <1>1, <1>7 DEF Copied
<1>11. w[L] = After(m, d, s, offsets, L)
    OBVIOUS
<1> QED
    BY <1>1, <1>9, <1>10, <1>11

\* All bytes at once.
Moved(m, d, s, n) == [k \in DOMAIN m |-> IF k \in d..(d + n - 1) THEN m[s + k - d] ELSE m[k]]
\* There is room for n bytes.
Room(p, N, n) == p \in Nat /\ n \in Nat /\ p + n <= N

LEMMA UpwardsIs ==
    ASSUME NEW n \in Nat
    PROVE  /\ Upwards(n) \in Seq(Int) /\ Len(Upwards(n)) = n
           /\ \A i \in 1..n : Upwards(n)[i] = i - 1
BY DEF Upwards

LEMMA DownwardsIs ==
    ASSUME NEW n \in Nat
    PROVE  /\ Downwards(n) \in Seq(Int) /\ Len(Downwards(n)) = n
           /\ \A i \in 1..n : Downwards(n)[i] = n - i
BY DEF Downwards

\* The numbers below n in some order.
Arranges(o, n) ==
    /\ Len(o) = n /\ \A i \in 1..n : o[i] \in 0..(n - 1)
    /\ \A k \in 0..(n - 1) : \E i \in 1..n : o[i] = k

\* Offsets that are all of 0..n - 1 copy n bytes.
LEMMA CopiedIsMoved ==
    ASSUME NEW N \in Nat, NEW B, NEW m, IsMemory(m, N, B), NEW d, NEW s, NEW n \in Nat,
           Room(d, N, n), Room(s, N, n), NEW o \in Seq(Int), Arranges(o, n), Unspoilt(d, s, o)
    PROVE  Copied(m, d, s, o) = Moved(m, d, s, n)
<1> USE DEF Arranges
<1>0. PICK a \in Nat, b \in Nat : a = d /\ b = s /\ a + n <= N /\ b + n <= N
    BY DEF Room
<1>1. \A i \in 1..n : o[i] \in Int
    OBVIOUS
<1>2. Inside(a, N, o) /\ Inside(b, N, o)
    <2>1. \A i \in 1..n : a + o[i] \in 0..(N - 1) /\ b + o[i] \in 0..(N - 1)
        <3> TAKE i \in 1..n
        <3>1. PICK j \in 0..(n - 1) : j = o[i]
            OBVIOUS
        <3>2. a + j \in 0..(N - 1) /\ b + j \in 0..(N - 1)
            BY <1>0
        <3> QED
            BY <3>1, <3>2
    <2> QED
        BY <2>1 DEF Inside
<1>3. Copied(m, a, b, o) = After(m, a, b, o, n)
    BY <1>0, <1>2, CopiedIs
<1>4. \A k \in 0..(N - 1) : (\E i \in 1..n : k = a + o[i]) <=> k \in a..(a + n - 1)
    <2> TAKE k \in 0..(N - 1)
    <2>1. ASSUME NEW i \in 1..n, k = a + o[i] PROVE k \in a..(a + n - 1)
        <3>1. PICK j \in 0..(n - 1) : j = o[i]
            OBVIOUS
        <3>2. a + j \in a..(a + n - 1)
            BY <1>0
        <3> QED
            BY <2>1, <3>1, <3>2
    <2>2. ASSUME k \in a..(a + n - 1) PROVE \E i \in 1..n : k = a + o[i]
        <3>1. k - a \in 0..(n - 1) /\ k = a + (k - a)
            BY <2>2
        <3>2. PICK i \in 1..n : o[i] = k - a
            BY <3>1
        <3> QED
            BY <3>1, <3>2
    <2> QED
        BY <2>1, <2>2
<1>5. \A k \in 0..(N - 1) : b + (k - a) = b + k - a
    OBVIOUS
<1>6. DOMAIN m = 0..(N - 1)
    BY SizeIs
<1>7. After(m, a, b, o, n) = Moved(m, a, b, n)
    <2>1. \A k \in 0..(N - 1) :
              (IF \E i \in 1..n : k = a + o[i] THEN m[b + (k - a)] ELSE m[k])
              = IF k \in a..(a + n - 1) THEN m[b + k - a] ELSE m[k]
        BY <1>4, <1>5
    <2> QED
        BY <1>6, <2>1 DEF After, Moved
<1> QED
    BY <1>0, <1>3, <1>7

LEMMA UpwardsCopies ==
    ASSUME NEW N \in Nat, NEW B, NEW m, IsMemory(m, N, B), NEW d, NEW s, NEW n \in Nat,
           Room(d, N, n), Room(s, N, n), d <= s \/ s + n <= d
    PROVE  Copied(m, d, s, Upwards(n)) = Moved(m, d, s, n)
<1>0. PICK a \in Nat, b \in Nat : a = d /\ b = s
    BY DEF Room
<1>1. PICK o \in Seq(Int) : o = Upwards(n) /\ Len(o) = n /\ \A i \in 1..n : o[i] = i - 1
    BY UpwardsIs
<1>2. \A i \in 1..n : o[i] \in 0..(n - 1)
    BY <1>1
<1>3. \A k \in 0..(n - 1) : \E i \in 1..n : o[i] = k
    <2> TAKE k \in 0..(n - 1)
    <2>1. k + 1 \in 1..n /\ (k + 1) - 1 = k
        OBVIOUS
    <2> QED
        BY <1>1, <2>1
<1>4. Unspoilt(a, b, o)
    <2> SUFFICES ASSUME NEW i \in 1..n, NEW j \in 1..n, j < i PROVE b + o[i] # a + o[j]
        BY <1>1 DEF Unspoilt
    <2>1. b + (i - 1) # a + (j - 1)
        BY <1>0
    <2> QED
        BY <1>1, <2>1
<1>5. Copied(m, a, b, o) = Moved(m, a, b, n)
    <2>1. Arranges(o, n)
        BY <1>1, <1>2, <1>3 DEF Arranges
    <2>2. Room(a, N, n) /\ Room(b, N, n)
        BY <1>0
    <2> QED
        BY <1>4, <2>1, <2>2, CopiedIsMoved
<1> QED
    BY <1>0, <1>1, <1>5

LEMMA DownwardsCopies ==
    ASSUME NEW N \in Nat, NEW B, NEW m, IsMemory(m, N, B), NEW d, NEW s, NEW n \in Nat,
           Room(d, N, n), Room(s, N, n), ~(d <= s)
    PROVE  Copied(m, d, s, Downwards(n)) = Moved(m, d, s, n)
<1>0. PICK a \in Nat, b \in Nat : a = d /\ b = s
    BY DEF Room
<1>1. PICK o \in Seq(Int) : o = Downwards(n) /\ Len(o) = n /\ \A i \in 1..n : o[i] = n - i
    BY DownwardsIs
<1>2. \A i \in 1..n : o[i] \in 0..(n - 1)
    BY <1>1
<1>3. \A k \in 0..(n - 1) : \E i \in 1..n : o[i] = k
    <2> TAKE k \in 0..(n - 1)
    <2>1. n - k \in 1..n /\ n - (n - k) = k
        OBVIOUS
    <2> QED
        BY <1>1, <2>1
<1>4. Unspoilt(a, b, o)
    <2> SUFFICES ASSUME NEW i \in 1..n, NEW j \in 1..n, j < i PROVE b + o[i] # a + o[j]
        BY <1>1 DEF Unspoilt
    <2>1. b + (n - i) # a + (n - j)
        BY <1>0
    <2> QED
        BY <1>1, <2>1
<1>5. Copied(m, a, b, o) = Moved(m, a, b, n)
    <2>1. Arranges(o, n)
        BY <1>1, <1>2, <1>3 DEF Arranges
    <2>2. Room(a, N, n) /\ Room(b, N, n)
        BY <1>0
    <2> QED
        BY <1>4, <2>1, <2>2, CopiedIsMoved
<1> QED
    BY <1>0, <1>1, <1>5

LEMMA MemmoveIs ==
    ASSUME NEW N \in Nat, NEW B, NEW m, IsMemory(m, N, B), NEW d, NEW s, NEW n \in Nat,
           Room(d, N, n), Room(s, N, n)
    PROVE  memmove(m, d, s, n) = Moved(m, d, s, n)
<1>1. CASE d <= s
    BY <1>1, UpwardsCopies DEF memmove, Direction
<1>2. CASE ~(d <= s)
    BY <1>2, DownwardsCopies DEF memmove, Direction
<1> QED
    BY <1>1, <1>2

LEMMA MovedStays ==
    ASSUME NEW N \in Nat, NEW B, NEW m, IsMemory(m, N, B), NEW d, NEW s, NEW n \in Nat,
           Room(d, N, n), Room(s, N, n)
    PROVE  IsMemory(Moved(m, d, s, n), N, B)
<1>1. PICK a \in Nat, b \in Nat : a = d /\ b = s /\ a + n <= N /\ b + n <= N
    BY DEF Room
<1>2. DOMAIN m = 0..(N - 1)
    BY SizeIs
<1>3. \A k \in 0..(N - 1) : (IF k \in a..(a + n - 1) THEN m[b + k - a] ELSE m[k]) \in B
    <2> TAKE k \in 0..(N - 1)
    <2>1. k \in a..(a + n - 1) => b + k - a \in 0..(N - 1)
        BY <1>1
    <2> QED
        BY <2>1 DEF IsMemory
<1>4. Moved(m, a, b, n) \in [0..(N - 1) -> B]
    BY <1>2, <1>3 DEF Moved
<1> QED
    BY <1>1, <1>4 DEF IsMemory

LEMMA MemsetStays ==
    ASSUME NEW N \in Nat, NEW B, AreBytes(B), NEW m, IsMemory(m, N, B), NEW d, NEW c \in B, NEW n
    PROVE  IsMemory(memset(m, d, c, n), N, B)
<1>1. c % 256 = c
    <2>1. c \in 0..255
        BY DEF AreBytes
    <2> QED
        BY <2>1
<1>2. DOMAIN m = 0..(N - 1)
    BY SizeIs
<1> QED
    BY <1>1, <1>2 DEF memset, IsMemory

\* The memory is one of bytes, and the table one of those given.
ClibTypes == (\E N \in Nat : IsMemory(memory, N, ByteValues)) /\ table \in Sorted

LEMMA FitsIs ==
    ASSUME NEW N \in Nat, NEW B, IsMemory(memory, N, B), NEW p, NEW n \in Lengths, Fits(p, n)
    PROVE  p \in 0..(N - 1) /\ n \in Nat /\ Room(p, N, n)
<1>1. SizeOf(memory) = N /\ Address = 0..(N - 1)
    BY SizeIs DEF Address
<1>2. p \in 0..(N - 1) /\ n \in 0..N /\ p + n <= N
    BY <1>1 DEF Fits, Lengths
<1> QED
    BY <1>2 DEF Room

LEMMA ClibTypeCorrect == ClibSpec => []ClibTypes
<1>1. AreBytes(ByteValues)
    BY ClibAssumption DEF AreBytes
<1>2. ClibInit => ClibTypes
    <2> SUFFICES ASSUME ClibInit PROVE ClibTypes
        OBVIOUS
    <2>1. IsFiniteSet(DOMAIN memory)
          /\ memory \in [0..(Cardinality(DOMAIN memory) - 1) -> ByteValues]
        BY ClibAssumption DEF ClibInit
    <2>2. Cardinality(DOMAIN memory) \in Nat
        BY <2>1, FS_CardinalityType
    <2> QED
        BY <2>1, <2>2 DEF ClibInit, ClibTypes, IsMemory
<1>3. ClibTypes /\ [ClibNext]_clibVars => ClibTypes'
    <2> SUFFICES ASSUME ClibTypes, [ClibNext]_clibVars PROVE ClibTypes'
        OBVIOUS
    <2>1. PICK N \in Nat : IsMemory(memory, N, ByteValues)
        BY DEF ClibTypes
    <2>2. table' \in Sorted
        BY DEF ClibTypes, ClibNext, clibVars
    <2>3. ASSUME NEW d \in Address, NEW s \in Address, NEW n \in Lengths, Fits(d, n), Fits(s, n),
                 memory' = memmove(memory, d, s, n)
          PROVE  IsMemory(memory', N, ByteValues)
        <3>1. n \in Nat /\ Room(d, N, n) /\ Room(s, N, n)
            BY <2>1, <2>3, FitsIs
        <3>2. PICK moved : moved = Moved(memory, d, s, n)
            OBVIOUS
        <3>3. memory' = moved
            BY <2>1, <2>3, <3>1, <3>2, MemmoveIs
        <3>4. IsMemory(moved, N, ByteValues)
            BY <2>1, <3>1, <3>2, MovedStays
        <3> QED
            BY <3>3, <3>4
    <2>4. ASSUME NEW d \in Address, NEW n \in Lengths, NEW c \in ByteValues,
                 memory' = memset(memory, d, c, n)
          PROVE  IsMemory(memory', N, ByteValues)
        <3>1. PICK set : set = memset(memory, d, c, n)
            OBVIOUS
        <3>2. IsMemory(set, N, ByteValues)
            BY <1>1, <2>1, <3>1, MemsetStays
        <3> QED
            BY <2>4, <3>1, <3>2
    <2>5. CASE UNCHANGED clibVars
        BY <2>5 DEF ClibTypes, clibVars
    <2>6. CASE ClibNext
        <3>1. IsMemory(memory', N, ByteValues)
            BY <2>3, <2>4, <2>6, Zenon DEF ClibNext
        <3> QED
            BY <2>2, <3>1 DEF ClibTypes
    <2> QED
        BY <2>5, <2>6
<1> QED
    BY <1>2, <1>3, PTL DEF ClibSpec

\* memmove copies all bytes at once, for any memory and any two regions of it.
THEOREM MovesAreExactCorrect == ClibSpec => []MovesAreExact
<1>1. ClibTypes => MovesAreExact
    <2> SUFFICES ASSUME ClibTypes PROVE MovesAreExact
        OBVIOUS
    <2>1. PICK N \in Nat : IsMemory(memory, N, ByteValues)
        BY DEF ClibTypes
    <2>2. ASSUME NEW d \in Address, NEW s \in Address, NEW n \in Lengths, Fits(d, n), Fits(s, n)
          PROVE  memmove(memory, d, s, n) = Moved(memory, d, s, n)
        <3>1. n \in Nat /\ Room(d, N, n) /\ Room(s, N, n)
            BY <2>1, <2>2, FitsIs
        <3> QED
            BY <2>1, <3>1, MemmoveIs
    <2> QED
        BY <2>2 DEF MovesAreExact, Moved, Address
<1> QED
    BY <1>1, ClibTypeCorrect, PTL

(***************************************************************************)
(* Strings in memory.                                                      *)
(***************************************************************************)
\* A zero is l behind s, and none before it.
EndsAfter(m, N, s, l) ==
    /\ s \in Nat /\ l \in Nat /\ s + l <= N - 1
    /\ m[s + l] = 0 /\ \A i \in 0..(l - 1) : m[s + i] # 0

LEMMA StringEnds ==
    ASSUME NEW N \in Nat, NEW B, NEW m, IsMemory(m, N, B), NEW s, IsString(m, s)
    PROVE  \E l \in Nat : EndsAfter(m, N, s, l)
<1>1. SizeOf(m) = N /\ DOMAIN m = 0..(N - 1)
    BY SizeIs
<1>2. s \in 0..(N - 1) /\ \E k \in s..(N - 1) : m[k] = 0
    BY <1>1 DEF IsString
<1>3. PICK k \in s..(N - 1) : m[k] = 0
    BY <1>2
<1> DEFINE Z == {l \in 0..(N - 1 - s) : m[s + l] = 0}
<1>4. Z \subseteq Nat
    BY <1>2
<1>5. k - s \in 0..(N - 1 - s) /\ s + (k - s) = k
    BY <1>2
<1>6. Z # {}
    BY <1>3, <1>5
<1>7. PICK l \in Z : \A j \in Z : l <= j
    BY <1>4, <1>6, LeastNumber
<1>8. l \in Nat /\ s + l <= N - 1 /\ m[s + l] = 0
    BY <1>2, <1>7
<1>9. \A i \in 0..(l - 1) : m[s + i] # 0
    <2> SUFFICES ASSUME NEW i \in 0..(l - 1), m[s + i] = 0 PROVE FALSE
        OBVIOUS
    <2>1. i \in 0..(N - 1 - s) /\ ~(l <= i)
        BY <1>2, <1>8
    <2>2. i \in Z
        BY <2>1
    <2> HIDE DEF Z
    <2> QED
        BY <1>7, <2>1, <2>2
<1> QED
    BY <1>2, <1>8, <1>9 DEF EndsAfter

LEMMA StrlenIs ==
    ASSUME NEW N \in Nat, NEW B, NEW m, IsMemory(m, N, B), NEW s, NEW l \in Nat, EndsAfter(m, N, s, l)
    PROVE  /\ strlen(m, s) = l /\ s \in 0..(N - 1) /\ s \in Nat
           /\ IsString(m, s) /\ Len(Chars(m, s)) = l
           /\ \A i \in 1..l : Chars(m, s)[i] = m[s + i - 1]
           /\ Chars(m, s) \in Seq(B)
<1>1. SizeOf(m) = N /\ DOMAIN m = 0..(N - 1)
    BY SizeIs
<1>2. s \in Nat /\ s + l <= N - 1 /\ m[s + l] = 0 /\ \A i \in 0..(l - 1) : m[s + i] # 0
    BY DEF EndsAfter
<1> DEFINE E(k) == m[s + k] = 0 /\ \A i \in 0..(k - 1) : m[s + i] # 0
<1>3. l \in 0..(N - s - 1) /\ E(l)
    BY <1>2
<1>4. \A k \in 0..(N - s - 1) : E(k) => k = l
    <2> TAKE k \in 0..(N - s - 1)
    <2>1. CASE k < l
        <3>1. k \in 0..(l - 1)
            BY <2>1
        <3> QED
            BY <1>2, <3>1
    <2>2. CASE l < k
        <3>1. l \in 0..(k - 1)
            BY <2>2
        <3> QED
            BY <1>2, <3>1
    <2> QED
        BY <2>1, <2>2
<1>5. strlen(m, s) = l
    <2>1. strlen(m, s) = CHOOSE k \in 0..(N - s - 1) : E(k)
        BY <1>1 DEF strlen
    <2> HIDE DEF E
    <2> QED
        BY <1>3, <1>4, <2>1
<1>6. s \in 0..(N - 1)
    BY <1>2
<1>7. IsString(m, s)
    <2>1. s + l \in s..(N - 1)
        BY <1>2
    <2> QED
        BY <1>1, <1>2, <1>6, <2>1 DEF IsString
<1>8. Chars(m, s) = [i \in 1..l |-> m[s + i - 1]]
    BY <1>5 DEF Chars
<1>9. \A i \in 1..l : m[s + i - 1] \in B
    <2> TAKE i \in 1..l
    <2>1. s + i - 1 \in 0..(N - 1)
        BY <1>2
    <2> QED
        BY <2>1 DEF IsMemory
<1> QED
    BY <1>2, <1>5, <1>6, <1>7, <1>8, <1>9

\* The text that has been written somewhere is the one that is there.
LEMMA CharsAre ==
    ASSUME NEW N \in Nat, NEW B, NEW m, IsMemory(m, N, B), NEW s \in Nat, NEW t \in Seq(B),
           s + Len(t) <= N - 1, m[s + Len(t)] = 0,
           \A i \in 1..Len(t) : m[s + i - 1] = t[i] /\ t[i] # 0
    PROVE  Chars(m, s) = t /\ EndsAfter(m, N, s, Len(t))
<1>1. PICK l \in Nat : l = Len(t)
    BY LenProperties
<1>2. EndsAfter(m, N, s, l)
    <2>1. \A i \in 0..(l - 1) : m[s + i] # 0
        <3> TAKE i \in 0..(l - 1)
        <3>1. i + 1 \in 1..l /\ s + (i + 1) - 1 = s + i
            OBVIOUS
        <3> QED
            BY <1>1, <3>1
    <2> QED
        BY <1>1, <2>1 DEF EndsAfter
<1>3. PICK c : c = Chars(m, s)
    OBVIOUS
<1>4. Len(c) = l /\ c \in Seq(B) /\ \A i \in 1..l : c[i] = m[s + i - 1]
    BY <1>2, <1>3, StrlenIs
<1>5. \A i \in 1..l : c[i] = t[i]
    BY <1>1, <1>4
<1>6. c = t
    BY <1>1, <1>4, <1>5, SeqEqual
<1> QED
    BY <1>1, <1>2, <1>3, <1>6

LEMMA PrefixIs ==
    ASSUME NEW B, NEW t \in Seq(B), NEW n \in Nat, NEW l \in Nat, l = Lesser(n, Len(t))
    PROVE  /\ l <= n /\ l <= Len(t)
           /\ Prefix(t, n) \in Seq(B) /\ Len(Prefix(t, n)) = l
           /\ \A i \in 1..l : Prefix(t, n)[i] = t[i]
<1>1. PICK L \in Nat : L = Len(t)
    BY LenProperties
<1>2. l <= n /\ l <= L
    BY <1>1 DEF Lesser
<1>3. Prefix(t, n) = SubSeq(t, 1, l)
    BY DEF Prefix
<1>4. \A i \in 1..l : t[i] \in B
    <2> TAKE i \in 1..l
    <2>1. i \in 1..L
        BY <1>2
    <2> QED
        BY <1>1, <2>1
<1>5. PICK p : p = SubSeq(t, 1, l)
    OBVIOUS
<1>6. p \in Seq(B) /\ Len(p) = l
    BY <1>4, <1>5, SubSeqProperties
<1>7. \A i \in 1..l : p[i] = t[i]
    <2> TAKE i \in 1..l
    <2>1. i \in 1..(l - 1 + 1) /\ 1 + i - 1 = i
        OBVIOUS
    <2>2. SubSeq(t, 1, l)[i] = t[1 + i - 1]
        BY <1>4, <2>1, SubSeqProperties
    <2> QED
        BY <1>5, <2>1, <2>2
<1> QED
    BY <1>1, <1>2, <1>3, <1>5, <1>6, <1>7

\* A text without zeros.
IsText(v, B) == v \in Seq(B) /\ \A i \in 1..Len(v) : v[i] # 0
\* The text v and its zero are written behind d, and nothing else.
WritesText(after, m, N, d, v) ==
    /\ d \in Nat /\ d + Len(v) <= N - 1
    /\ \A i \in 1..Len(v) : after[d + i - 1] = v[i]
    /\ after[d + Len(v)] = 0
    /\ \A k \in 0..(N - 1) : k \notin d..(d + Len(v)) => after[k] = m[k]

LEMMA CharsText ==
    ASSUME NEW N \in Nat, NEW B, NEW m, IsMemory(m, N, B), NEW s, NEW l \in Nat, EndsAfter(m, N, s, l)
    PROVE  IsText(Chars(m, s), B) /\ Len(Chars(m, s)) = l
<1>1. PICK t : t = Chars(m, s)
    OBVIOUS
<1>2. s \in Nat /\ \A i \in 0..(l - 1) : m[s + i] # 0
    BY DEF EndsAfter
<1>3. t \in Seq(B) /\ Len(t) = l /\ \A i \in 1..l : t[i] = m[s + i - 1]
    BY <1>1, StrlenIs, SMTT(60)
<1>4. \A i \in 1..l : t[i] # 0
    <2> TAKE i \in 1..l
    <2>1. i - 1 \in 0..(l - 1) /\ s + i - 1 = s + (i - 1)
        BY <1>2
    <2> QED
        BY <1>2, <1>3, <2>1
<1> QED
    BY <1>1, <1>3, <1>4 DEF IsText

LEMMA PrefixText ==
    ASSUME NEW B, NEW t, IsText(t, B), NEW n \in Nat
    PROVE  IsText(Prefix(t, n), B)
<1>0. t \in Seq(B)
    BY DEF IsText
<1>1. PICK L \in Nat : L = Len(t)
    BY <1>0, LenProperties
<1>2. PICK l \in Nat : l = Lesser(n, Len(t))
    BY <1>1 DEF Lesser
<1>3. PICK p : p = Prefix(t, n)
    OBVIOUS
<1>4. l <= Len(t) /\ p \in Seq(B) /\ Len(p) = l /\ \A i \in 1..l : p[i] = t[i]
    BY <1>0, <1>2, <1>3, PrefixIs
<1>5. \A i \in 1..l : i \in 1..L
    BY <1>1, <1>4
<1> QED
    BY <1>1, <1>3, <1>4, <1>5 DEF IsText

LEMMA WroteText ==
    ASSUME NEW N \in Nat, NEW B, NEW m, NEW after, IsMemory(after, N, B), NEW d,
           NEW v, IsText(v, B), WritesText(after, m, N, d, v)
    PROVE  Chars(after, d) = v
<1>1. v \in Seq(B) /\ d \in Nat
    BY DEF IsText, WritesText
<1>2. \A i \in 1..Len(v) : after[d + i - 1] = v[i] /\ v[i] # 0
    BY DEF IsText, WritesText
<1>3. d + Len(v) <= N - 1 /\ after[d + Len(v)] = 0
    BY DEF WritesText
<1> QED
    BY <1>1, <1>2, <1>3, CharsAre

JoinsTexts(w, u, v) == w = u \o v

LEMMA AppendedText ==
    ASSUME NEW N \in Nat, NEW B, NEW m, IsMemory(m, N, B), NEW after, IsMemory(after, N, B),
           NEW d, NEW l \in Nat, EndsAfter(m, N, d, l),
           NEW v, IsText(v, B), WritesText(after, m, N, d + l, v)
    PROVE  JoinsTexts(Chars(after, d), Chars(m, d), v)
<1>1. PICK u : u = Chars(m, d)
    OBVIOUS
<1>2. u \in Seq(B) /\ Len(u) = l /\ \A i \in 1..l : u[i] # 0
    BY <1>1, CharsText DEF IsText
<1>3. v \in Seq(B) /\ \A i \in 1..Len(v) : v[i] # 0
    BY DEF IsText
<1>4. PICK n \in Nat : n = Len(v)
    BY <1>3, LenProperties
<1>5. PICK w : w = u \o v
    OBVIOUS
<1>6. w \in Seq(B) /\ Len(w) = l + n
      /\ \A i \in 1..(l + n) : w[i] = IF i <= l THEN u[i] ELSE v[i - l]
    BY <1>2, <1>3, <1>4, <1>5, ConcatProperties
<1>7. d \in Nat /\ d + l + n <= N - 1
    BY <1>4 DEF EndsAfter, WritesText
<1>8. after[d + (l + n)] = 0
    <2>1. d + (l + n) = d + l + n
        BY <1>7
    <2> QED
        BY <1>4, <2>1 DEF WritesText
<1>9. \A i \in 1..(l + n) : after[d + i - 1] = w[i] /\ w[i] # 0
    <2> TAKE i \in 1..(l + n)
    <2>1. CASE i <= l
        <3>1. i \in 1..l
            BY <2>1
        <3>2. d + i - 1 \in 0..(N - 1) /\ d + i - 1 \notin (d + l)..(d + l + n)
            BY <1>7, <2>1
        <3>3. after[d + i - 1] = m[d + i - 1]
            BY <1>4, <3>2 DEF WritesText
        <3>4. u[i] = m[d + i - 1]
            BY <1>1, <3>1, StrlenIs
        <3> QED
            BY <1>2, <1>6, <2>1, <3>1, <3>3, <3>4
    <2>2. CASE ~(i <= l)
        <3>1. i - l \in 1..n /\ d + l + (i - l) - 1 = d + i - 1
            BY <1>7, <2>2
        <3>2. after[d + l + (i - l) - 1] = v[i - l]
            BY <1>4, <3>1 DEF WritesText
        <3> QED
            BY <1>3, <1>4, <1>6, <2>2, <3>1, <3>2
    <2> QED
        BY <2>1, <2>2
<1>10. d + (l + n) <= N - 1
    BY <1>7
<1>11. Chars(after, d) = w
    <2>1. Len(w) = l + n
        BY <1>6
    <2>2. d + Len(w) <= N - 1 /\ after[d + Len(w)] = 0
        BY <1>8, <1>10, <2>1
    <2>3. \A i \in 1..Len(w) : after[d + i - 1] = w[i] /\ w[i] # 0
        BY <1>9, <2>1
    <2> QED
        BY <1>6, <1>7, <2>2, <2>3, CharsAre, ZenonT(60)
<1> QED
    BY <1>1, <1>5, <1>11 DEF JoinsTexts

\* x is m but for the n bytes behind d, which are those behind s.
HasCopied(x, m, N, B, d, s, n) ==
    /\ IsMemory(x, N, B)
    /\ \A i \in 1..n : x[d + i - 1] = m[s + i - 1]
    /\ \A k \in 0..(N - 1) : k \notin d..(d + n - 1) => x[k] = m[k]

LEMMA MovedIs ==
    ASSUME NEW N \in Nat, NEW B, NEW m, IsMemory(m, N, B), NEW d \in Nat, NEW s \in Nat, NEW n \in Nat,
           d + n <= N, s + n <= N, d <= s \/ s + n <= d
    PROVE  HasCopied(memcpy(m, d, s, n), m, N, B, d, s, n)
<1>1. Room(d, N, n) /\ Room(s, N, n)
    BY DEF Room
<1>2. PICK x : x = Moved(m, d, s, n)
    OBVIOUS
<1>3. memcpy(m, d, s, n) = x
    BY <1>1, <1>2, UpwardsCopies DEF memcpy
<1>4. IsMemory(x, N, B)
    BY <1>1, <1>2, MovedStays
<1>5. \A k \in 0..(N - 1) : x[k] = IF k \in d..(d + n - 1) THEN m[s + k - d] ELSE m[k]
    BY <1>2, SizeIs DEF Moved
<1>6. \A i \in 1..n : x[d + i - 1] = m[s + i - 1]
    <2> TAKE i \in 1..n
    <2>1. d + i - 1 \in 0..(N - 1) /\ d + i - 1 \in d..(d + n - 1) /\ s + (d + i - 1) - d = s + i - 1
        OBVIOUS
    <2> QED
        BY <1>5, <2>1
<1> QED
    BY <1>3, <1>4, <1>5, <1>6 DEF HasCopied

LEMMA StrcpyWrites ==
    ASSUME NEW N \in Nat, NEW B, NEW m, IsMemory(m, N, B), NEW s, NEW l \in Nat, EndsAfter(m, N, s, l),
           NEW d \in Nat, d + l <= N - 1, d + l + 1 <= s \/ s + l < d
    PROVE  /\ IsMemory(strcpy(m, d, s), N, B)
           /\ WritesText(strcpy(m, d, s), m, N, d, Chars(m, s))
<1>1. s \in Nat /\ s + l <= N - 1 /\ m[s + l] = 0
    BY DEF EndsAfter
<1>2. PICK n \in Nat : n = l + 1
    OBVIOUS
<1>3. PICK x : x = memcpy(m, d, s, n)
    OBVIOUS
<1>4. d + n <= N /\ s + n <= N /\ (d <= s \/ s + n <= d)
    BY <1>1, <1>2
<1>5. /\ IsMemory(x, N, B)
      /\ \A i \in 1..n : x[d + i - 1] = m[s + i - 1]
      /\ \A k \in 0..(N - 1) : k \notin d..(d + n - 1) => x[k] = m[k]
    <2>1. HasCopied(x, m, N, B, d, s, n)
        BY <1>1, <1>3, <1>4, MovedIs
    <2> QED
        BY <2>1 DEF HasCopied
<1>6. strcpy(m, d, s) = x
    BY <1>2, <1>3, StrlenIs DEF strcpy
<1>7. PICK t : t = Chars(m, s)
    OBVIOUS
<1>8. Len(t) = l /\ \A i \in 1..l : t[i] = m[s + i - 1]
    BY <1>7, StrlenIs
<1>9. x[d + l] = 0
    <2>1. n \in 1..n /\ d + n - 1 = d + l /\ s + n - 1 = s + l
        BY <1>1, <1>2
    <2> QED
        BY <1>1, <1>5, <2>1
<1>10. \A i \in 1..l : x[d + i - 1] = t[i]
    <2>1. \A i \in 1..l : i \in 1..n
        BY <1>2
    <2> QED
        BY <1>5, <1>8, <2>1
<1>11. d..(d + n - 1) = d..(d + l)
    BY <1>2
<1>12. WritesText(x, m, N, d, t)
    BY <1>5, <1>8, <1>9, <1>10, <1>11 DEF WritesText
<1> QED
    BY <1>5, <1>6, <1>7, <1>12

LEMMA TerminatedWrites ==
    ASSUME NEW N \in Nat, NEW B, AreBytes(B), NEW m, IsMemory(m, N, B),
           NEW s, NEW L \in Nat, EndsAfter(m, N, s, L), NEW n \in Nat, NEW l \in Nat, l = Lesser(n, L),
           NEW d \in Nat, d + l <= N - 1, d + l + 1 <= s \/ s + L < d
    PROVE  /\ IsMemory(Terminated(m, d, s, n), N, B)
           /\ WritesText(Terminated(m, d, s, n), m, N, d, Prefix(Chars(m, s), n))
<1>1. s \in Nat /\ s + L <= N - 1
    BY DEF EndsAfter
<1>2. l <= L
    BY DEF Lesser
<1>3. PICK x : x = memcpy(m, d, s, l)
    OBVIOUS
<1>4. d + l <= N /\ s + l <= N /\ (d <= s \/ s + l <= d)
    BY <1>1, <1>2
<1>5. /\ IsMemory(x, N, B)
      /\ \A i \in 1..l : x[d + i - 1] = m[s + i - 1]
      /\ \A k \in 0..(N - 1) : k \notin d..(d + l - 1) => x[k] = m[k]
    <2>1. HasCopied(x, m, N, B, d, s, l)
        BY <1>1, <1>3, <1>4, MovedIs
    <2> QED
        BY <2>1 DEF HasCopied
<1>6. PICK y : y = [x EXCEPT ![d + l] = 0]
    OBVIOUS
<1>7. Terminated(m, d, s, n) = y
    BY <1>3, <1>6, StrlenIs DEF Terminated
<1>8. d + l \in 0..(N - 1)
    OBVIOUS
<1>9. IsMemory(y, N, B)
    BY <1>5, <1>6, <1>8 DEF IsMemory, AreBytes
<1>10. y[d + l] = 0 /\ \A k \in 0..(N - 1) : k # d + l => y[k] = x[k]
    BY <1>5, <1>6, <1>8 DEF IsMemory
<1>11. PICK t : t = Chars(m, s)
    OBVIOUS
<1>12. t \in Seq(B) /\ Len(t) = L /\ \A i \in 1..L : t[i] = m[s + i - 1]
    BY <1>11, StrlenIs, SMTT(30)
<1>13. PICK p : p = Prefix(t, n)
    OBVIOUS
<1>14. Len(p) = l /\ \A i \in 1..l : p[i] = t[i]
    BY <1>12, <1>13, PrefixIs, SMTT(30)
<1>15. \A i \in 1..l : y[d + i - 1] = p[i]
    <2> TAKE i \in 1..l
    <2>1. d + i - 1 \in 0..(N - 1) /\ d + i - 1 # d + l /\ i \in 1..L
        BY <1>2
    <2> QED
        BY <1>5, <1>10, <1>12, <1>14, <2>1, ZenonT(60)
<1>16. \A k \in 0..(N - 1) : k \notin d..(d + l) => y[k] = m[k]
    <2> TAKE k \in 0..(N - 1)
    <2>1. k \notin d..(d + l) => k # d + l /\ k \notin d..(d + l - 1)
        OBVIOUS
    <2> QED
        BY <1>5, <1>10, <2>1
<1>17. WritesText(y, m, N, d, p)
    BY <1>10, <1>14, <1>15, <1>16 DEF WritesText
<1> QED
    BY <1>7, <1>9, <1>11, <1>13, <1>17

LEMMA StrncpyWrites ==
    ASSUME NEW N \in Nat, NEW B, AreBytes(B), NEW m, IsMemory(m, N, B),
           NEW s, NEW L \in Nat, EndsAfter(m, N, s, L), NEW n \in Nat, NEW l \in Nat, l = Lesser(n, L),
           NEW d \in Nat, d + n <= N, d + n <= s \/ s + L < d
    PROVE  /\ \A i \in 1..n : strncpy(m, d, s, n)[d + i - 1] = IF i <= l THEN Chars(m, s)[i] ELSE 0
           /\ \A k \in 0..(N - 1) : k \notin d..(d + n - 1) => strncpy(m, d, s, n)[k] = m[k]
<1>1. s \in Nat /\ s + L <= N - 1
    BY DEF EndsAfter
<1>2. l <= L /\ l <= n
    BY DEF Lesser
<1>3. PICK x : x = memcpy(m, d, s, l)
    OBVIOUS
<1>4. d + l <= N /\ s + l <= N /\ (d <= s \/ s + l <= d)
    BY <1>1, <1>2
<1>5. /\ IsMemory(x, N, B)
      /\ \A i \in 1..l : x[d + i - 1] = m[s + i - 1]
      /\ \A k \in 0..(N - 1) : k \notin d..(d + l - 1) => x[k] = m[k]
    <2>1. HasCopied(x, m, N, B, d, s, l)
        BY <1>1, <1>3, <1>4, MovedIs
    <2> QED
        BY <2>1 DEF HasCopied
<1>6. PICK y : y = memset(x, d + l, 0, n - l)
    OBVIOUS
<1>7. strncpy(m, d, s, n) = y
    BY <1>3, <1>6, StrlenIs DEF strncpy
<1>8. \A k \in 0..(N - 1) : y[k] = IF k \in (d + l)..(d + n - 1) THEN 0 ELSE x[k]
    <2>1. DOMAIN x = 0..(N - 1)
        BY <1>5, SizeIs
    <2>2. 0 % 256 = 0
        BY SMT
    <2>3. d + l + (n - l) - 1 = d + n - 1
        OBVIOUS
    <2> QED
        BY <1>6, <2>1, <2>2, <2>3 DEF memset
<1>9. \A i \in 1..l : Chars(m, s)[i] = m[s + i - 1]
    <2>1. \A i \in 1..l : i \in 1..L
        BY <1>2
    <2> QED
        BY <2>1, StrlenIs
<1>10. \A i \in 1..n : y[d + i - 1] = IF i <= l THEN Chars(m, s)[i] ELSE 0
    <2> TAKE i \in 1..n
    <2>1. d + i - 1 \in 0..(N - 1) /\ (d + i - 1 \in (d + l)..(d + n - 1) <=> ~(i <= l))
        OBVIOUS
    <2>2. i <= l => i \in 1..l
        OBVIOUS
    <2> QED
        BY <1>5, <1>8, <1>9, <2>1, <2>2
<1>11. \A k \in 0..(N - 1) : k \notin d..(d + n - 1) => y[k] = m[k]
    <2> TAKE k \in 0..(N - 1)
    <2>1. k \notin d..(d + n - 1) => k \notin (d + l)..(d + n - 1) /\ k \notin d..(d + l - 1)
        BY <1>2
    <2> QED
        BY <1>5, <1>8, <2>1
<1> QED
    BY <1>7, <1>10, <1>11

LEMMA MayReceiveIs ==
    ASSUME NEW N \in Nat, NEW B, IsMemory(memory, N, B), NEW s, NEW L \in Nat, EndsAfter(memory, N, s, L),
           NEW d, NEW n \in Nat, MayReceive(d, n, s)
    PROVE  d \in Nat /\ d + n <= N /\ (d + n <= s \/ s + L < d)
<1>1. SizeOf(memory) = N /\ Address = 0..(N - 1)
    BY SizeIs DEF Address
<1>2. strlen(memory, s) = L
    BY StrlenIs
<1> QED
    BY <1>1, <1>2 DEF MayReceive, Fits

LEMMA OutsideIs ==
    ASSUME NEW N \in Nat, NEW B, IsMemory(memory, N, B), NEW after, NEW d \in Nat, NEW n \in Nat,
           NEW top, top = d + n - 1,
           \A k \in 0..(N - 1) : k \notin d..top => after[k] = memory[k]
    PROVE  Outside(after, d, n)
<1>1. Address = 0..(N - 1)
    BY SizeIs DEF Address
<1> QED
    BY <1>1 DEF Outside

\* strcpy, strcat, strncat and strncpy write the text they should and nothing else,
\* for any memory.
THEOREM CopiesAreTextsCorrect == ClibSpec => []CopiesAreTexts
<1>0. AreBytes(ByteValues)
    BY ClibAssumption DEF AreBytes
<1>1. ClibTypes => CopiesAreTexts
    <2> SUFFICES ASSUME ClibTypes PROVE CopiesAreTexts
        OBVIOUS
    <2>1. PICK N \in Nat : IsMemory(memory, N, ByteValues)
        BY DEF ClibTypes
    <2>2. SizeOf(memory) = N /\ Address = 0..(N - 1) /\ Lengths = 0..N
        BY <2>1, SizeIs DEF Address, Lengths
    <2> DEFINE Good(s, d, n, t, l) ==
           /\ MayReceive(d, Len(t) + 1, s) =>
                 LET after == strcpy(memory, d, s)
                 IN  Chars(after, d) = t /\ Outside(after, d, Len(t) + 1)
           /\ MayReceive(d, n, s) =>
                 LET after == stringCopyTo(memory, d, n, s)
                 IN  /\ \A i \in 1..n : after[d + i - 1] = IF i <= l THEN t[i] ELSE 0
                     /\ Outside(after, d, n)
           /\ d \in Strings =>
                 LET u == Chars(memory, d)
                 IN  /\ MayReceive(d, Len(u) + l + 1, s) =>
                            LET after == stringConcat(memory, d, n, s)
                            IN  /\ Chars(after, d) = u \o Prefix(t, n)
                                /\ Outside(after, d, Len(u) + l + 1)
                     /\ MayReceive(d, Len(u) + Len(t) + 1, s) =>
                            Chars(strcat(memory, d, s), d) = u \o t
    <2>3. ASSUME NEW s \in Strings, NEW d \in Address, NEW n \in Lengths,
                 NEW t, t = Chars(memory, s), NEW l, l = Len(Prefix(t, n))
          PROVE  Good(s, d, n, t, l)
        <3>1. IsString(memory, s) /\ n \in Nat
            BY <2>2 DEF Strings
        <3>2. PICK L \in Nat : EndsAfter(memory, N, s, L)
            BY <2>1, <3>1, StringEnds
        <3>3. IsText(t, ByteValues) /\ t \in Seq(ByteValues) /\ Len(t) = L
            BY <2>1, <2>3, <3>2, CharsText DEF IsText
        <3>4. PICK m \in Nat : m = Lesser(n, L)
            BY <3>1 DEF Lesser
        <3>5. m = l
            BY <2>3, <3>1, <3>3, <3>4, PrefixIs
        <3>6. IsText(Prefix(t, n), ByteValues)
            BY <3>1, <3>3, PrefixText
        <3>7. ASSUME MayReceive(d, L + 1, s)
              PROVE  Chars(strcpy(memory, d, s), d) = t /\ Outside(strcpy(memory, d, s), d, L + 1)
            <4>1. d \in Nat /\ d + (L + 1) <= N /\ (d + (L + 1) <= s \/ s + L < d)
                <5>1. L + 1 \in Nat
                    OBVIOUS
                <5> QED
                    BY <2>1, <3>2, <3>7, <5>1, MayReceiveIs
            <4>2. s \in Nat
                BY <3>2 DEF EndsAfter
            <4>3. d + L <= N - 1 /\ (d + L + 1 <= s \/ s + L < d)
                BY <4>1, <4>2
            <4>4. PICK after : after = strcpy(memory, d, s)
                OBVIOUS
            <4>5. IsMemory(after, N, ByteValues) /\ WritesText(after, memory, N, d, t)
                BY <2>1, <2>3, <3>2, <4>1, <4>3, <4>4, StrcpyWrites
            <4>6. Chars(after, d) = t
                BY <3>3, <4>5, WroteText
            <4>7. Outside(after, d, L + 1)
                <5>1. d + L = d + (L + 1) - 1 /\ L + 1 \in Nat
                    BY <4>1
                <5>2. \A k \in 0..(N - 1) : k \notin d..(d + L) => after[k] = memory[k]
                    BY <3>3, <4>5 DEF WritesText
                <5> QED
                    BY <2>1, <4>1, <5>1, <5>2, OutsideIs
            <4> QED
                BY <4>4, <4>6, <4>7
        <3>8. ASSUME MayReceive(d, n, s)
              PROVE  /\ \A i \in 1..n : stringCopyTo(memory, d, n, s)[d + i - 1] =
                                            IF i <= l THEN t[i] ELSE 0
                     /\ Outside(stringCopyTo(memory, d, n, s), d, n)
            <4>1. d \in Nat /\ d + n <= N /\ (d + n <= s \/ s + L < d)
                BY <2>1, <3>1, <3>2, <3>8, MayReceiveIs
            <4>2. PICK after : after = strncpy(memory, d, s, n)
                OBVIOUS
            <4>3. /\ \A i \in 1..n : after[d + i - 1] = IF i <= m THEN t[i] ELSE 0
                  /\ \A k \in 0..(N - 1) : k \notin d..(d + n - 1) => after[k] = memory[k]
                BY <1>0, <2>1, <2>3, <3>1, <3>2, <3>4, <4>1, <4>2, StrncpyWrites
            <4>4. Outside(after, d, n)
                BY <2>1, <3>1, <4>1, <4>3, OutsideIs
            <4> QED
                BY <3>5, <4>2, <4>3, <4>4 DEF stringCopyTo
        <3>9. ASSUME d \in Strings, NEW u, u = Chars(memory, d)
              PROVE  /\ MayReceive(d, Len(u) + l + 1, s) =>
                            LET after == stringConcat(memory, d, n, s)
                            IN  /\ Chars(after, d) = u \o Prefix(t, n)
                                /\ Outside(after, d, Len(u) + l + 1)
                     /\ MayReceive(d, Len(u) + Len(t) + 1, s) =>
                            Chars(strcat(memory, d, s), d) = u \o t
            <4>1. PICK U \in Nat : EndsAfter(memory, N, d, U)
                BY <2>1, <3>9, StringEnds DEF Strings
            <4>2. Len(u) = U /\ strlen(memory, d) = U /\ d \in Nat
                BY <2>1, <3>9, <4>1, StrlenIs
            <4>3. s \in Nat /\ m <= L
                BY <3>2, <3>4 DEF EndsAfter, Lesser
            <4>4. PICK p \in Nat : p = d + U
                BY <4>2
            <4>5. ASSUME MayReceive(d, U + m + 1, s)
                  PROVE  /\ Chars(stringConcat(memory, d, n, s), d) = u \o Prefix(t, n)
                         /\ Outside(stringConcat(memory, d, n, s), d, U + m + 1)
                <5>1. PICK r \in Nat : r = U + m + 1
                    OBVIOUS
                <5>2. d + r <= N /\ (d + r <= s \/ s + L < d)
                    BY <2>1, <3>2, <4>5, <5>1, MayReceiveIs
                <5>3. p + m <= N - 1 /\ (p + m + 1 <= s \/ s + L < p)
                    BY <4>2, <4>3, <4>4, <5>1, <5>2
                <5>4. PICK after : after = Terminated(memory, p, s, n)
                    OBVIOUS
                <5>5. IsMemory(after, N, ByteValues) /\ WritesText(after, memory, N, p, Prefix(t, n))
                    BY <1>0, <2>1, <2>3, <3>1, <3>2, <3>4, <5>3, <5>4, TerminatedWrites
                <5>6. Chars(after, d) = u \o Prefix(t, n)
                    <6>1. PICK v : v = Prefix(t, n)
                        OBVIOUS
                    <6>2. WritesText(after, memory, N, d + U, v) /\ IsText(v, ByteValues)
                        BY <3>6, <4>4, <5>5, <6>1
                    <6>3. JoinsTexts(Chars(after, d), Chars(memory, d), v)
                        BY <2>1, <4>1, <5>5, <6>2, AppendedText
                    <6> QED
                        BY <3>9, <6>1, <6>3 DEF JoinsTexts
                <5>7. Outside(after, d, r)
                    <6>1. Len(Prefix(t, n)) = m
                        BY <2>3, <3>5
                    <6>2. \A k \in 0..(N - 1) : k \notin p..(p + m) => after[k] = memory[k]
                        BY <5>5, <6>1 DEF WritesText
                    <6>3. \A k \in 0..(N - 1) : k \notin d..(p + m) => k \notin p..(p + m)
                        BY <4>2, <4>4
                    <6>4. \A k \in 0..(N - 1) : k \notin d..(p + m) => after[k] = memory[k]
                        BY <6>2, <6>3, Zenon
                    <6>5. p + m = d + r - 1
                        BY <4>2, <4>4, <5>1
                    <6> QED
                        BY <2>1, <4>2, <6>4, <6>5, OutsideIs
                <5> QED
                    BY <4>2, <4>4, <5>1, <5>4, <5>6, <5>7 DEF stringConcat, strncat
            <4>6. ASSUME MayReceive(d, U + L + 1, s)
                  PROVE  Chars(strcat(memory, d, s), d) = u \o t
                <5>1. PICK r \in Nat : r = U + L + 1
                    OBVIOUS
                <5>2. d + r <= N /\ (d + r <= s \/ s + L < d)
                    BY <2>1, <3>2, <4>6, <5>1, MayReceiveIs
                <5>3. p + L <= N - 1 /\ (p + L + 1 <= s \/ s + L < p)
                    BY <4>2, <4>3, <4>4, <5>1, <5>2
                <5>4. PICK after : after = strcpy(memory, p, s)
                    OBVIOUS
                <5>5. IsMemory(after, N, ByteValues) /\ WritesText(after, memory, N, p, t)
                    BY <2>1, <2>3, <3>2, <5>3, <5>4, StrcpyWrites
                <5>6. Chars(after, d) = u \o t
                    <6>1. WritesText(after, memory, N, d + U, t)
                        BY <4>4, <5>5
                    <6>2. JoinsTexts(Chars(after, d), Chars(memory, d), t)
                        BY <2>1, <3>3, <4>1, <5>5, <6>1, AppendedText
                    <6> QED
                        BY <3>9, <6>2 DEF JoinsTexts
                <5> QED
                    BY <4>2, <4>4, <5>4, <5>6 DEF strcat
            <4> QED
                BY <3>3, <3>5, <4>2, <4>5, <4>6
        <3> QED
            BY <3>3, <3>7, <3>8, <3>9
    <2>4. \A s \in Strings, d \in Address, n \in Lengths :
              Good(s, d, n, Chars(memory, s), Len(Prefix(Chars(memory, s), n)))
        <3> HIDE DEF Good
        <3> QED
            BY <2>3, Zenon
    <2> QED
        BY <2>4, Zenon DEF CopiesAreTexts
<1> QED
    BY <1>1, ClibTypeCorrect, PTL

(***************************************************************************)
(* Comparing.                                                              *)
(***************************************************************************)
LEMMA LeastIs ==
    ASSUME NEW S, S \subseteq Nat, S # {}, NEW default
    PROVE  /\ LeastOr(S, default) \in S /\ LeastOr(S, default) \in Nat
           /\ \A j \in S : LeastOr(S, default) <= j
<1>1. PICK x \in S : \A j \in S : x <= j
    BY LeastNumber
<1>2. Least(S) \in S /\ \A j \in S : Least(S) <= j
    <2> DEFINE E(i) == \A j \in S : i <= j
    <2>1. x \in S /\ E(x)
        BY <1>1
    <2>2. Least(S) = CHOOSE i \in S : E(i)
        BY DEF Least
    <2> HIDE DEF E
    <2>3. Least(S) \in S /\ E(Least(S))
        BY <2>1, <2>2
    <2> QED
        BY <2>3 DEF E
<1>3. LeastOr(S, default) = Least(S)
    BY DEF LeastOr
<1> QED
    BY <1>2, <1>3

\* The bytes are numbers.
LEMMA ByteIs ==
    ASSUME NEW N \in Nat, NEW B, AreBytes(B), NEW m, IsMemory(m, N, B), NEW k \in 0..(N - 1)
    PROVE  m[k] \in Nat
<1>1. m[k] \in B
    BY DEF IsMemory
<1>2. PICK b \in 0..255 : b = m[k]
    BY <1>1 DEF AreBytes
<1> QED
    BY <1>2

\* The two strings are the same up to k, and differ there or end there both.
FirstStop(m, s, t, a, b, k) ==
    /\ k \in Nat /\ k <= a /\ k <= b
    /\ \A i \in 0..(k - 1) : m[s + i] = m[t + i]
    /\ m[s + k] = m[t + k] => k = a /\ k = b
    /\ m[s + k] \in Nat /\ m[t + k] \in Nat

LEMMA StopsAre ==
    ASSUME NEW N \in Nat, NEW B, AreBytes(B), NEW m, IsMemory(m, N, B),
           NEW s, NEW t, NEW a \in Nat, NEW b \in Nat, EndsAfter(m, N, s, a), EndsAfter(m, N, t, b),
           NEW default, NEW k, k = LeastOr(Stops(m, s, t), default)
    PROVE  FirstStop(m, s, t, a, b, k)
<1>1. SizeOf(m) = N
    BY SizeIs
<1>2. /\ s \in Nat /\ s + a <= N - 1 /\ m[s + a] = 0 /\ \A i \in 0..(a - 1) : m[s + i] # 0
      /\ t \in Nat /\ t + b <= N - 1 /\ m[t + b] = 0 /\ \A i \in 0..(b - 1) : m[t + i] # 0
    BY DEF EndsAfter
<1>3. PICK W : W = Within(m, s, t)
    OBVIOUS
<1>4. \A i : i \in W <=> i \in Nat /\ s + i <= N - 1 /\ t + i <= N - 1
    BY <1>1, <1>2, <1>3 DEF Within
<1>5. PICK Z : Z = Stops(m, s, t)
    OBVIOUS
<1>6. Z = {i \in W : m[s + i] = 0 \/ m[s + i] # m[t + i]}
    BY <1>3, <1>5 DEF Stops
<1>7. Z \subseteq Nat
    BY <1>4, <1>6
<1>8. PICK l \in Nat : l <= a /\ l <= b /\ (l = a \/ l = b)
    <2>1. a <= b \/ b <= a
        OBVIOUS
    <2> QED
        BY <2>1
<1>9. l \in Z
    <2>1. l \in W
        BY <1>2, <1>4, <1>8
    <2>2. CASE l = a
        BY <1>2, <1>6, <2>1, <2>2
    <2>3. CASE l # a
        <3>1. l = b /\ l \in 0..(a - 1)
            BY <1>8, <2>3
        <3>2. m[t + l] = 0 /\ m[s + l] # 0
            BY <1>2, <3>1
        <3> QED
            BY <1>6, <2>1, <3>2
    <2> QED
        BY <2>2, <2>3
<1>10. k \in Z /\ k \in Nat /\ \A j \in Z : k <= j
    BY <1>5, <1>7, <1>9, LeastIs
<1>11. k <= a /\ k <= b
    <2>1. k <= l
        BY <1>9, <1>10
    <2> QED
        BY <1>8, <1>10, <2>1
<1>12. \A i \in 0..(k - 1) : m[s + i] = m[t + i]
    <2> TAKE i \in 0..(k - 1)
    <2>1. i \in W
        BY <1>2, <1>4, <1>10, <1>11
    <2>2. i \notin Z
        BY <1>10
    <2> QED
        BY <1>6, <2>1, <2>2
<1>13. m[s + k] = m[t + k] => k = a /\ k = b
    <2> SUFFICES ASSUME m[s + k] = m[t + k] PROVE k = a /\ k = b
        OBVIOUS
    <2>1. m[s + k] = 0 /\ m[t + k] = 0
        BY <1>6, <1>10
    <2>2. k \notin 0..(a - 1) /\ k \notin 0..(b - 1)
        BY <1>2, <2>1
    <2> QED
        BY <1>10, <1>11, <2>2
<1>14. m[s + k] \in Nat /\ m[t + k] \in Nat
    <2>1. s + k \in 0..(N - 1) /\ t + k \in 0..(N - 1)
        BY <1>2, <1>10, <1>11
    <2> QED
        BY <2>1, ByteIs
<1> QED
    BY <1>10, <1>11, <1>12, <1>13, <1>14 DEF FirstStop

LEMMA StopsMeet ==
    ASSUME NEW m, NEW N \in Nat, NEW B, IsMemory(m, N, B), NEW s \in Nat, NEW t \in Nat
    PROVE  Stops(m, s, t) = Stops(m, t, s)
<1>1. Within(m, s, t) = Within(m, t, s)
    <2>1. (IF s < t THEN t ELSE s) = IF t < s THEN s ELSE t
        OBVIOUS
    <2> QED
        BY <2>1 DEF Within
<1> QED
    BY <1>1 DEF Stops

\* Two texts are equal if they are as long and the same everywhere.
LEMMA TextsEqual ==
    ASSUME NEW B, NEW u \in Seq(B), NEW v \in Seq(B)
    PROVE  u = v <=> Len(u) = Len(v) /\ \A i \in 1..Len(u) : u[i] = v[i]
BY SeqEqual

\* What the prefixes of two strings are if the strings stop being the same at k.
LEMMA PrefixesCompare ==
    ASSUME NEW N \in Nat, NEW B, AreBytes(B), NEW m, IsMemory(m, N, B),
           NEW s, NEW t, NEW a \in Nat, NEW b \in Nat, EndsAfter(m, N, s, a), EndsAfter(m, N, t, b),
           NEW k, FirstStop(m, s, t, a, b, k), NEW n \in Nat
    PROVE  Prefix(Chars(m, s), n) = Prefix(Chars(m, t), n) <=> k >= n \/ m[s + k] = m[t + k]
<1>1. PICK u, v : u = Chars(m, s) /\ v = Chars(m, t)
    OBVIOUS
<1>2. /\ s \in Nat /\ u \in Seq(B) /\ Len(u) = a /\ \A i \in 1..a : u[i] = m[s + i - 1]
      /\ t \in Nat /\ v \in Seq(B) /\ Len(v) = b /\ \A i \in 1..b : v[i] = m[t + i - 1]
    BY <1>1, StrlenIs
<1>3. k \in Nat /\ k <= a /\ k <= b /\ (m[s + k] = m[t + k] => k = a /\ k = b)
    BY DEF FirstStop
<1>4. \A i \in 1..k : u[i] = v[i]
    <2> TAKE i \in 1..k
    <2> DEFINE j == i - 1
    <2>0. s \in Nat /\ t \in Nat
        BY <1>2
    <2>1. j \in 0..(k - 1) /\ s + j = s + i - 1 /\ t + j = t + i - 1
        BY ONLY <1>3, <2>0, i \in 1..k
    <2>2. m[s + j] = m[t + j]
        BY <2>1 DEF FirstStop
    <2>3. i \in 1..a /\ i \in 1..b
        BY <1>3
    <2> QED
        BY <1>2, <2>1, <2>2, <2>3
<1>5. PICK c \in Nat, d \in Nat : c = Lesser(n, a) /\ d = Lesser(n, b)
    BY DEF Lesser
<1>6. PICK p, q : p = Prefix(u, n) /\ q = Prefix(v, n)
    OBVIOUS
<1>7. /\ p \in Seq(B) /\ Len(p) = c /\ \A i \in 1..c : p[i] = u[i]
      /\ q \in Seq(B) /\ Len(q) = d /\ \A i \in 1..d : q[i] = v[i]
    <2>1. c = Lesser(n, Len(u)) /\ d = Lesser(n, Len(v)) /\ u \in Seq(B) /\ v \in Seq(B)
        BY <1>2, <1>5
    <2>2. p \in Seq(B) /\ Len(p) = c /\ \A i \in 1..c : p[i] = u[i]
        BY <1>6, <2>1, PrefixIs
    <2>3. q \in Seq(B) /\ Len(q) = d /\ \A i \in 1..d : q[i] = v[i]
        BY <1>6, <2>1, PrefixIs
    <2> QED
        BY <2>2, <2>3
<1>8. p = q <=> c = d /\ \A i \in 1..c : p[i] = q[i]
    BY <1>7, TextsEqual
<1>9. ASSUME k >= n \/ m[s + k] = m[t + k] PROVE p = q
    <2>1. c = d /\ c <= k
        BY <1>3, <1>5, <1>9 DEF Lesser
    <2>2. \A i \in 1..c : p[i] = q[i]
        <3> TAKE i \in 1..c
        <3>1. i \in 1..d /\ i \in 1..k
            BY <1>3, <2>1
        <3> QED
            BY <1>4, <1>7, <3>1
    <2> QED
        BY <1>8, <2>1, <2>2
<1>10. ASSUME p = q, k < n PROVE m[s + k] = m[t + k]
    <2>1. c = d /\ \A i \in 1..c : p[i] = q[i]
        BY <1>8, <1>10
    <2>2. CASE k < a /\ k < b
        <3>1. PICK i \in Nat : i = k + 1 /\ i \in 1..a /\ i \in 1..b /\ i \in 1..c /\ i \in 1..d
              /\ s + i - 1 = s + k /\ t + i - 1 = t + k
            BY <1>2, <1>3, <1>5, <1>10, <2>2 DEF Lesser
        <3> QED
            BY <1>2, <1>7, <2>1, <3>1
    <2>3. CASE ~(k < a /\ k < b)
        <3>1. k = a /\ k = b
            BY <1>3, <1>5, <1>10, <2>1, <2>3 DEF Lesser
        <3> QED
            BY <3>1 DEF EndsAfter
    <2> QED
        BY <2>2, <2>3
<1>11. p = q <=> k >= n \/ m[s + k] = m[t + k]
    <2>1. k >= n \/ k < n
        BY <1>3
    <2> QED
        BY <1>9, <1>10, <2>1
<1> QED
    BY <1>1, <1>6, <1>11

\* strcmp, strncmp and memcmp compare the texts, for any memory.
THEOREM ComparesTextsCorrect == ClibSpec => []ComparesTexts
<1>0. AreBytes(ByteValues)
    BY ClibAssumption DEF AreBytes
<1>1. ClibTypes => ComparesTexts
    <2> SUFFICES ASSUME ClibTypes PROVE ComparesTexts
        OBVIOUS
    <2>1. PICK N \in Nat : IsMemory(memory, N, ByteValues)
        BY DEF ClibTypes
    <2>2. SizeOf(memory) = N /\ Lengths = 0..N
        BY <2>1, SizeIs DEF Lengths
    <2>3. ASSUME NEW s \in Strings, NEW t \in Strings, NEW n \in Lengths,
                 NEW u, u = Chars(memory, s), NEW v, v = Chars(memory, t)
          PROVE  /\ strcmp(memory, s, t) = 0 <=> u = v
                 /\ strcmp(memory, s, t) = -strcmp(memory, t, s)
                 /\ strncmp(memory, s, t, n) = 0 <=> Prefix(u, n) = Prefix(v, n)
                 /\ Fits(s, n) /\ Fits(t, n) /\ memcmp(memory, s, t, n) = 0 =>
                        strncmp(memory, s, t, n) = 0
        <3>1. n \in Nat /\ n <= N
            BY <2>2
        <3>2. PICK a \in Nat : EndsAfter(memory, N, s, a)
            BY <2>1, StringEnds DEF Strings
        <3>3. PICK b \in Nat : EndsAfter(memory, N, t, b)
            BY <2>1, StringEnds DEF Strings
        <3>4. /\ s \in Nat /\ Len(u) = a /\ u \in Seq(ByteValues) /\ s + a <= N - 1
              /\ t \in Nat /\ Len(v) = b /\ v \in Seq(ByteValues)
            <4>1. s \in Nat /\ Len(u) = a /\ u \in Seq(ByteValues)
                BY <2>1, <2>3, <3>2, StrlenIs
            <4>2. t \in Nat /\ Len(v) = b /\ v \in Seq(ByteValues)
                BY <2>1, <2>3, <3>3, StrlenIs
            <4>3. s + a <= N - 1
                BY <3>2 DEF EndsAfter
            <4> QED
                BY <4>1, <4>2, <4>3
        <3>5. ASSUME NEW r \in Nat, NEW k, k = LeastOr(Stops(memory, s, t), r)
              PROVE  FirstStop(memory, s, t, a, b, k)
            BY <1>0, <2>1, <3>2, <3>3, <3>5, StopsAre
        <3>6. ASSUME NEW r \in Nat
              PROVE  strncmp(memory, s, t, r) = 0 <=> Prefix(u, r) = Prefix(v, r)
            <4>1. PICK k : k = LeastOr(Stops(memory, s, t), r)
                OBVIOUS
            <4>2. FirstStop(memory, s, t, a, b, k)
                BY <3>5, <4>1
            <4>3. PICK x \in Nat, y \in Nat : x = memory[s + k] /\ y = memory[t + k]
                BY <4>2 DEF FirstStop
            <4>4. strncmp(memory, s, t, r) = IF k >= r THEN 0 ELSE x - y
                BY <4>1, <4>3 DEF strncmp
            <4>5. Prefix(u, r) = Prefix(v, r) <=> k >= r \/ x = y
                BY <1>0, <2>1, <2>3, <3>2, <3>3, <4>2, <4>3, PrefixesCompare
            <4>6. x - y = 0 <=> x = y
                OBVIOUS
            <4> QED
                BY <4>4, <4>5, <4>6
        <3>7. Prefix(u, N) = u /\ Prefix(v, N) = v
            <4>1. t + b <= N - 1
                BY <3>3 DEF EndsAfter
            <4>2. a <= N /\ b <= N
                BY <3>4, <4>1
            <4>3. Lesser(N, a) = a /\ Lesser(N, b) = b
                BY <4>2 DEF Lesser
            <4>4. SubSeq(u, 1, a) = u
                BY <3>4
            <4>5. SubSeq(v, 1, b) = v
                BY <3>4
            <4> QED
                BY <3>4, <4>3, <4>4, <4>5 DEF Prefix
        <3>8. strcmp(memory, s, t) = 0 <=> u = v
            BY <2>2, <3>6, <3>7 DEF strcmp
        <3>9. strcmp(memory, s, t) = -strcmp(memory, t, s)
            <4>1. PICK k : k = LeastOr(Stops(memory, s, t), N)
                OBVIOUS
            <4>2. FirstStop(memory, s, t, a, b, k)
                BY <3>5, <4>1
            <4>3. PICK x \in Nat, y \in Nat : x = memory[s + k] /\ y = memory[t + k]
                BY <4>2 DEF FirstStop
            <4>4. Stops(memory, s, t) = Stops(memory, t, s)
                BY <2>1, <3>4, StopsMeet
            <4>5. strcmp(memory, s, t) = IF k >= N THEN 0 ELSE x - y
                BY <2>2, <4>1, <4>3 DEF strncmp, strcmp
            <4>6. strcmp(memory, t, s) = IF k >= N THEN 0 ELSE y - x
                BY <2>2, <4>1, <4>3, <4>4 DEF strncmp, strcmp
            <4>7. k \in Nat
                BY <4>2 DEF FirstStop
            <4> QED
                BY <4>5, <4>6, <4>7
        <3>10. ASSUME memcmp(memory, s, t, n) = 0, Fits(s, n), Fits(t, n)
               PROVE  strncmp(memory, s, t, n) = 0
            <4> DEFINE D == {i \in 0..(n - 1) : memory[s + i] # memory[t + i]}
            <4>1. D = {}
                <5> SUFFICES ASSUME D # {} PROVE FALSE
                    OBVIOUS
                <5>1. D \subseteq Nat
                    OBVIOUS
                <5>2. PICK j : j = LeastOr(D, n)
                    OBVIOUS
                <5>3. j \in D
                    BY <5>1, <5>2, LeastIs
                <5>4. j \in 0..(n - 1) /\ j # n /\ memory[s + j] # memory[t + j]
                    BY <3>1, <5>3
                <5>5. s + j \in 0..(N - 1) /\ t + j \in 0..(N - 1)
                    BY <2>2, <3>1, <3>4, <3>10, <5>4 DEF Fits
                <5>6. PICK x \in Nat, y \in Nat : x = memory[s + j] /\ y = memory[t + j]
                    BY <1>0, <2>1, <5>5, ByteIs
                <5>7. memcmp(memory, s, t, n) = x - y
                    BY <5>2, <5>4, <5>6 DEF memcmp
                <5>8. x # y
                    BY <5>4, <5>6
                <5> QED
                    BY <3>10, <5>7, <5>8
            <4>2. PICK k : k = LeastOr(Stops(memory, s, t), n)
                OBVIOUS
            <4>3. FirstStop(memory, s, t, a, b, k)
                BY <3>1, <3>5, <4>2
            <4>4. PICK x \in Nat, y \in Nat : x = memory[s + k] /\ y = memory[t + k]
                BY <4>3 DEF FirstStop
            <4>5. strncmp(memory, s, t, n) = IF k >= n THEN 0 ELSE x - y
                BY <4>2, <4>4 DEF strncmp
            <4>6. ~(k >= n) => x = y
                <5>1. k \in Nat
                    BY <4>3 DEF FirstStop
                <5>2. ~(k >= n) => k \in 0..(n - 1)
                    BY <3>1, <5>1
                <5> QED
                    BY <4>1, <4>4, <5>2
            <4> QED
                BY <4>5, <4>6
        <3> QED
            BY <3>1, <3>6, <3>8, <3>9, <3>10
    <2> QED
        BY <2>3 DEF ComparesTexts
<1> QED
    BY <1>1, ClibTypeCorrect, PTL

(***************************************************************************)
(* Searching.                                                              *)
(***************************************************************************)
\* The bytes of a string as its text has them.
LEMMA ByteOfText ==
    ASSUME NEW N \in Nat, NEW B, NEW m, IsMemory(m, N, B), NEW s, NEW l \in Nat, EndsAfter(m, N, s, l),
           NEW i \in 0..(l - 1)
    PROVE  Chars(m, s)[i + 1] = m[s + i] /\ s + i \in Nat
<1>1. s \in Nat
    BY DEF EndsAfter
<1>2. i + 1 \in 1..l /\ s + (i + 1) - 1 = s + i
    BY <1>1
<1>3. \A k \in 1..l : Chars(m, s)[k] = m[s + k - 1]
    BY StrlenIs
<1>4. Chars(m, s)[i + 1] = m[s + (i + 1) - 1]
    BY <1>2, <1>3
<1> QED
    BY <1>1, <1>2, <1>4

\* v is the part of u behind i.
IsPart(u, v, i) == Prefix(Tail0(u, i), Len(v)) = v <=> \A j \in 0..(Len(v) - 1) : u[i + j + 1] = v[j + 1]

LEMMA PartOfText ==
    ASSUME NEW B, NEW u \in Seq(B), NEW v \in Seq(B), NEW i \in Nat, i + Len(v) <= Len(u)
    PROVE  IsPart(u, v, i)
<1>1. PICK a \in Nat, b \in Nat : a = Len(u) /\ b = Len(v)
    BY LenProperties
<1>2. \A j \in (i + 1)..a : u[j] \in B
    <2> TAKE j \in (i + 1)..a
    <2>1. j \in 1..a
        OBVIOUS
    <2> QED
        BY <1>1, <2>1
<1>3. PICK r : r = Tail0(u, i)
    OBVIOUS
<1>4. r = SubSeq(u, i + 1, a)
    BY <1>1, <1>3 DEF Tail0
<1>5. r \in Seq(B) /\ Len(r) = a - i
    BY <1>1, <1>2, <1>4, SubSeqProperties
<1>6. \A j \in 1..b : r[j] = u[i + j]
    <2> TAKE j \in 1..b
    <2>1. j \in 1..(a - (i + 1) + 1) /\ (i + 1) + j - 1 = i + j /\ i + 1 \in Int
        BY <1>1
    <2>2. SubSeq(u, i + 1, a)[j] = u[(i + 1) + j - 1]
        BY <1>2, <2>1, SubSeqProperties
    <2> QED
        BY <1>4, <2>1, <2>2
<1>7. b = Lesser(b, Len(r))
    BY <1>1, <1>5 DEF Lesser
<1>8. PICK p : p = Prefix(r, b)
    OBVIOUS
<1>9. p \in Seq(B) /\ Len(p) = b /\ \A j \in 1..b : p[j] = r[j]
    BY <1>5, <1>7, <1>8, PrefixIs
<1>10. p = v <=> \A j \in 1..b : p[j] = v[j]
    BY <1>1, <1>9, TextsEqual
<1>11. p = v <=> \A j \in 1..b : u[i + j] = v[j]
    BY <1>6, <1>9, <1>10
<1>12. (\A j \in 1..b : u[i + j] = v[j]) <=> \A j \in 0..(b - 1) : u[i + j + 1] = v[j + 1]
    <2>1. ASSUME \A j \in 1..b : u[i + j] = v[j], NEW j \in 0..(b - 1) PROVE u[i + j + 1] = v[j + 1]
        <3>1. j + 1 \in 1..b /\ i + (j + 1) = i + j + 1
            OBVIOUS
        <3> QED
            BY <2>1, <3>1
    <2>2. ASSUME \A j \in 0..(b - 1) : u[i + j + 1] = v[j + 1], NEW j \in 1..b PROVE u[i + j] = v[j]
        <3>1. j - 1 \in 0..(b - 1) /\ i + (j - 1) + 1 = i + j /\ (j - 1) + 1 = j
            OBVIOUS
        <3> QED
            BY <2>2, <3>1
    <2> QED
        BY <2>1, <2>2
<1> QED
    BY <1>1, <1>3, <1>8, <1>11, <1>12 DEF IsPart

LEMMA StrstrIs ==
    ASSUME NEW N \in Nat, NEW B, NEW m, IsMemory(m, N, B),
           NEW s, NEW t, NEW a \in Nat, NEW b \in Nat, EndsAfter(m, N, s, a), EndsAfter(m, N, t, b),
           NEW u, u = Chars(m, s), NEW v, v = Chars(m, t)
    PROVE  strstr(m, s, t) # Null <=> u # <<>> /\ OccursIn(v, u)
<1>1. strlen(m, s) = a /\ strlen(m, t) = b
    BY StrlenIs
<1>2. s \in Nat /\ t \in Nat
    BY DEF EndsAfter
<1>3. u \in Seq(B) /\ Len(u) = a
    BY StrlenIs
<1>4. v \in Seq(B) /\ Len(v) = b
    BY StrlenIs
<1> DEFINE Same0(i) == \A j \in 0..(b - 1) : m[s + i + j] = m[t + j]
           K == {k \in s..(s + a - 1) : k + b <= s + a /\ MatchesAt(m, k, t)}
<1>5. ASSUME NEW i \in Nat, i + b <= a
      PROVE  Prefix(Tail0(u, i), Len(v)) = v <=> Same0(i)
    <2>0. i + Len(v) <= Len(u)
        BY <1>3, <1>4, <1>5
    <2>1. Prefix(Tail0(u, i), Len(v)) = v <=> \A j \in 0..(b - 1) : u[i + j + 1] = v[j + 1]
        <3>1. IsPart(u, v, i)
            BY <1>3, <1>4, <2>0, PartOfText
        <3> QED
            BY <1>4, <3>1 DEF IsPart
    <2>2. \A j \in 0..(b - 1) : u[i + j + 1] = m[s + i + j] /\ v[j + 1] = m[t + j]
        <3> TAKE j \in 0..(b - 1)
        <3>1. i + j \in 0..(a - 1) /\ s + (i + j) = s + i + j
            BY <1>2, <1>5
        <3>2. u[(i + j) + 1] = m[s + (i + j)]
            BY <3>1, ByteOfText
        <3>3. v[j + 1] = m[t + j]
            BY ByteOfText
        <3> QED
            BY <3>1, <3>2, <3>3
    <2> QED
        BY <2>1, <2>2
<1>6. \A i \in Nat : MatchesAt(m, s + i, t) <=> Same0(i)
    BY <1>1 DEF MatchesAt
<1>7. K # {} <=> \E i \in 0..(a - 1) : i + b <= a /\ Same0(i)
    <2>1. ASSUME NEW k \in K PROVE \E i \in 0..(a - 1) : i + b <= a /\ Same0(i)
        <3>1. k - s \in 0..(a - 1) /\ (k - s) + b <= a /\ s + (k - s) = k /\ k - s \in Nat
            BY <1>2
        <3>2. MatchesAt(m, s + (k - s), t)
            BY <3>1
        <3> HIDE DEF Same0
        <3> QED
            BY <1>6, <3>1, <3>2
    <2>2. ASSUME NEW i \in 0..(a - 1), i + b <= a, Same0(i) PROVE K # {}
        <3>1. s + i \in s..(s + a - 1) /\ (s + i) + b <= s + a /\ i \in Nat
            BY <1>2, <2>2
        <3>2. MatchesAt(m, s + i, t)
            BY <1>6, <2>2, <3>1
        <3> QED
            BY <3>1, <3>2
    <2> HIDE DEF Same0, K
    <2> QED
        BY <2>1, <2>2
<1>8. (\E i \in 0..(a - 1) : i + b <= a /\ Same0(i)) <=> u # <<>> /\ OccursIn(v, u)
    <2>1. OccursIn(v, u) <=> \E i \in 0..(a - b) : Same0(i)
        <3>1. \A i \in 0..(a - b) : i \in Nat /\ i + b <= a
            OBVIOUS
        <3>2. OccursIn(v, u) <=> \E i \in 0..(a - b) : Prefix(Tail0(u, i), Len(v)) = v
            BY <1>3, <1>4 DEF OccursIn
        <3> HIDE DEF Same0
        <3> QED
            BY <1>5, <3>1, <3>2
    <2>2. u # <<>> <=> a > 0
        BY <1>3, EmptySeq
    <2>3. ASSUME NEW i \in 0..(a - 1), i + b <= a, Same0(i) PROVE a > 0 /\ \E j \in 0..(a - b) : Same0(j)
        <3>1. a > 0 /\ i \in 0..(a - b)
            BY <2>3
        <3> HIDE DEF Same0
        <3> QED
            BY <2>3, <3>1
    <2>4. ASSUME a > 0, NEW i \in 0..(a - b), Same0(i) PROVE \E j \in 0..(a - 1) : j + b <= a /\ Same0(j)
        <3>1. CASE b = 0
            <4>1. Same0(0) /\ 0 \in 0..(a - 1) /\ 0 + b <= a
                BY <2>4, <3>1
            <4> HIDE DEF Same0
            <4> QED
                BY <4>1
        <3>2. CASE b # 0
            <4>1. i \in 0..(a - 1) /\ i + b <= a
                BY <3>2
            <4> HIDE DEF Same0
            <4> QED
                BY <2>4, <4>1
        <3> QED
            BY <3>1, <3>2
    <2> HIDE DEF Same0
    <2> QED
        BY <2>1, <2>2, <2>3, <2>4
<1>9. strstr(m, s, t) # Null <=> K # {}
    <2>1. strstr(m, s, t) = LeastOr(K, Null)
        BY <1>1 DEF strstr, Occurrence
    <2>2. K \subseteq Nat
        BY <1>2
    <2> HIDE DEF K
    <2>3. CASE K = {}
        BY <2>1, <2>3 DEF LeastOr
    <2>4. CASE K # {}
        <3>1. LeastOr(K, Null) \in Nat
            BY <2>2, <2>4, LeastIs
        <3>2. \A x \in Nat : x # Null
            BY DEF Null
        <3> QED
            BY <2>1, <2>4, <3>1, <3>2
    <2> QED
        BY <2>3, <2>4
<1> HIDE DEF K, Same0
<1> QED
    BY <1>7, <1>8, <1>9

\* How far the bytes of a string are, or are not, among those of another.
Divides(m, s, t, a) ==
    /\ \A i \in 0..(a - 1) : i < strspn(m, s, t) => Among(m, s, t, i)
    /\ strpbrk(m, s, t) = IF strcspn(m, s, t) = a THEN Null ELSE s + strcspn(m, s, t)

LEMMA SpansAre ==
    ASSUME NEW N \in Nat, NEW B, NEW m, IsMemory(m, N, B),
           NEW s, NEW t, NEW a \in Nat, NEW b \in Nat, EndsAfter(m, N, s, a), EndsAfter(m, N, t, b)
    PROVE  Divides(m, s, t, a)
<1>1. strlen(m, s) = a /\ s \in Nat
    BY StrlenIs
<1> DEFINE R == {i \in 0..(a - 1) : ~Among(m, s, t, i)}
           X == {i \in 0..(a - 1) : Among(m, s, t, i)}
           Y == {s + i : i \in X}
<1>2. strspn(m, s, t) = LeastOr(R, a) /\ strcspn(m, s, t) = LeastOr(X, a) /\ strpbrk(m, s, t) = LeastOr(Y, Null)
    BY <1>1 DEF strspn, strcspn, strpbrk
<1>3. R \subseteq Nat /\ X \subseteq 0..(a - 1) /\ X \subseteq Nat
    OBVIOUS
<1>4. Y \subseteq Nat
    BY <1>1, <1>3
<1>5. ASSUME NEW i \in 0..(a - 1), i < LeastOr(R, a) PROVE Among(m, s, t, i)
    <2> SUFFICES ASSUME ~Among(m, s, t, i) PROVE FALSE
        OBVIOUS
    <2>1. i \in R
        OBVIOUS
    <2> HIDE DEF R
    <2>2. LeastOr(R, a) \in Nat /\ LeastOr(R, a) <= i
        BY <1>3, <2>1, LeastIs
    <2> QED
        BY <1>5, <2>2
<1>6. CASE X = {}
    <2>1. Y = {}
        BY <1>6
    <2> HIDE DEF X, Y
    <2> QED
        BY <1>2, <1>5, <1>6, <2>1 DEF LeastOr, Divides
<1>7. CASE X # {}
    <2>1. PICK k : k = LeastOr(X, a)
        OBVIOUS
    <2>2. k \in X /\ \A j \in X : k <= j
        BY <1>3, <1>7, <2>1, LeastIs
    <2>3. k \in Nat /\ k # a
        BY <1>3, <2>2
    <2>4. s + k \in Y
        BY <2>2
    <2>5. \A y \in Y : s + k <= y
        <3> TAKE y \in Y
        <3>1. PICK j \in X : y = s + j
            OBVIOUS
        <3>2. j \in Nat /\ k <= j
            BY <1>3, <2>2
        <3> QED
            BY <1>1, <2>3, <3>1, <3>2
    <2>6. PICK y : y = LeastOr(Y, Null)
        OBVIOUS
    <2>7. y \in Y /\ y \in Nat /\ \A j \in Y : y <= j
        <3> HIDE DEF Y
        <3>1. Y # {}
            BY <2>4
        <3> QED
            BY <1>4, <2>6, <3>1, LeastIs
    <2>8. y = s + k
        <3>1. s + k <= y /\ y <= s + k
            BY <2>4, <2>5, <2>7
        <3> QED
            BY <1>1, <2>3, <2>7, <3>1
    <2> QED
        BY <1>2, <1>5, <2>1, <2>3, <2>6, <2>8 DEF Divides
<1> HIDE DEF R, X, Y
<1> QED
    BY <1>6, <1>7 DEF Divides

LEMMA SpanIsNumber ==
    ASSUME NEW N \in Nat, NEW B, NEW m, IsMemory(m, N, B),
           NEW s, NEW t, NEW a \in Nat, NEW b \in Nat, EndsAfter(m, N, s, a), EndsAfter(m, N, t, b)
    PROVE  strspn(m, s, t) \in Nat
<1> DEFINE R == {i \in 0..(a - 1) : ~Among(m, s, t, i)}
<1>1. strspn(m, s, t) = LeastOr(R, a)
    BY StrlenIs DEF strspn
<1>2. R \subseteq Nat
    OBVIOUS
<1> HIDE DEF R
<1>3. CASE R = {}
    BY <1>1, <1>3 DEF LeastOr
<1>4. CASE R # {}
    BY <1>1, <1>2, <1>4, LeastIs
<1> QED
    BY <1>3, <1>4

\* The hits lie between the first and the last.
LEMMA HitsAre ==
    ASSUME NEW N \in Nat, NEW B, NEW m, IsMemory(m, N, B), NEW s, NEW a \in Nat, EndsAfter(m, N, s, a),
           NEW c, NEW i \in 0..a, m[s + i] = c
    PROVE  /\ strchr(m, s, c) # Null
           /\ s + i \in strchr(m, s, c)..strrchr(m, s, c)
<1>1. strlen(m, s) = a /\ s \in Nat /\ s + a <= N - 1
    <2>1. strlen(m, s) = a
        BY StrlenIs
    <2> QED
        BY <2>1 DEF EndsAfter
<1>2. PICK H : H = Hits(m, s, c)
    OBVIOUS
<1>3. H = {k \in s..(s + a) : m[k] = c}
    BY <1>1, <1>2 DEF Hits
<1>4. H \subseteq Nat /\ s + i \in H
    BY <1>1, <1>3
<1>5. PICK f : f = LeastOr(H, Null)
    OBVIOUS
<1>6. f \in Nat /\ \A j \in H : f <= j
    BY <1>4, <1>5, LeastIs
<1>7. \A j \in H : j \in Nat /\ j <= s + a
    BY <1>1, <1>3
<1>8. PICK g : g = strrchr(m, s, c)
    OBVIOUS
<1> DEFINE E(k) == \A j \in H : j <= k
<1>9. \E k \in H : E(k)
    <2>1. \E k \in H : \A j \in H : j <= k
        <3>1. PICK top \in Nat : top = s + a
            BY <1>1
        <3>2. \A j \in H : j <= top
            BY <1>7, <3>1
        <3> QED
            BY <1>4, <3>2, GreatestNumber
    <2> QED
        BY <2>1
<1>10. g \in H /\ E(g)
    <2>1. g = CHOOSE k \in H : E(k)
        BY <1>2, <1>4, <1>8 DEF strrchr
    <2> HIDE DEF E
    <2> QED
        BY <1>9, <2>1
<1>11. strchr(m, s, c) = f
    BY <1>2, <1>5 DEF strchr
<1>12. f <= s + i /\ s + i <= g /\ g \in Nat
    BY <1>4, <1>6, <1>10
<1>13. s + i \in f..g /\ f # Null
    BY <1>1, <1>6, <1>12 DEF Null
<1> QED
    BY <1>8, <1>11, <1>13

\* strstr, strspn, strcspn, strpbrk, strchr and strrchr find what they should and
\* nothing else, for any memory.
THEOREM SearchesFindCorrect == ClibSpec => []SearchesFind
<1>0. AreBytes(ByteValues)
    BY ClibAssumption DEF AreBytes
<1>1. ClibTypes => SearchesFind
    <2> SUFFICES ASSUME ClibTypes PROVE SearchesFind
        OBVIOUS
    <2>1. PICK N \in Nat : IsMemory(memory, N, ByteValues)
        BY DEF ClibTypes
    <2> DEFINE Good(s, t, u, v, k) ==
                   /\ strstr(memory, s, t) # Null <=> u # <<>> /\ OccursIn(v, u)
                   /\ \A i \in 1..Len(u) : i <= strspn(memory, s, t) => strchr(memory, t, u[i]) # Null
                   /\ strpbrk(memory, s, t) = IF k = Len(u) THEN Null ELSE s + k
                   /\ \A c \in ByteValues :
                          /\ strchr(memory, s, c) = memchr(memory, s, c, Len(u) + 1)
                          /\ \A i \in 1..Len(u) : u[i] = c =>
                                 s + i - 1 \in strchr(memory, s, c)..strrchr(memory, s, c)
    <2>2. ASSUME NEW s \in Strings, NEW t \in Strings,
                 NEW u, u = Chars(memory, s), NEW v, v = Chars(memory, t), NEW k, k = strcspn(memory, s, t)
          PROVE  Good(s, t, u, v, k)
        <3>1. PICK a \in Nat : EndsAfter(memory, N, s, a)
            BY <2>1, StringEnds DEF Strings
        <3>2. PICK b \in Nat : EndsAfter(memory, N, t, b)
            BY <2>1, StringEnds DEF Strings
        <3>3. s \in Nat /\ Len(u) = a /\ strlen(memory, s) = a
            BY <2>1, <2>2, <3>1, StrlenIs
        <3>4. t \in Nat /\ strlen(memory, t) = b
            BY <2>1, <3>2, StrlenIs
        <3>5. \A i \in 1..a : u[i] = memory[s + (i - 1)] /\ i - 1 \in 0..(a - 1) /\ s + (i - 1) = s + i - 1
            <4> TAKE i \in 1..a
            <4>1. i - 1 \in 0..(a - 1) /\ s + (i - 1) = s + i - 1
                BY <3>3
            <4>2. \A j \in 1..a : u[j] = memory[s + j - 1]
                BY <2>1, <2>2, <3>1, StrlenIs
            <4> QED
                BY <4>1, <4>2
        <3>6. strstr(memory, s, t) # Null <=> u # <<>> /\ OccursIn(v, u)
            BY <2>1, <2>2, <3>1, <3>2, StrstrIs
        <3>7. /\ \A i \in 0..(a - 1) : i < strspn(memory, s, t) => Among(memory, s, t, i)
              /\ strpbrk(memory, s, t) = IF k = a THEN Null ELSE s + k
            <4>1. Divides(memory, s, t, a)
                BY <2>1, <3>1, <3>2, SpansAre
            <4> QED
                BY <2>2, <4>1 DEF Divides
        <3>8. \A i \in 1..a : i <= strspn(memory, s, t) => strchr(memory, t, u[i]) # Null
            <4> SUFFICES ASSUME NEW i \in 1..a, i <= strspn(memory, s, t)
                         PROVE  strchr(memory, t, u[i]) # Null
                OBVIOUS
            <4>1. Among(memory, s, t, i - 1)
                <5>1. strspn(memory, s, t) \in Nat
                    BY <2>1, <3>1, <3>2, SpanIsNumber
                <5>2. i - 1 < strspn(memory, s, t)
                    BY <5>1
                <5> QED
                    BY <3>5, <3>7, <5>2
            <4>2. PICK j \in 0..(b - 1) : memory[s + (i - 1)] = memory[t + j]
                BY <3>4, <4>1 DEF Among
            <4>3. j \in 0..b /\ memory[t + j] = u[i]
                BY <3>5, <4>2
            <4> QED
                BY <2>1, <3>2, <4>3, HitsAre
        <3>9. ASSUME NEW c \in ByteValues
              PROVE  strchr(memory, s, c) = memchr(memory, s, c, a + 1)
            <4>1. c % 256 = c
                <5>1. c \in 0..255
                    BY <1>0 DEF AreBytes
                <5> QED
                    BY <5>1
            <4>2. s + (a + 1) - 1 = s + a
                BY <3>3
            <4> QED
                BY <3>3, <4>1, <4>2 DEF strchr, memchr, Hits
        <3>10. ASSUME NEW c \in ByteValues, NEW i \in 1..a, u[i] = c
               PROVE  s + i - 1 \in strchr(memory, s, c)..strrchr(memory, s, c)
            <4>1. PICK j \in 0..a : j = i - 1
                BY <3>5
            <4>2. memory[s + j] = c /\ s + j = s + i - 1
                BY <3>5, <3>10, <4>1
            <4>3. s + j \in strchr(memory, s, c)..strrchr(memory, s, c)
                BY <2>1, <3>1, <4>2, HitsAre
            <4> QED
                BY <4>2, <4>3
        <3> QED
            BY <3>3, <3>6, <3>7, <3>8, <3>9, <3>10
    <2>3. \A s, t \in Strings :
              Good(s, t, Chars(memory, s), Chars(memory, t), strcspn(memory, s, t))
        <3> HIDE DEF Good
        <3> QED
            BY <2>2, Zenon
    <2> QED
        BY <2>3, Zenon DEF SearchesFind
<1> QED
    BY <1>1, ClibTypeCorrect, PTL

(***************************************************************************)
(* bsearch.                                                                *)
(***************************************************************************)
\* A range without its middle is the two halves.
LEMMA Halves ==
    ASSUME NEW n \in Nat \ {0}
    PROVE  \E h \in Nat, u \in Nat : /\ h = n \div 2 /\ u = UpperHalf(n)
                                     /\ h + 1 + u = n /\ h < n /\ u < n
<1>1. PICK h \in Nat : h = n \div 2 /\ (n = 2 * h \/ n = 2 * h + 1)
    OBVIOUS
<1>2. CASE n = 2 * h
    <2>1. n % 2 = 0
        BY <1>1, <1>2
    <2>2. UpperHalf(n) = h - 1
        BY <1>1, <2>1 DEF UpperHalf
    <2>3. PICK u \in Nat : u = h - 1
        BY <1>2
    <2> QED
        BY <1>1, <1>2, <2>2, <2>3
<1>3. CASE n = 2 * h + 1
    <2>1. n % 2 = 1
        BY <1>1, <1>3
    <2>2. UpperHalf(n) = h
        BY <1>1, <2>1 DEF UpperHalf
    <2> QED
        BY <1>1, <1>3, <2>2
<1> QED
    BY <1>1, <1>2, <1>3

\* One step of the search: up and down are what the halves of the range give.
Compared(t, key, base, n, up, down) ==
    IF n = 0 THEN Null
    ELSE LET pivot == base + (n \div 2)
         IN  IF pivot >= Len(t) THEN Null
             ELSE CASE key > t[pivot + 1] -> up
                    [] key = t[pivot + 1] -> pivot
                    [] OTHER -> down

\* search holds what is found in every range.
Halving(search, t, key) ==
    /\ bsearch(t, key) = search[Len(t)][0]
    /\ \A n \in 0..Len(t), base \in 0..Len(t) :
           search[n][base] = Compared(t, key, base, n, search[UpperHalf(n)][base + (n \div 2) + 1],
                                      search[n \div 2][base])

LEMMA SearchEnds ==
    ASSUME NEW t \in Seq(Nat), NEW key \in Nat
    PROVE  \E search : Halving(search, t, key)
<1>1. PICK L \in Nat : L = Len(t)
    BY LenProperties
<1> DEFINE R == (-1)..L
           V == [0..L -> R]
           body == [n \in 0..L |-> [h \in [0..L -> V] |->
                       [base \in 0..L |-> Compared(t, key, base, n, h[UpperHalf(n)][base + (n \div 2) + 1],
                                                   h[n \div 2][base])]]]
           Is(f) == f = [n \in 0..Len(t) |-> [base \in 0..Len(t) |->
                            Compared(t, key, base, n, f[UpperHalf(n)][base + (n \div 2) + 1],
                                     f[n \div 2][base])]]
<1>2. \A base \in 0..L, n \in 0..L : \A up, down :
          n = 0 \/ ~(base + (n \div 2) < L) => Compared(t, key, base, n, up, down) = Null
    BY <1>1 DEF Compared
<1>3. \A base \in 0..L, n \in 0..L, up \in R, down \in R :
          Compared(t, key, base, n, up, down) \in R
    <2> TAKE base \in 0..L, n \in 0..L, up \in R, down \in R
    <2>1. Null \in R
        BY DEF Null
    <2>2. CASE n = 0 \/ ~(base + (n \div 2) < L)
        BY <1>2, <2>1, <2>2
    <2>3. CASE n # 0 /\ base + (n \div 2) < L
        <3>1. PICK p \in Nat : p = base + (n \div 2)
            OBVIOUS
        <3>2. p \in R /\ ~(p >= L)
            BY <2>3, <3>1
        <3>3. Compared(t, key, base, n, up, down) =
                  CASE key > t[p + 1] -> up [] key = t[p + 1] -> p [] OTHER -> down
            BY <1>1, <2>3, <3>1, <3>2 DEF Compared
        <3> HIDE DEF R
        <3> QED
            BY <3>2, <3>3
    <2> QED
        BY <2>2, <2>3
<1>4. ASSUME NEW base \in 0..L, NEW n \in 0..L, n # 0, base + (n \div 2) < L
      PROVE  /\ UpperHalf(n) \in 0..L /\ UpperHalf(n) < n /\ n \div 2 \in 0..L /\ n \div 2 < n
             /\ base + (n \div 2) + 1 \in 0..L
    <2>0. n \in Nat \ {0}
        BY <1>4
    <2>1. PICK h \in Nat, u \in Nat : h = n \div 2 /\ u = UpperHalf(n) /\ h < n /\ u < n
        BY <2>0, Halves
    <2>2. u \in 0..L /\ h \in 0..L /\ base + h + 1 \in 0..L
        BY <1>4, <2>1
    <2> QED
        BY <2>1, <2>2
<1>5. LooksBack(body, L, V)
    <2>1. ASSUME NEW n \in 0..L, NEW h \in [0..L -> V], NEW base \in 0..L
          PROVE  Compared(t, key, base, n, h[UpperHalf(n)][base + (n \div 2) + 1], h[n \div 2][base]) \in R
        <3>1. CASE n = 0 \/ ~(base + (n \div 2) < L)
            <4>1. Null \in R
                BY DEF Null
            <4> QED
                BY <1>2, <3>1, <4>1
        <3>2. CASE n # 0 /\ base + (n \div 2) < L
            <4>1. PICK d \in 0..L, u \in 0..L, p \in 0..L :
                      d = n \div 2 /\ u = UpperHalf(n) /\ p = base + (n \div 2) + 1
                BY <1>4, <3>2
            <4>2. h[u][p] \in R /\ h[d][base] \in R
                OBVIOUS
            <4> HIDE DEF R, V
            <4> QED
                BY <1>3, <4>1, <4>2
        <3> QED
            BY <3>1, <3>2
    <2>2. body \in [0..L -> [[0..L -> V] -> V]]
        <3> HIDE DEF R
        <3>1. \A n \in 0..L, h \in [0..L -> V] :
                  [base \in 0..L |-> Compared(t, key, base, n, h[UpperHalf(n)][base + (n \div 2) + 1],
                                              h[n \div 2][base])] \in V
            BY <2>1
        <3> HIDE DEF V
        <3> QED
            BY <3>1
    <2>3. ASSUME NEW n \in 0..L, NEW g \in [0..L -> V], NEW h \in [0..L -> V],
                 \A m \in 0..L : m < n => g[m] = h[m]
          PROVE  body[n][g] = body[n][h]
        <3>1. \A base \in 0..L :
                  Compared(t, key, base, n, g[UpperHalf(n)][base + (n \div 2) + 1], g[n \div 2][base])
                  = Compared(t, key, base, n, h[UpperHalf(n)][base + (n \div 2) + 1], h[n \div 2][base])
            <4> TAKE base \in 0..L
            <4> HIDE DEF V, R
            <4>1. CASE n = 0 \/ ~(base + (n \div 2) < L)
                BY <1>2, <4>1
            <4>2. CASE n # 0 /\ base + (n \div 2) < L
                <5>1. g[UpperHalf(n)] = h[UpperHalf(n)] /\ g[n \div 2] = h[n \div 2]
                    BY <1>4, <2>3, <4>2
                <5> QED
                    BY <5>1
            <4> QED
                BY <4>1, <4>2
        <3>2. /\ body[n][g] = [base \in 0..L |->
                     Compared(t, key, base, n, g[UpperHalf(n)][base + (n \div 2) + 1], g[n \div 2][base])]
              /\ body[n][h] = [base \in 0..L |->
                     Compared(t, key, base, n, h[UpperHalf(n)][base + (n \div 2) + 1], h[n \div 2][base])]
            <4> HIDE DEF V, R
            <4> QED
                OBVIOUS
        <3> HIDE DEF body, V, R
        <3> QED
            BY <3>1, <3>2
    <2> HIDE DEF body, V
    <2> QED
        BY <2>2, <2>3 DEF LooksBack
<1>6. V # {}
    <2>1. [i \in 0..L |-> 0] \in V
        OBVIOUS
    <2> QED
        BY <2>1
<1>7. Solved(body, L, V)
    <2> HIDE DEF body, V
    <2> QED
        BY <1>5, <1>6, CourseOfValues, Zenon
<1>8. PICK h \in [0..L -> V] : \A n \in 0..L : h[n] = body[n][h]
    <2> HIDE DEF body, V
    <2> QED
        BY <1>7 DEF Solved
<1>9. \A n \in 0..L :
          h[n] = [base \in 0..L |->
                     Compared(t, key, base, n, h[UpperHalf(n)][base + (n \div 2) + 1], h[n \div 2][base])]
    <2> TAKE n \in 0..L
    <2> HIDE DEF V, R
    <2>1. h[n] = body[n][h]
        BY <1>8
    <2> QED
        BY <2>1
<1>10. Is(h)
    <2> HIDE DEF R
    <2>1. h = [n \in 0..L |-> h[n]]
        OBVIOUS
    <2> HIDE DEF V, body
    <2> QED
        BY <1>1, <1>9, <2>1
<1>11. PICK search : search = CHOOSE g : Is(g)
    OBVIOUS
<1>12. Is(search)
    <2> HIDE DEF Is
    <2> QED
        BY <1>10, <1>11
<1>13. bsearch(t, key) = search[Len(t)][0]
    BY <1>11, Zenon DEF bsearch, Compared
<1>14. \A n \in 0..Len(t), base \in 0..Len(t) :
           search[n][base] = Compared(t, key, base, n, search[UpperHalf(n)][base + (n \div 2) + 1],
                                      search[n \div 2][base])
    <2> TAKE n \in 0..Len(t), base \in 0..Len(t)
    <2>1. search[n] = [b \in 0..Len(t) |->
                     Compared(t, key, b, n, search[UpperHalf(n)][b + (n \div 2) + 1], search[n \div 2][b])]
        BY <1>12
    <2> QED
        BY <2>1
<1> QED
    BY <1>13, <1>14 DEF Halving

\* r is where key is in t, or Null if it is nowhere.
IsFound(r, t, key) ==
    \/ r = Null /\ \A i \in 1..Len(t) : t[i] # key
    \/ r \in 0..(Len(t) - 1) /\ t[r + 1] = key
\* The key is not before base, nor from top on.
Lies(t, key, base, top) ==
    /\ \A i \in 1..base : t[i] < key
    /\ \A i \in (top + 1)..Len(t) : t[i] > key

\* A search of a range in which the key lies, if it is anywhere, finds it.
LEMMA RangeSearched ==
    ASSUME NEW t \in Seq(Nat), Strictly(t), NEW key \in Nat, NEW search, Halving(search, t, key)
    PROVE  \A n \in 0..Len(t), base \in 0..Len(t) :
               base + n <= Len(t) /\ Lies(t, key, base, base + n) => IsFound(search[n][base], t, key)
<1>1. PICK L \in Nat : L = Len(t) /\ DOMAIN t = 1..L /\ \A i \in 1..L : t[i] \in Nat
    BY LenProperties
<1> DEFINE Good(n) == \A base \in 0..L :
               base + n <= L /\ Lies(t, key, base, base + n) => IsFound(search[n][base], t, key)
           Z == {n \in Nat : \A m \in 0..L : m < n => Good(m)}
<1>2. ASSUME NEW n \in 0..L, \A m \in 0..L : m < n => Good(m) PROVE Good(n)
    <2> SUFFICES ASSUME NEW base \in 0..L, base + n <= L, Lies(t, key, base, base + n)
                 PROVE  IsFound(search[n][base], t, key)
        OBVIOUS
    <2>1. search[n][base] = Compared(t, key, base, n, search[UpperHalf(n)][base + (n \div 2) + 1],
                                     search[n \div 2][base])
        BY <1>1 DEF Halving
    <2>2. CASE n = 0
        <3>1. search[n][base] = Null
            BY <2>1, <2>2 DEF Compared
        <3>2. \A i \in 1..L : t[i] # key
            <4> TAKE i \in 1..L
            <4>1. i \in 1..base \/ i \in (base + n + 1)..L
                BY <2>2
            <4>2. t[i] < key \/ t[i] > key
                BY <1>1, <4>1 DEF Lies
            <4>3. PICK x \in Nat : x = t[i]
                BY <1>1
            <4> QED
                BY <4>2, <4>3
        <3> QED
            BY <1>1, <3>1, <3>2 DEF IsFound
    <2>3. CASE n # 0
        <3>0. n \in Nat \ {0}
            BY <2>3
        <3>1. PICK h \in Nat, u \in Nat : h = n \div 2 /\ u = UpperHalf(n) /\ h + 1 + u = n /\ h < n /\ u < n
            BY <3>0, Halves
        <3>2. PICK p \in Nat : p = base + h /\ p < L /\ ~(p >= L)
            BY <3>1
        <3>3. p + 1 \in 1..L
            BY <3>2
        <3>4. PICK x \in Nat : x = t[p + 1]
            BY <1>1, <3>3
        <3>5. \A i \in 1..L : (i < p + 1 => t[i] < x) /\ (p + 1 < i => x < t[i])
            BY <1>1, <3>3, <3>4 DEF Strictly
        <3>6. search[n][base] = Compared(t, key, base, n, search[u][p + 1], search[h][base])
            BY <2>1, <3>1, <3>2
        <3>7. search[n][base] = CASE key > x -> search[u][p + 1] [] key = x -> p [] OTHER -> search[h][base]
            BY <1>1, <2>3, <3>1, <3>2, <3>4, <3>6 DEF Compared
        <3>8. CASE key > x
            <4>1. search[n][base] = search[u][p + 1]
                BY <3>7, <3>8
            <4>2. u \in 0..L /\ p + 1 \in 0..L /\ (p + 1) + u = base + n
                <5>1. u < n /\ n <= L
                    BY <3>1
                <5>2. u \in 0..L
                    BY <5>1
                <5>3. (base + h + 1) + u = base + (h + 1 + u)
                    OBVIOUS
                <5>4. (p + 1) + u = base + n
                    BY <3>1, <3>2, <5>3
                <5> QED
                    BY <3>2, <5>2, <5>4
            <4>3. Lies(t, key, p + 1, base + n)
                <5>1. \A i \in 1..(p + 1) : t[i] < key
                    <6> TAKE i \in 1..(p + 1)
                    <6>1. i \in 1..L /\ (i < p + 1 \/ i = p + 1)
                        BY <3>2
                    <6>2. PICK y \in Nat : y = t[i]
                        BY <1>1, <6>1
                    <6>3. y < x \/ y = x
                        BY <3>4, <3>5, <6>1, <6>2
                    <6>4. y < key
                        BY <3>8, <6>3
                    <6> QED
                        BY <6>2, <6>4
                <5> QED
                    BY <5>1 DEF Lies
            <4>4. Good(u)
                BY <1>2, <3>1, <4>2
            <4>5. (p + 1) + u <= L /\ Lies(t, key, p + 1, (p + 1) + u)
                BY <4>2, <4>3
            <4>6. IsFound(search[u][p + 1], t, key)
                BY <4>2, <4>4, <4>5
            <4> QED
                BY <4>1, <4>6
        <3>9. CASE key = x
            <4>1. ~(key > x)
                BY <3>9
            <4>2. search[n][base] = p
                BY <3>7, <3>9, <4>1
            <4> QED
                BY <1>1, <3>2, <3>4, <3>9, <4>2 DEF IsFound
        <3>10. CASE key < x
            <4>1. ~(key > x) /\ key # x
                BY <3>10
            <4>2. search[n][base] = search[h][base]
                BY <3>7, <4>1
            <4>3. h \in 0..L /\ base + h = p /\ p <= L
                BY <3>1, <3>2
            <4>4. Lies(t, key, base, p)
                <5>1. \A i \in (p + 1)..L : t[i] > key
                    <6> TAKE i \in (p + 1)..L
                    <6>1. i \in 1..L /\ (p + 1 < i \/ i = p + 1)
                        BY <3>2
                    <6>2. PICK y \in Nat : y = t[i]
                        BY <1>1, <6>1
                    <6>3. x < y \/ y = x
                        BY <3>4, <3>5, <6>1, <6>2
                    <6>4. y > key
                        BY <3>10, <6>3
                    <6> QED
                        BY <6>2, <6>4
                <5> QED
                    BY <1>1, <5>1 DEF Lies
            <4>5. Good(h)
                BY <1>2, <3>1, <4>3
            <4>6. base + h <= L /\ Lies(t, key, base, base + h)
                BY <4>3, <4>4
            <4>7. IsFound(search[h][base], t, key)
                BY <4>5, <4>6
            <4> QED
                BY <4>2, <4>7
        <3>11. key > x \/ key = x \/ key < x
            OBVIOUS
        <3> QED
            BY <3>8, <3>9, <3>10, <3>11
    <2> QED
        BY <2>2, <2>3
<1>3. Z = Nat
    <2> HIDE DEF Good
    <2>1. 0 \in Z
        <3>1. \A m \in 0..L : ~(m < 0)
            OBVIOUS
        <3> QED
            BY <3>1
    <2>2. \A n \in Z : n + 1 \in Z
        <3> SUFFICES ASSUME NEW n \in Z, NEW m \in 0..L, m < n + 1 PROVE Good(m)
            OBVIOUS
        <3>1. \A k \in 0..L : k < m => Good(k)
            <4> SUFFICES ASSUME NEW k \in 0..L, k < m PROVE Good(k)
                OBVIOUS
            <4>1. k < n
                OBVIOUS
            <4> QED
                BY <4>1
        <3> HIDE DEF Z
        <3> QED
            BY <1>2, <3>1
    <2>3. Z \subseteq Nat
        OBVIOUS
    <2> HIDE DEF Z
    <2> QED
        BY <2>1, <2>2, <2>3, ByCounting
<1>4. \A n \in 0..L : Good(n)
    <2> TAKE n \in 0..L
    <2> HIDE DEF Good
    <2>1. L + 1 \in Nat /\ n < L + 1
        OBVIOUS
    <2>2. L + 1 \in Z
        <3> HIDE DEF Z
        <3> QED
            BY <1>3, <2>1
    <2> QED
        BY <2>1, <2>2
<1> QED
    BY <1>1, <1>4

LEMMA BsearchIs ==
    ASSUME NEW t \in Seq(Nat), Strictly(t), NEW key \in Nat
    PROVE  IsFound(bsearch(t, key), t, key)
<1>1. PICK L \in Nat : L = Len(t)
    BY LenProperties
<1>2. PICK search : Halving(search, t, key)
    BY SearchEnds
<1>3. Lies(t, key, 0, 0 + L)
    <2>1. \A i \in 1..0 : FALSE
        OBVIOUS
    <2>2. \A i \in (L + 1)..L : FALSE
        OBVIOUS
    <2>3. 0 + L = L
        OBVIOUS
    <2> QED
        BY <1>1, <2>1, <2>2, <2>3 DEF Lies
<1>4. L \in 0..L /\ 0 \in 0..L /\ 0 + L <= L
    OBVIOUS
<1>5. IsFound(search[L][0], t, key)
    BY <1>1, <1>2, <1>3, <1>4, RangeSearched
<1> QED
    BY <1>1, <1>2, <1>5 DEF Halving

\* bsearch finds every key of any table in ascending order, and no other.
THEOREM BsearchFindsCorrect == ClibSpec => []BsearchFinds
<1>1. ClibTypes => BsearchFinds
    <2> SUFFICES ASSUME ClibTypes PROVE BsearchFinds
        OBVIOUS
    <2>1. table \in Seq(Nat) /\ Strictly(table)
        BY ClibAssumption DEF ClibTypes
    <2>2. PICK L \in Nat : L = Len(table) /\ DOMAIN table = 1..L
        BY <2>1, LenProperties
    <2>3. ASSUME NEW key \in 0..(2 * Len(table)), NEW found, found = bsearch(table, key)
          PROVE  /\ found # Null => table[found + 1] = key
                 /\ found = Null => \A i \in DOMAIN table : table[i] # key
        <3>1. key \in Nat
            BY <2>2
        <3>2. IsFound(found, table, key)
            BY <2>1, <2>3, <3>1, BsearchIs
        <3>3. \A r \in 0..(L - 1) : r # Null
            BY DEF Null
        <3> QED
            BY <2>2, <3>2, <3>3 DEF IsFound
    <2> QED
        BY <2>3 DEF BsearchFinds
<1> QED
    BY <1>1, ClibTypeCorrect, PTL

\* What stands for the C library does what its names promise: the five together.
THEOREM MemoryAgreesCorrect == ClibSpec => []MemoryAgrees
<1>1. MovesAreExact /\ CopiesAreTexts /\ ComparesTexts /\ SearchesFind /\ BsearchFinds => MemoryAgrees
    BY DEF MemoryAgrees
<1> QED
    BY <1>1, MovesAreExactCorrect, CopiesAreTextsCorrect, ComparesTextsCorrect,
       SearchesFindCorrect, BsearchFindsCorrect, PTL
================================================================================
