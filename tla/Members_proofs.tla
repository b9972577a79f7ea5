---------------------------- MODULE Members_proofs ----------------------------
(* Theorems about what members of the party become: how scripts raise them,   *)
(* which models they are seen in, and what healing costs them.                *)
EXTENDS Growth, Models, Healing, TLAPS, FiniteSetTheorems, WellFoundedInduction

(***************************************************************************)
(* Functions that are defined by recursion over the naturals, one value     *)
(* from the one before it.                                                  *)
(***************************************************************************)

\* A set of naturals that is not empty has a least element.
LEMMA LeastOf ==
    ASSUME NEW T, T \subseteq Nat, T # {}
    PROVE  \E x \in T : \A y \in T : ~(y < x)
<1>1. \E x \in T : \A y \in T : ~(<<y, x>> \in OpToRel(<, Nat))
    BY NatLessThanWellFounded, WFMin
<1> QED
    BY <1>1 DEF OpToRel

\* What holds of 0, and of each number when of the one before, holds of all.
LEMMA ByCounting ==
    ASSUME NEW T, T \subseteq Nat, 0 \in T, \A n \in T : n + 1 \in T
    PROVE  T = Nat
<1> SUFFICES ASSUME Nat \ T # {} PROVE FALSE
    OBVIOUS
<1>1. PICK x \in Nat \ T : \A y \in Nat \ T : ~(y < x)
    BY LeastOf
<1>2. x # 0 /\ x - 1 \in Nat /\ x - 1 < x
    BY <1>1
<1>3. x - 1 \in T
    BY <1>1, <1>2
<1>4. (x - 1) + 1 \in T
    BY <1>3
<1> QED
    BY <1>1, <1>4

\* The first values, up to the n-th.
Begun(g, b, step, n) ==
    /\ g = [i \in 0..n |-> g[i]] /\ g[0] = b
    /\ \A i \in 1..n : g[i] = step[i][g[i - 1]]

LEMMA BegunExtends ==
    ASSUME NEW b, NEW step, NEW n \in Nat, NEW g, Begun(g, b, step, n)
    PROVE  \E h : Begun(h, b, step, n + 1)
<1> DEFINE h == [i \in 0..(n + 1) |-> IF i = n + 1 THEN step[n + 1][g[n]] ELSE g[i]]
<1>1. h = [i \in 0..(n + 1) |-> h[i]]
    OBVIOUS
<1>2. h[0] = b
    BY DEF Begun
<1>3. \A i \in 1..(n + 1) : h[i] = step[i][h[i - 1]]
    <2> TAKE i \in 1..(n + 1)
    <2>1. CASE i = n + 1
        <3>1. h[i] = step[i][g[n]] /\ h[i - 1] = g[n]
            BY <2>1
        <3> QED
            BY <3>1
    <2>2. CASE i # n + 1
        <3>1. i \in 1..n /\ h[i] = g[i] /\ h[i - 1] = g[i - 1]
            BY <2>2
        <3> QED
            BY <3>1 DEF Begun
    <2> QED
        BY <2>1, <2>2
<1> HIDE DEF h
<1> QED
    BY <1>1, <1>2, <1>3 DEF Begun

LEMMA BegunExists ==
    ASSUME NEW b, NEW step
    PROVE  \A n \in Nat : \E g : Begun(g, b, step, n)
<1> DEFINE T == {n \in Nat : \E g : Begun(g, b, step, n)}
<1>1. 0 \in T
    <2>1. Begun([i \in 0..0 |-> b], b, step, 0)
        BY DEF Begun
    <2> QED
        BY <2>1
<1>2. \A n \in T : n + 1 \in T
    BY BegunExtends
<1>3. T = Nat
    <2> HIDE DEF T
    <2>1. T \subseteq Nat
        BY DEF T
    <2> QED
        BY <1>1, <1>2, <2>1, ByCounting
<1> QED
    BY <1>3

LEMMA BegunAgree ==
    ASSUME NEW b, NEW step, NEW n \in Nat, NEW m \in Nat, n <= m,
           NEW g, NEW h, Begun(g, b, step, n), Begun(h, b, step, m)
    PROVE  \A i \in 0..n : g[i] = h[i]
<1> DEFINE T == {i \in Nat : i <= n => g[i] = h[i]}
<1>1. 0 \in T
    BY DEF Begun
<1>2. \A i \in T : i + 1 \in T
    <2> TAKE i \in T
    <2>1. CASE i + 1 <= n
        <3>1. g[i] = h[i] /\ i + 1 \in 1..n /\ i + 1 \in 1..m /\ (i + 1) - 1 = i
            BY <2>1
        <3>2. g[i + 1] = step[i + 1][g[i]] /\ h[i + 1] = step[i + 1][h[i]]
            BY <3>1 DEF Begun
        <3> QED
            BY <3>1, <3>2
    <2>2. CASE ~(i + 1 <= n)
        BY <2>2
    <2> QED
        BY <2>1, <2>2
<1>3. T = Nat
    <2> HIDE DEF T
    <2>1. T \subseteq Nat
        BY DEF T
    <2> QED
        BY <1>1, <1>2, <2>1, ByCounting
<1> QED
    BY <1>3

\* There is a function with each value from the one before it.
LEMMA Recursion ==
    ASSUME NEW b, NEW step
    PROVE  \E f : f = [n \in Nat |-> IF n = 0 THEN b ELSE step[n][f[n - 1]]]
<1> DEFINE start(n) == CHOOSE g : Begun(g, b, step, n)
           f == [n \in Nat |-> start(n)[n]]
<1>1. \A n \in Nat : Begun(start(n), b, step, n)
    BY BegunExists
<1> HIDE DEF start
<1>2. f[0] = b
    BY <1>1 DEF Begun
<1>3. \A n \in Nat \ {0} : f[n] = step[n][f[n - 1]]
    <2> TAKE n \in Nat \ {0}
    <2>1. n - 1 \in Nat /\ n - 1 <= n /\ n - 1 \in 0..(n - 1) /\ n \in 1..n
        OBVIOUS
    <2>2. start(n - 1)[n - 1] = start(n)[n - 1]
        BY <1>1, <2>1, BegunAgree
    <2>3. start(n)[n] = step[n][start(n)[n - 1]]
        BY <1>1, <2>1 DEF Begun
    <2> QED
        BY <2>1, <2>2, <2>3
<1>4. f = [n \in Nat |-> IF n = 0 THEN b ELSE step[n][f[n - 1]]]
    BY <1>2, <1>3
<1> HIDE DEF f
<1> QED
    BY <1>4

(***************************************************************************)
(* Growth, for every member, every table of experience, stats and skills,   *)
(* and every target.                                                        *)
(***************************************************************************)
AnyStats == [0..5 -> 0..255]
MemberRecords ==
    [persona : OwnPersonas, lv : Nat, exp : Nat, stats : AnyStats, skills : [SkillSlots -> Nat]]

\* The inductive invariant
GrowthInv ==
    /\ member \in MemberRecords
    /\ member.lv >= BaseLevel /\ member.lv <= 99
    /\ been \subseteq OwnPersonas /\ member.persona \in been
    /\ ExpMatchesLevel /\ StatsMatchLevel /\ SkillsAreEarned

\* A row keeps stats that are bytes.
LEMMA RowKeepsStats ==
    ASSUME NEW stats \in AnyStats, NEW persona, NEW row,
           \A j \in 0..4 : Gain[persona][row][j] \in Nat
    PROVE  WithRow(stats, persona, row) \in AnyStats
<1> SUFFICES ASSUME NEW j \in 0..5
             PROVE  (IF j = 5 THEN stats[j] ELSE (stats[j] + Gain[persona][row][j]) % 256) \in 0..255
    BY DEF WithRow, AnyStats
<1>1. stats[j] \in 0..255
    BY DEF AnyStats
<1>2. CASE j = 5
    BY <1>1, <1>2
<1>3. CASE j # 5
    <2>1. PICK sum \in Nat : sum = stats[j] + Gain[persona][row][j]
        BY <1>1, <1>3
    <2>2. sum % 256 \in 0..255
        OBVIOUS
    <2> QED
        BY <1>3, <2>1, <2>2
<1> QED
    BY <1>2, <1>3

\* The rows of the levels from one on are those of the table, to the last.
LEMMA RowsAreThere ==
    ASSUME NEW persona \in OwnPersonas, NEW lv \in Nat, lv >= 1, NEW n \in Nat, n >= 1, n <= 99 - lv
    PROVE  \A j \in 0..4 : Gain[persona][RowOfLevel(lv) + n - 1][j] \in Nat
<1>1. PICK row \in 0..97 : row = RowOfLevel(lv) + n - 1
    BY DEF RowOfLevel
<1>2. Gain[persona] \in [0..97 -> [0..4 -> Nat]]
    BY GrowthAssumption
<1>3. Gain[persona][row] \in [0..4 -> Nat]
    BY <1>2
<1> QED
    BY <1>1, <1>3

\* What the stats are after so many rows: a row more than one before.
LEMMA GrownIs ==
    ASSUME NEW stats \in AnyStats, NEW persona \in OwnPersonas,
           NEW lv \in Nat, lv >= 1, lv <= 99
    PROVE  /\ GrownFrom(stats, persona, lv)[0] = stats
           /\ \A n \in Nat : n < 99 - lv =>
                  GrownFrom(stats, persona, lv)[n + 1] =
                      WithRow(GrownFrom(stats, persona, lv)[n], persona, RowOfLevel(lv) + n)
           /\ \A n \in Nat : n <= 99 - lv => GrownFrom(stats, persona, lv)[n] \in AnyStats
<1> DEFINE row(n) == RowOfLevel(lv) + n - 1
           step == [n \in Nat |-> [x \in AnyStats |-> WithRow(x, persona, row(n))]]
           IsGrown(f) == f = [n \in 0..(99 - lv) |-> IF n = 0 THEN stats
                                                     ELSE WithRow(f[n - 1], persona, row(n))]
<1>1. 99 - lv \in Nat
    OBVIOUS
<1>2. PICK g : Begun(g, stats, step, 99 - lv)
    BY <1>1, BegunExists
<1>3. \A n \in Nat, x \in AnyStats : step[n][x] = WithRow(x, persona, row(n))
    OBVIOUS
<1>4. \A n \in Nat, x \in AnyStats :
          n >= 1 /\ n <= 99 - lv => WithRow(x, persona, row(n)) \in AnyStats
    BY RowsAreThere, RowKeepsStats
<1> HIDE DEF step, row
<1>5. \A n \in Nat : n <= 99 - lv => g[n] \in AnyStats
    <2> DEFINE T == {n \in Nat : n <= 99 - lv => g[n] \in AnyStats}
    <2>1. 0 \in T
        BY <1>2 DEF Begun
    <2>2. \A n \in T : n + 1 \in T
        <3> SUFFICES ASSUME NEW n \in T, n + 1 <= 99 - lv PROVE g[n + 1] \in AnyStats
            OBVIOUS
        <3>1. n + 1 \in 1..(99 - lv) /\ (n + 1) - 1 = n /\ g[n] \in AnyStats /\ n + 1 \in Nat
            OBVIOUS
        <3>2. g[n + 1] = step[n + 1][g[n]]
            BY <1>2, <3>1 DEF Begun
        <3> QED
            BY <1>3, <1>4, <3>1, <3>2
    <2>3. T = Nat
        <3> HIDE DEF T
        <3>1. T \subseteq Nat
            BY DEF T
        <3> QED
            BY <2>1, <2>2, <3>1, ByCounting
    <2> QED
        BY <2>3
<1>6. IsGrown(g)
    <2>1. g = [n \in 0..(99 - lv) |-> g[n]] /\ g[0] = stats
        BY <1>2 DEF Begun
    <2>2. \A n \in 1..(99 - lv) : g[n] = WithRow(g[n - 1], persona, row(n))
        <3> TAKE n \in 1..(99 - lv)
        <3>1. n \in Nat /\ n - 1 \in Nat /\ n - 1 <= 99 - lv
            OBVIOUS
        <3>2. g[n] = step[n][g[n - 1]]
            BY <1>2 DEF Begun
        <3> QED
            BY <1>3, <1>5, <3>1, <3>2
    <2>3. \A n \in 0..(99 - lv) :
              g[n] = IF n = 0 THEN stats ELSE WithRow(g[n - 1], persona, row(n))
        <3> TAKE n \in 0..(99 - lv)
        <3>1. n = 0 \/ n \in 1..(99 - lv)
            OBVIOUS
        <3> QED
            BY <2>1, <2>2, <3>1
    <2> QED
        BY <2>1, <2>3
<1>7. IsGrown(GrownFrom(stats, persona, lv))
    BY <1>6 DEF GrownFrom, row
<1>8. \A f : IsGrown(f) => \A n \in Nat : n <= 99 - lv => f[n] = g[n]
    <2> SUFFICES ASSUME NEW f, IsGrown(f) PROVE \A n \in Nat : n <= 99 - lv => f[n] = g[n]
        OBVIOUS
    <2> DEFINE T == {n \in Nat : n <= 99 - lv => f[n] = g[n]}
    <2>1. 0 \in T
        BY <1>6
    <2>2. \A n \in T : n + 1 \in T
        <3> SUFFICES ASSUME NEW n \in T, n + 1 <= 99 - lv PROVE f[n + 1] = g[n + 1]
            OBVIOUS
        <3>1. n + 1 \in 0..(99 - lv) /\ n + 1 # 0 /\ (n + 1) - 1 = n /\ f[n] = g[n]
            OBVIOUS
        <3>2. f[n + 1] = WithRow(f[n], persona, row(n + 1))
            BY <3>1
        <3>3. g[n + 1] = WithRow(g[n], persona, row(n + 1))
            BY <1>6, <3>1
        <3> QED
            BY <3>1, <3>2, <3>3
    <2>3. T = Nat
        <3> HIDE DEF T
        <3>1. T \subseteq Nat
            BY DEF T
        <3> QED
            BY <2>1, <2>2, <3>1, ByCounting
    <2> QED
        BY <2>3
<1>9. \A n \in Nat : n < 99 - lv =>
          /\ n + 1 \in 0..(99 - lv) /\ n + 1 # 0 /\ (n + 1) - 1 = n
          /\ row(n + 1) = RowOfLevel(lv) + n
    BY DEF row, RowOfLevel
<1>10. PICK f : f = GrownFrom(stats, persona, lv)
    OBVIOUS
<1>11. IsGrown(f)
    BY <1>7, <1>10
<1>12. f[0] = stats
    BY <1>1, <1>11
<1>13. \A n \in Nat : n < 99 - lv => f[n + 1] = WithRow(f[n], persona, RowOfLevel(lv) + n)
    BY <1>9, <1>11
<1>14. \A n \in Nat : n <= 99 - lv => f[n] \in AnyStats
    BY <1>5, <1>8, <1>11
<1> QED
    BY <1>10, <1>12, <1>13, <1>14

\* Rows that are added in two goes are those of one.
LEMMA GrownAdds ==
    ASSUME NEW stats \in AnyStats, NEW persona \in OwnPersonas, NEW lv \in Nat, lv >= 1,
           NEW m \in Nat, NEW n \in Nat, (lv + m) + n <= 99
    PROVE  GrownFrom(GrownFrom(stats, persona, lv)[m], persona, lv + m)[n] =
               GrownFrom(stats, persona, lv)[m + n]
<1>1. /\ lv <= 99 /\ lv + m \in Nat /\ lv + m >= 1 /\ lv + m <= 99 /\ m <= 99 - lv
      /\ 99 - lv \in Nat /\ 99 - (lv + m) \in Nat
    OBVIOUS
<1> DEFINE f == GrownFrom(stats, persona, lv)
           s == f[m]
           g == GrownFrom(s, persona, lv + m)
           T == {k \in Nat : k <= 99 - (lv + m) => g[k] = f[m + k]}
<1>2. s \in AnyStats
    BY <1>1, GrownIs
<1>3. \A k \in Nat : k < 99 - lv => f[k + 1] = WithRow(f[k], persona, RowOfLevel(lv) + k)
    BY <1>1, GrownIs
<1> HIDE DEF f, s
<1>4. g[0] = s /\ \A k \in Nat : k < 99 - (lv + m) =>
                      g[k + 1] = WithRow(g[k], persona, RowOfLevel(lv + m) + k)
    BY <1>1, <1>2, GrownIs
<1> HIDE DEF g
<1>5. 0 \in T
    BY <1>4 DEF s
<1>6. \A k \in T : k + 1 \in T
    <2> SUFFICES ASSUME NEW k \in T, k + 1 <= 99 - (lv + m) PROVE g[k + 1] = f[m + (k + 1)]
        OBVIOUS
    <2>1. /\ k < 99 - (lv + m) /\ m + k \in Nat /\ m + k < 99 - lv /\ (m + k) + 1 = m + (k + 1)
          /\ RowOfLevel(lv + m) + k = RowOfLevel(lv) + (m + k)
        BY <1>1 DEF RowOfLevel
    <2>2. g[k] = f[m + k]
        BY <2>1
    <2>3. g[k + 1] = WithRow(g[k], persona, RowOfLevel(lv + m) + k)
        BY <1>4, <2>1
    <2>4. f[(m + k) + 1] = WithRow(f[m + k], persona, RowOfLevel(lv) + (m + k))
        BY <1>3, <2>1
    <2> QED
        BY <2>1, <2>2, <2>3, <2>4
<1>7. T = Nat
    <2> HIDE DEF T
    <2>1. T \subseteq Nat
        BY DEF T
    <2> QED
        BY <1>5, <1>6, <2>1, ByCounting
<1>8. g[n] = f[m + n]
    BY <1>1, <1>7
<1> QED
    BY <1>8 DEF f, g, s
LEMMA SkillsOfEntries ==
    ASSUME NEW p \in OwnPersonas, NEW e \in DOMAIN LearnSet[p]
    PROVE  LearnSet[p][e].LvReq \in Nat /\ LearnSet[p][e].skillID \in Nat
<1> QED
    BY GrowthAssumption DEF Learnable

LEMMA FirstIsOwn == First \in OwnPersonas
<1> QED
    BY GrowthAssumption

LEMMA LevelsAre ==
    BaseLevel \in Nat /\ BaseLevel >= 2 /\ BaseLevel <= 99 /\ Trained \in Nat /\ Trained <= 99
<1> QED
    BY GrowthAssumption, SMTT(30)

\* The experience of a level is below that of the next.
LEMMA ExpOfLevels ==
    ASSUME NEW lv \in Nat, lv >= 2, lv <= 99
    PROVE  /\ ExpRequired[lv - 2] \in Nat
           /\ lv < 99 => ExpRequired[lv - 1] \in Nat /\ ExpRequired[lv - 2] < ExpRequired[lv - 1]
<1>1. \A i \in 0..97 : ExpRequired[i] \in Nat
    BY GrowthAssumption
<1>2. lv - 2 \in 0..97
    OBVIOUS
<1>3. ASSUME lv < 99
      PROVE  ExpRequired[lv - 1] \in Nat /\ ExpRequired[lv - 2] < ExpRequired[lv - 1]
    <2>1. PICK i \in 1..97 : i = lv - 1 /\ i - 1 = lv - 2
        BY <1>3
    <2>2. ExpRequired[i - 1] < ExpRequired[i]
        BY GrowthAssumption
    <2>3. i \in 0..97
        OBVIOUS
    <2> QED
        BY <1>1, <2>1, <2>2, <2>3
<1> QED
    BY <1>1, <1>2, <1>3

LEMMA InitialSkillsAreLearnt ==
    ASSUME NEW p \in OwnPersonas
    PROVE  /\ InitialSkills(p) \in [SkillSlots -> Nat]
           /\ \A i \in SkillSlots : InitialSkills(p)[i] # EmptySlot =>
                  \E e \in DOMAIN LearnSet[p] :
                      LearnSet[p][e].skillID = InitialSkills(p)[i] /\ LearnSet[p][e].LvReq = 0
<1>1. \A i \in SkillSlots :
          \/ InitialSkills(p)[i] = EmptySlot
          \/ /\ i + 1 \in DOMAIN LearnSet[p] /\ LearnSet[p][i + 1].LvReq = 0
             /\ InitialSkills(p)[i] = LearnSet[p][i + 1].skillID
    BY DEF InitialSkills
<1>2. \A i \in SkillSlots : InitialSkills(p)[i] \in Nat
    BY <1>1, SkillsOfEntries DEF EmptySlot
<1>3. InitialSkills(p) = [i \in SkillSlots |-> InitialSkills(p)[i]]
    BY DEF InitialSkills
<1>4. InitialSkills(p) \in [SkillSlots -> Nat]
    BY <1>2, <1>3
<1> QED
    BY <1>1, <1>4

\* A member as it joined, and as a reset leaves it.
LEMMA FirstIsEarned ==
    ASSUME NEW m, m = AtFirst
    PROVE  /\ m \in MemberRecords
           /\ m.persona = First /\ m.lv = BaseLevel
           /\ ExpRequired[m.lv - 2] <= m.exp
           /\ m.lv < 99 => m.exp < ExpRequired[m.lv - 1]
           /\ m.stats = GrownFrom(BaseStats, First, BaseLevel)[m.lv - BaseLevel]
           /\ \A i \in SkillSlots : m.skills[i] # EmptySlot =>
                  \E e \in DOMAIN LearnSet[First] :
                      LearnSet[First][e].skillID = m.skills[i] /\ LearnSet[First][e].LvReq <= m.lv
<1>1. /\ m.persona = First /\ m.lv = BaseLevel /\ m.exp = ExpOf(BaseLevel)
      /\ m.stats = BaseStats /\ m.skills = InitialSkills(First)
    BY DEF AtFirst
<1>2. /\ ExpOf(BaseLevel) = ExpRequired[BaseLevel - 2] /\ ExpOf(BaseLevel) \in Nat
      /\ BaseLevel < 99 => ExpOf(BaseLevel) < ExpRequired[BaseLevel - 1]
    BY LevelsAre, ExpOfLevels DEF ExpOf
<1>3. BaseStats \in AnyStats
    BY GrowthAssumption DEF AnyStats
<1>4. m \in MemberRecords
    BY <1>2, <1>3, FirstIsOwn, LevelsAre, InitialSkillsAreLearnt DEF AtFirst, MemberRecords
<1>5. m.stats = GrownFrom(BaseStats, First, BaseLevel)[m.lv - BaseLevel]
    <2>1. GrownFrom(BaseStats, First, BaseLevel)[0] = BaseStats
        BY <1>3, FirstIsOwn, LevelsAre, GrownIs
    <2>2. BaseLevel - BaseLevel = 0
        BY LevelsAre
    <2> QED
        BY <1>1, <2>1, <2>2
<1>6. ASSUME NEW i \in SkillSlots, m.skills[i] # EmptySlot
      PROVE  \E e \in DOMAIN LearnSet[First] :
                 LearnSet[First][e].skillID = m.skills[i] /\ LearnSet[First][e].LvReq <= m.lv
    <2>1. PICK e \in DOMAIN LearnSet[First] :
              LearnSet[First][e].skillID = m.skills[i] /\ LearnSet[First][e].LvReq = 0
        BY <1>1, <1>6, FirstIsOwn, InitialSkillsAreLearnt
    <2> QED
        BY <1>1, <2>1, LevelsAre
<1>7. ExpRequired[m.lv - 2] <= m.exp /\ (m.lv < 99 => m.exp < ExpRequired[m.lv - 1])
    BY <1>1, <1>2
<1> QED
    BY <1>1, <1>4, <1>5, <1>6, <1>7

LEMMA GrowthInitial == GrowthInit => GrowthInv
<1> SUFFICES ASSUME GrowthInit PROVE GrowthInv
    OBVIOUS
<1>1. PICK m : m = AtFirst
    OBVIOUS
<1>2. member = m /\ been = {First}
    BY <1>1 DEF GrowthInit
<1>3. ExpMatchesLevel /\ StatsMatchLevel
    BY <1>1, <1>2, FirstIsEarned DEF ExpMatchesLevel, StatsMatchLevel
<1>4. SkillsAreEarned
    BY <1>1, <1>2, FirstIsEarned DEF SkillsAreEarned
<1> QED
    BY <1>1, <1>2, <1>3, <1>4, FirstIsEarned, FirstIsOwn, LevelsAre DEF GrowthInv, MemberRecords

LEMMA ResetStep ==
    ASSUME member' = AtFirst, been' = {First}
    PROVE  GrowthInv'
<1>1. PICK m : m = AtFirst
    OBVIOUS
<1>2. member' = m /\ been' = {First}
    BY <1>1
<1>3. ExpMatchesLevel' /\ StatsMatchLevel'
    BY <1>1, <1>2, FirstIsEarned DEF ExpMatchesLevel, StatsMatchLevel
<1>4. SkillsAreEarned'
    BY <1>1, <1>2, FirstIsEarned DEF SkillsAreEarned
<1> QED
    BY <1>1, <1>2, <1>3, <1>4, FirstIsEarned, FirstIsOwn, LevelsAre DEF GrowthInv, MemberRecords

\* Skills that are kept stay earned at a higher level and after more personas.
LEMMA SkillsStayEarned ==
    ASSUME GrowthInv, member'.skills = member.skills, member'.lv \in Nat,
           member.lv <= member'.lv, been \subseteq been', been' \subseteq OwnPersonas
    PROVE  SkillsAreEarned'
<1> SUFFICES ASSUME NEW i \in SkillSlots, member.skills[i] # EmptySlot
             PROVE  \E p \in been' : \E e \in DOMAIN LearnSet[p] :
                        LearnSet[p][e].skillID = member.skills[i] /\ LearnSet[p][e].LvReq <= member'.lv
    BY DEF SkillsAreEarned
<1>1. PICK p \in been : \E e \in DOMAIN LearnSet[p] :
          LearnSet[p][e].skillID = member.skills[i] /\ LearnSet[p][e].LvReq <= member.lv
    BY DEF GrowthInv, SkillsAreEarned
<1>2. PICK e \in DOMAIN LearnSet[p] :
          LearnSet[p][e].skillID = member.skills[i] /\ LearnSet[p][e].LvReq <= member.lv
    BY <1>1
<1>3. LearnSet[p][e].LvReq \in Nat /\ member.lv \in Nat
    BY SkillsOfEntries DEF GrowthInv, MemberRecords
<1>4. LearnSet[p][e].LvReq <= member'.lv
    BY <1>2, <1>3
<1> QED
    BY <1>2, <1>4

LEMMA BecomesStep ==
    ASSUME GrowthInv, NEW p \in OwnPersonas, Becomes(p)
    PROVE  GrowthInv'
<1>1. /\ member'.persona = p /\ member'.lv = member.lv /\ member'.exp = member.exp
      /\ member'.stats = member.stats /\ member'.skills = member.skills /\ member' \in MemberRecords
    BY DEF GrowthInv, Becomes, MemberRecords
<1>2. been' = been \cup {p}
    BY DEF Becomes
<1>3. StatsMatchLevel'
    <2>1. been' = {First} => been = {First}
        BY <1>2 DEF GrowthInv
    <2> QED
        BY <1>1, <2>1 DEF GrowthInv, StatsMatchLevel
<1>4. ExpMatchesLevel'
    BY <1>1 DEF GrowthInv, ExpMatchesLevel
<1>5. SkillsAreEarned'
    <2>1. member'.lv \in Nat /\ member.lv <= member'.lv
        BY <1>1 DEF GrowthInv, MemberRecords
    <2>2. been \subseteq been' /\ been' \subseteq OwnPersonas
        BY <1>2 DEF GrowthInv
    <2> QED
        BY <1>1, <2>1, <2>2, SkillsStayEarned
<1> QED
    BY <1>1, <1>2, <1>3, <1>4, <1>5 DEF GrowthInv, MemberRecords

\* Raised over some levels by their rows, with the experience of the level it comes to.
LEMMA RaisedStep ==
    ASSUME GrowthInv, NEW n \in Nat, member.lv + n <= 99,
           member' = [member EXCEPT !.lv = member.lv + n, !.exp = ExpRequired[(member.lv + n) - 2],
                          !.stats = GrownFrom(member.stats, member.persona, member.lv)[n]],
           been' = been
    PROVE  GrowthInv'
<1>1. /\ member \in MemberRecords /\ member.lv \in Nat /\ member.stats \in AnyStats
      /\ member.persona \in OwnPersonas /\ member.lv >= 2 /\ member.lv >= BaseLevel
    BY LevelsAre DEF GrowthInv, MemberRecords
<1>2. PICK to \in Nat : to = member.lv + n /\ to >= 2 /\ to <= 99 /\ member.lv <= to
    BY <1>1
<1>3. PICK stats : stats = GrownFrom(member.stats, member.persona, member.lv)[n]
    OBVIOUS
<1>4. stats \in AnyStats
    BY <1>1, <1>2, <1>3, GrownIs
<1>5. PICK exp : exp = ExpRequired[to - 2]
    OBVIOUS
<1>6. exp \in Nat /\ (to < 99 => exp < ExpRequired[to - 1])
    BY <1>2, <1>5, ExpOfLevels
<1>7. member' = [member EXCEPT !.lv = to, !.exp = exp, !.stats = stats]
    BY <1>2, <1>3, <1>5
<1>8. /\ member' \in MemberRecords /\ member'.lv = to /\ member'.exp = exp /\ member'.stats = stats
      /\ member'.persona = member.persona /\ member'.skills = member.skills
    BY <1>1, <1>4, <1>6, <1>7 DEF MemberRecords
<1>9. ExpMatchesLevel'
    BY <1>5, <1>6, <1>8 DEF ExpMatchesLevel
<1>10. StatsMatchLevel'
    <2> SUFFICES ASSUME been = {First}
                 PROVE  stats = GrownFrom(BaseStats, First, BaseLevel)[to - BaseLevel]
        BY <1>8 DEF StatsMatchLevel
    <2>1. PICK m \in Nat : m = member.lv - BaseLevel /\ BaseLevel + m = member.lv
        BY <1>1, LevelsAre
    <2>2. member.persona = First /\ member.stats = GrownFrom(BaseStats, First, BaseLevel)[m]
        BY <2>1 DEF GrowthInv, StatsMatchLevel
    <2>3. BaseStats \in AnyStats /\ BaseLevel >= 1 /\ (BaseLevel + m) + n <= 99
        <3>1. BaseStats \in AnyStats
            BY GrowthAssumption, Zenon DEF AnyStats
        <3>2. (BaseLevel + m) + n = to /\ to <= 99
            BY <1>2, <2>1, Zenon
        <3>3. BaseLevel >= 1
            BY LevelsAre
        <3> QED
            BY <3>1, <3>2, <3>3, Zenon
    <2>4. stats = GrownFrom(GrownFrom(BaseStats, First, BaseLevel)[m], First, BaseLevel + m)[n]
        BY <1>3, <2>1, <2>2
    <2>5. stats = GrownFrom(BaseStats, First, BaseLevel)[m + n]
        BY <2>3, <2>4, GrownAdds, FirstIsOwn, LevelsAre
    <2>6. m + n = to - BaseLevel
        BY <1>2, <2>1, <1>1, LevelsAre
    <2> QED
        BY <2>5, <2>6
<1>11. SkillsAreEarned'
    BY <1>2, <1>8, SkillsStayEarned DEF GrowthInv
<1> QED
    BY <1>1, <1>2, <1>8, <1>9, <1>10, <1>11, LevelsAre DEF GrowthInv, MemberRecords

LEMMA CommandedStep ==
    ASSUME GrowthInv, NEW id, NEW target, EX_SET_PERSONA_LV(id, target)
    PROVE  GrowthInv'
<1>1. member.lv \in Nat /\ member.lv >= 2
    BY LevelsAre DEF GrowthInv, MemberRecords
<1>2. target \in 1..99 /\ member.lv < target
    BY DEF EX_SET_PERSONA_LV, IsHigher
<1>3. PICK n \in Nat : n = target - member.lv /\ target = member.lv + n
    BY <1>1, <1>2
<1>4. target > 1 /\ member.lv + n <= 99
    BY <1>1, <1>2, <1>3
<1>5. member' = [member EXCEPT !.lv = target, !.exp = ExpRequired[target - 2],
                     !.stats = GrownFrom(member.stats, member.persona, member.lv)[n]]
    BY <1>3, <1>4 DEF EX_SET_PERSONA_LV, ExpOf, Grown, LevelsGained
<1> QED
    BY <1>3, <1>4, <1>5, RaisedStep DEF EX_SET_PERSONA_LV

LEMMA FoughtStep ==
    ASSUME GrowthInv, Fight
    PROVE  GrowthInv'
<1>1. /\ member \in MemberRecords /\ member.lv \in Nat /\ member.lv >= 2 /\ member.lv < 99
      /\ member.persona \in OwnPersonas /\ member.stats \in AnyStats
    BY LevelsAre DEF GrowthInv, Fight, MemberRecords
<1>2. PICK next : next = ExpRequired[member.lv - 1]
    OBVIOUS
<1>3. next \in Nat /\ ExpRequired[member.lv - 2] \in Nat /\ ExpRequired[member.lv - 2] < next
    BY <1>1, <1>2, ExpOfLevels
<1>4. CASE member' = [member EXCEPT !.exp = ExpRequired[member.lv - 1] - 1]
    <2>1. member' = [member EXCEPT !.exp = next - 1]
        BY <1>2, <1>4
    <2>2. next - 1 \in Nat /\ ExpRequired[member.lv - 2] <= next - 1 /\ next - 1 < next
        BY <1>3
    <2>3. /\ member' \in MemberRecords /\ member'.lv = member.lv /\ member'.exp = next - 1
          /\ member'.stats = member.stats /\ member'.persona = member.persona
          /\ member'.skills = member.skills
        BY <1>1, <2>1, <2>2 DEF MemberRecords
    <2>4. been' = been
        BY DEF Fight
    <2>5. ExpMatchesLevel'
        BY <1>2, <2>2, <2>3 DEF ExpMatchesLevel
    <2>6. StatsMatchLevel' /\ SkillsAreEarned'
        BY <2>3, <2>4 DEF GrowthInv, StatsMatchLevel, SkillsAreEarned
    <2> QED
        BY <2>3, <2>4, <2>5, <2>6 DEF GrowthInv, MemberRecords
<1>5. CASE member' = [member EXCEPT
              !.lv = @ + 1, !.exp = ExpRequired[member.lv - 1],
              !.stats = WithRow(@, member.persona, RowOfLevel(member.lv))]
    <2>1. /\ GrownFrom(member.stats, member.persona, member.lv)[0] = member.stats
          /\ GrownFrom(member.stats, member.persona, member.lv)[0 + 1] =
                 WithRow(GrownFrom(member.stats, member.persona, member.lv)[0],
                         member.persona, RowOfLevel(member.lv) + 0)
        BY <1>1, GrownIs
    <2>2. 0 + 1 = 1 /\ RowOfLevel(member.lv) + 0 = RowOfLevel(member.lv)
        BY <1>1 DEF RowOfLevel
    <2>3. GrownFrom(member.stats, member.persona, member.lv)[1] =
              WithRow(member.stats, member.persona, RowOfLevel(member.lv))
        BY <2>1, <2>2
    <2>4. (member.lv + 1) - 2 = member.lv - 1 /\ member.lv + 1 <= 99
        BY <1>1
    <2>5. member' = [member EXCEPT !.lv = member.lv + 1, !.exp = ExpRequired[(member.lv + 1) - 2],
                         !.stats = GrownFrom(member.stats, member.persona, member.lv)[1]]
        BY <1>5, <2>3, <2>4
    <2> QED
        BY <2>4, <2>5, RaisedStep DEF Fight
<1> QED
    BY <1>4, <1>5 DEF Fight

LEMMA LearnStep ==
    ASSUME GrowthInv, NEW previous,
           NEW e \in DOMAIN LearnSet[member.persona], NEW slot \in SkillSlots,
           Learn(e, previous, slot)
    PROVE  GrowthInv'
<1>1. /\ member \in MemberRecords /\ member.lv \in Nat /\ member.skills \in [SkillSlots -> Nat]
      /\ member.persona \in OwnPersonas /\ member.persona \in been
    BY DEF GrowthInv, MemberRecords
<1>2. PICK s : s = LearnableSkill(member.persona, e, previous)
    OBVIOUS
<1>3. s # EmptySlot /\ member' = [member EXCEPT !.skills[slot] = s] /\ been' = been
    BY <1>2 DEF Learn
<1>4. s = LearnSet[member.persona][e].skillID /\ member.lv >= LearnSet[member.persona][e].LvReq
    BY <1>2, <1>3 DEF LearnableSkill
<1>5. s \in Nat /\ LearnSet[member.persona][e].LvReq <= member.lv
    BY <1>1, <1>4, SkillsOfEntries
<1>6. [member.skills EXCEPT ![slot] = s] \in [SkillSlots -> Nat]
    BY <1>1, <1>5
<1>7. /\ member'.persona = member.persona /\ member'.lv = member.lv /\ member'.exp = member.exp
      /\ member'.stats = member.stats /\ member'.skills = [member.skills EXCEPT ![slot] = s]
      /\ member' \in MemberRecords
    BY <1>1, <1>3, <1>6 DEF MemberRecords
<1>8. SkillsAreEarned'
    <2> SUFFICES ASSUME NEW i \in SkillSlots, member'.skills[i] # EmptySlot
                 PROVE  \E p \in been : \E f \in DOMAIN LearnSet[p] :
                            /\ LearnSet[p][f].skillID = member'.skills[i]
                            /\ LearnSet[p][f].LvReq <= member.lv
        BY <1>3, <1>7 DEF SkillsAreEarned
    <2>1. CASE i = slot
        <3>1. member'.skills[i] = s
            BY <1>1, <1>7, <2>1
        <3> QED
            BY <1>1, <1>4, <1>5, <3>1
    <2>2. CASE i # slot
        <3>1. member'.skills[i] = member.skills[i]
            BY <1>1, <1>7, <2>2
        <3> QED
            BY <3>1 DEF GrowthInv, SkillsAreEarned
    <2> QED
        BY <2>1, <2>2
<1>9. ExpMatchesLevel' /\ StatsMatchLevel'
    BY <1>3, <1>7 DEF GrowthInv, ExpMatchesLevel, StatsMatchLevel
<1> QED
    BY <1>3, <1>7, <1>8, <1>9 DEF GrowthInv, MemberRecords

LEMMA ClearedStep ==
    ASSUME GrowthInv, NEW id, EX_CLEAR_PERSONA_SKILLS(id)
    PROVE  GrowthInv'
<1>1. member' = [member EXCEPT !.skills = Bare] /\ been' = been /\ member \in MemberRecords
    BY DEF EX_CLEAR_PERSONA_SKILLS, GrowthInv, MemberRecords
<1>2. Bare \in [SkillSlots -> Nat] /\ \A i \in SkillSlots : Bare[i] = EmptySlot
    BY DEF Bare, EmptySlot
<1>3. /\ member'.persona = member.persona /\ member'.lv = member.lv /\ member'.exp = member.exp
      /\ member'.stats = member.stats /\ member'.skills = Bare /\ member' \in MemberRecords
    BY <1>1, <1>2 DEF MemberRecords
<1>4. ExpMatchesLevel' /\ StatsMatchLevel'
    BY <1>1, <1>3 DEF GrowthInv, ExpMatchesLevel, StatsMatchLevel
<1>5. SkillsAreEarned'
    BY <1>2, <1>3 DEF SkillsAreEarned
<1> QED
    BY <1>1, <1>3, <1>4, <1>5 DEF GrowthInv, MemberRecords

LEMMA GrowthStep == GrowthInv /\ [GrowthNext]_growthVars => GrowthInv'
<1> SUFFICES ASSUME GrowthInv, [GrowthNext]_growthVars PROVE GrowthInv'
    OBVIOUS
<1>1. ASSUME NEW id \in Ids, NEW target \in Targets, EX_SET_PERSONA_LV(id, target)
      PROVE  GrowthInv'
    BY <1>1, CommandedStep
<1>2. ASSUME NEW id \in Ids, NEW p \in OwnPersonas, EX_FLW_PersonaEvolution(id, p)
      PROVE  GrowthInv'
    BY <1>2, BecomesStep DEF EX_FLW_PersonaEvolution
<1>3. ASSUME NEW id \in Ids, PERSONA_EVOLUTIONHook(id) PROVE GrowthInv'
    BY <1>3, BecomesStep DEF PERSONA_EVOLUTIONHook
<1>4. ASSUME NEW id \in Ids, EX_CLEAR_PERSONA_SKILLS(id) PROVE GrowthInv'
    BY <1>4, ClearedStep
<1>5. ASSUME NEW id \in Ids, EX_RESET_PARTY_MEMBER_PERSONA(id) PROVE GrowthInv'
    BY <1>5, ResetStep DEF EX_RESET_PARTY_MEMBER_PERSONA
<1>6. ASSUME NEW e \in DOMAIN LearnSet[member.persona], NEW previous \in Targets,
             NEW slot \in SkillSlots, Learn(e, previous, slot)
      PROVE  GrowthInv'
    BY <1>6, LearnStep
<1>7. CASE Fight
    BY <1>7, FoughtStep
<1>8. CASE UNCHANGED growthVars
    BY <1>8 DEF growthVars, GrowthInv, ExpMatchesLevel, StatsMatchLevel, SkillsAreEarned
<1> QED
    BY <1>1, <1>2, <1>3, <1>4, <1>5, <1>6, <1>7, <1>8 DEF GrowthNext

(* What scripts, fights and resets make of a member keeps its experience with its
   level, its stats with the rows between its levels, and its skills with what
   its personas learn. *)
THEOREM GrowthInvariant == GrowthSpec => []GrowthInv
<1>1. GrowthInit => GrowthInv
    BY GrowthInitial
<1>2. GrowthInv /\ [GrowthNext]_growthVars => GrowthInv'
    BY GrowthStep
<1> QED
    BY <1>1, <1>2, PTL DEF GrowthSpec

(* However a member was raised by EX_SET_PERSONA_LV, evolved, cleared, taught or
   reset, in whatever order and with fights in between, it is what its level and
   its personas account for. *)
THEOREM GrowthIsEarnedCorrect == GrowthSpec => []GrowthIsEarned
<1>1. GrowthInv => GrowthIsEarned
    <2> SUFFICES ASSUME GrowthInv PROVE GrowthIsEarned
        OBVIOUS
    <2>1. /\ member.persona \in OwnPersonas /\ member.exp \in Nat
          /\ member.stats \in [0..5 -> 0..255] /\ member.skills \in [SkillSlots -> Nat]
        BY DEF GrowthInv, MemberRecords, AnyStats
    <2>2. member.lv \in BaseLevel..99
        BY LevelsAre DEF GrowthInv, MemberRecords
    <2> QED
        BY <2>1, <2>2 DEF GrowthInv, GrowthIsEarned, GrowthTypeOK
<1> QED
    BY <1>1, GrowthInvariant, PTL
(***************************************************************************)
(* Models, for every seed, every outfit and every configuration.            *)
(***************************************************************************)
RandomSeeds == 0..(RANDOM_MAX - 1)

LEMMA SeedsAre ==
    ASSUME NEW x
    PROVE  x \in RandomSeeds <=> x \in Nat /\ x < RANDOM_MAX
<1>1. RANDOM_MAX \in Nat
    BY SMT DEF RANDOM_MAX
<1> QED
    BY <1>1, SMT DEF RandomSeeds

LEMMA ProductGrows ==
    ASSUME NEW a \in Nat, NEW b \in Nat, NEW c \in Nat, a <= b
    PROVE  a * c \in Nat /\ a * c <= b * c
<1>1. PICK d \in Nat : b = a + d
    <2>1. b - a \in Nat /\ b = a + (b - a)
        BY SMT
    <2> QED
        BY <2>1
<1>2. a * c \in Nat /\ d * c \in Nat /\ b * c = a * c + d * c
    BY <1>1, SMT
<1> QED
    BY <1>2, SMT

\* The next number is one of those below RANDOM_MAX again.
LEMMA RandomInRange ==
    ASSUME NEW x \in Nat
    PROVE  randomInt(x) \in RandomSeeds
<1>1. PICK low \in Nat : low = 16807 * (x % Half)
    BY SMT DEF Half
<1>2. PICK high \in Nat : high < 65536 /\ high = (16807 * (x \div Half) + (low \div Half)) % Half
    <2>1. PICK sum \in Nat : sum = 16807 * (x \div Half) + (low \div Half)
        BY SMT DEF Half
    <2>2. sum % Half \in Nat /\ sum % Half < 65536
        BY SMT DEF Half
    <2> QED
        BY <2>1, <2>2, SMT
<1>3. PICK rest \in Nat : rest <= 2147483647 /\ rest = ((high % 32768) * Half) + (low % Half)
    BY SMT DEF Half
<1>4. PICK top \in Nat : top <= 1 /\ top = high \div 32768
    BY <1>2, SMT
<1>5. randomInt(x) = IF rest = RANDOM_MAX THEN top
                     ELSE IF rest + top = RANDOM_MAX THEN 0 ELSE rest + top
    BY <1>1, <1>2, <1>3, <1>4, SMT DEF randomInt
<1>6. randomInt(x) \in Nat /\ randomInt(x) < RANDOM_MAX
    BY <1>3, <1>4, <1>5, SMT DEF RANDOM_MAX
<1> QED
    BY <1>6, SeedsAre, SMT

Units128 == {1, 2, 4, 8, 16, 32, 64, 128}

\* The unit of a number leaves 24 bits at most.
LEMMA UnitFits ==
    ASSUME NEW x \in Nat, x <= 2147483647
    PROVE  Unit(x) \in Units128 /\ x \div Unit(x) < 16777216
<1> DEFINE Fits(u) == x \div u < 16777216 /\ (u = 1 \/ x \div (u \div 2) >= 16777216)
<1>1. \E u \in Units128 : Fits(u)
    <2>1. CASE x \div 1 < 16777216
        BY <2>1, SMT DEF Units128
    <2>2. CASE x \div 1 >= 16777216 /\ x \div 2 < 16777216
        BY <2>2, SMT DEF Units128
    <2>3. CASE x \div 2 >= 16777216 /\ x \div 4 < 16777216
        BY <2>3, SMT DEF Units128
    <2>4. CASE x \div 4 >= 16777216 /\ x \div 8 < 16777216
        BY <2>4, SMT DEF Units128
    <2>5. CASE x \div 8 >= 16777216 /\ x \div 16 < 16777216
        BY <2>5, SMT DEF Units128
    <2>6. CASE x \div 16 >= 16777216 /\ x \div 32 < 16777216
        BY <2>6, SMT DEF Units128
    <2>7. CASE x \div 32 >= 16777216 /\ x \div 64 < 16777216
        BY <2>7, SMT DEF Units128
    <2>8. CASE x \div 64 >= 16777216
        BY <2>8, SMT DEF Units128
    <2> QED
        BY <2>1, <2>2, <2>3, <2>4, <2>5, <2>6, <2>7, <2>8, SMT
<1>2. Unit(x) = CHOOSE u \in Units128 : Fits(u)
    BY SMT DEF Unit, Units128
<1> HIDE DEF Fits
<1>3. Unit(x) \in Units128 /\ Fits(Unit(x))
    BY <1>1, <1>2, SMT
<1> QED
    BY <1>3, SMT DEF Fits

\* Rounding to nearest adds less than a unit.
LEMMA RoundedIsNear ==
    ASSUME NEW x \in Nat, x <= 2147483647
    PROVE  /\ Mantissa(x) \in Nat /\ Mantissa(x) <= 16777216
           /\ Mantissa(x) * Unit(x) \in Nat /\ Mantissa(x) * Unit(x) <= x + Unit(x)
<1>1. PICK u \in Units128 : u = Unit(x) /\ x \div u < 16777216
    BY UnitFits, SMT
<1>2. PICK q : q = x \div u
    BY SMT
<1>3. Mantissa(x) = q \/ Mantissa(x) = q + 1
    BY <1>1, <1>2, SMT DEF Mantissa
<1>4. q \in Nat /\ q < 16777216 /\ q * u \in Nat /\ q * u <= x /\ (q + 1) * u \in Nat /\ (q + 1) * u <= x + u
    <2>1. CASE u = 1
        BY <1>1, <1>2, <2>1, SMT
    <2>2. CASE u = 2
        BY <1>1, <1>2, <2>2, SMT
    <2>3. CASE u = 4
        BY <1>1, <1>2, <2>3, SMT
    <2>4. CASE u = 8
        BY <1>1, <1>2, <2>4, SMT
    <2>5. CASE u = 16
        BY <1>1, <1>2, <2>5, SMT
    <2>6. CASE u = 32
        BY <1>1, <1>2, <2>6, SMT
    <2>7. CASE u = 64
        BY <1>1, <1>2, <2>7, SMT
    <2>8. CASE u = 128
        BY <1>1, <1>2, <2>8, SMT
    <2> QED
        BY <2>1, <2>2, <2>3, <2>4, <2>5, <2>6, <2>7, <2>8, SMT DEF Units128
<1>5. u \in Nat
    BY SMT DEF Units128
<1>6. x + u >= x
    BY <1>5, SMT
<1> QED
    BY <1>1, <1>3, <1>4, <1>5, <1>6, SMT

\* A draw among so many is at most one beyond the last, which it can be when rounded up.
LEMMA DrawIsNear ==
    ASSUME NEW x \in RandomSeeds
    PROVE  /\ DrawFrom(x, 2) \in 0..3
           /\ \A max \in 0..39 : DrawFrom(x, max) \in Nat
<1>1. x \in Nat /\ x <= 2147483647
    BY SeedsAre, SMT DEF RANDOM_MAX
<1>2. PICK m \in Nat : m = Mantissa(x) /\ m <= 16777216
    BY <1>1, RoundedIsNear, SMT
<1>3. PICK u \in Units128 : u = Unit(x)
    BY <1>1, UnitFits, SMT
<1>4. ASSUME NEW max \in 0..39
      PROVE  /\ DrawFrom(x, max) \in Nat
             /\ max = 2 => DrawFrom(x, max) \in 0..3
    <2>1. PICK product \in Nat : product = m * (1 + max) /\ product <= 16777216 * (1 + max)
        <3>1. PICK bits : bits = 16777216
            BY SMT
        <3>2. 1 + max \in Nat /\ bits \in Nat /\ m <= bits
            BY <1>2, <3>1, SMT
        <3>3. m * (1 + max) \in Nat /\ m * (1 + max) <= bits * (1 + max)
            BY <3>2, ProductGrows, SMT
        <3> QED
            BY <3>1, <3>3, SMT
    <2>2. product <= 2147483647
        BY <2>1, SMT
    <2>3. PICK rounded \in Nat : /\ rounded = Mantissa(product) * Unit(product)
                                 /\ rounded <= product + 128
        <3>1. Unit(product) \in Nat /\ Unit(product) <= 128
            BY <2>2, UnitFits, SMT DEF Units128
        <3> QED
            BY <2>2, <3>1, RoundedIsNear, SMT
    <2>4. DrawFrom(x, max) = IF u = 1 THEN 0 ELSE rounded \div (1073741824 \div (u \div 2))
        BY <1>2, <1>3, <2>1, <2>3, SMT DEF DrawFrom
    <2>5. max = 2 => rounded < 67108864
        BY <2>1, <2>3, SMT
    <2>6. CASE u = 1
        BY <2>4, <2>6, SMT
    <2>7. CASE u # 1
        <3>1. PICK d \in Nat : d = 1073741824 \div (u \div 2) /\ d >= 16777216
            BY <2>7, SMT DEF Units128
        <3>2. rounded \div d \in Nat /\ (rounded < 67108864 => rounded \div d <= 3)
            BY <3>1, SMT
        <3> QED
            BY <2>4, <2>5, <2>7, <3>1, <3>2, SMT
    <2> QED
        BY <2>6, <2>7, SMT
<1> QED
    BY <1>4, SMT
StaysIn(step, D, N) == \A n \in 1..N : step[n] \in [D -> D]
ByStep(f, b, step, N) == f = [n \in 0..N |-> IF n = 0 THEN b ELSE step[n][f[n - 1]]]

\* Recursion up to a number, where every step stays in a set.
LEMMA RecursionIn ==
    ASSUME NEW D, NEW b \in D, NEW N \in Nat, NEW step, StaysIn(step, D, N)
    PROVE  \E f : ByStep(f, b, step, N) /\ f \in [0..N -> D]
<1>1. PICK f : Begun(f, b, step, N)
    BY BegunExists
<1>2. f = [n \in 0..N |-> IF n = 0 THEN b ELSE step[n][f[n - 1]]]
    <2>1. \A n \in 0..N : f[n] = IF n = 0 THEN b ELSE step[n][f[n - 1]]
        <3> TAKE n \in 0..N
        <3>1. n = 0 \/ n \in 1..N
            OBVIOUS
        <3> QED
            BY <1>1, <3>1 DEF Begun
    <2> QED
        BY <1>1, <2>1 DEF Begun
<1> DEFINE T == {n \in Nat : n <= N => f[n] \in D}
<1>3. 0 \in T
    BY <1>1 DEF Begun
<1>4. \A n \in T : n + 1 \in T
    <2> SUFFICES ASSUME NEW n \in T, n + 1 <= N PROVE f[n + 1] \in D
        OBVIOUS
    <2>1. n + 1 \in 1..N /\ (n + 1) - 1 = n /\ f[n] \in D
        OBVIOUS
    <2>2. f[n + 1] = step[n + 1][f[n]]
        BY <1>1, <2>1 DEF Begun
    <2>3. step[n + 1] \in [D -> D]
        BY <2>1 DEF StaysIn
    <2> QED
        BY <2>1, <2>2, <2>3
<1>5. T = Nat
    <2> HIDE DEF T
    <2>1. T \subseteq Nat
        BY DEF T
    <2> QED
        BY <1>3, <1>4, <2>1, ByCounting
<1>6. \A n \in 0..N : f[n] \in D
    BY <1>5
<1>7. f \in [0..N -> D]
    BY <1>2, <1>6
<1> QED
    BY <1>2, <1>7 DEF ByStep

LEMMA SeedsStayInRange ==
    ASSUME NEW s \in RandomSeeds
    PROVE  \A u \in 0..10 : SeedsFrom(s)[u] \in RandomSeeds
<1>0. PICK N \in Nat : N = 10
    OBVIOUS
<1> DEFINE next == [x \in RandomSeeds |-> randomInt(x)]
           step == [n \in 1..N |-> next]
           IsFrom(f) == f = [u \in 0..N |-> IF u = 0 THEN s ELSE randomInt(f[u - 1])]
<1>1. \A x \in RandomSeeds : randomInt(x) \in RandomSeeds
    BY SeedsAre, RandomInRange
<1>2. next \in [RandomSeeds -> RandomSeeds] /\ \A x \in RandomSeeds : next[x] = randomInt(x)
    BY <1>1
<1> HIDE DEF next
<1>3. StaysIn(step, RandomSeeds, N)
    BY <1>2 DEF StaysIn
<1>4. \A n \in 1..N, x \in RandomSeeds : step[n][x] = randomInt(x)
    BY <1>2
<1> HIDE DEF step
<1>5. PICK g : ByStep(g, s, step, N) /\ g \in [0..N -> RandomSeeds]
    BY <1>3, RecursionIn
<1>6. IsFrom(g)
    <2>1. \A u \in 0..N : g[u] = IF u = 0 THEN s ELSE randomInt(g[u - 1])
        <3> TAKE u \in 0..N
        <3>1. g[u] = IF u = 0 THEN s ELSE step[u][g[u - 1]]
            BY <1>5 DEF ByStep
        <3>2. u # 0 => u \in 1..N /\ g[u - 1] \in RandomSeeds
            BY <1>5
        <3> QED
            BY <1>4, <3>1, <3>2
    <2> QED
        BY <1>5, <2>1
<1>7. IsFrom(SeedsFrom(s))
    BY <1>0, <1>6 DEF SeedsFrom
<1>8. ASSUME NEW f, IsFrom(f) PROVE \A n \in 0..N : f[n] \in RandomSeeds
    <2> DEFINE T == {n \in Nat : n <= N => f[n] \in RandomSeeds}
    <2>1. 0 \in T
        BY <1>8
    <2>2. \A n \in T : n + 1 \in T
        <3> SUFFICES ASSUME NEW n \in T, n + 1 <= N PROVE f[n + 1] \in RandomSeeds
            OBVIOUS
        <3>1. n + 1 \in 0..N /\ n + 1 # 0 /\ (n + 1) - 1 = n /\ f[n] \in RandomSeeds
            OBVIOUS
        <3>2. f[n + 1] = randomInt(f[n])
            BY <1>8, <3>1
        <3> QED
            BY <1>1, <3>1, <3>2
    <2>3. T = Nat
        <3> HIDE DEF T
        <3>1. T \subseteq Nat
            BY DEF T
        <3> QED
            BY <2>1, <2>2, <3>1, ByCounting
    <2> QED
        BY <2>3
<1> QED
    BY <1>0, <1>7, <1>8

ListOf(list, n) == list \in Seq(Nat) /\ n \in Nat /\ Len(list) = n

LEMMA FromIsList ==
    ASSUME NEW lo \in Nat, NEW hi \in Nat, lo <= hi
    PROVE  ListOf(From(lo, hi), hi - lo + 1)
<1>1. PICK n \in Nat : n = hi - lo + 1
    OBVIOUS
<1>2. From(lo, hi) = [i \in 1..n |-> lo + i - 1]
    BY <1>1 DEF From
<1>3. \A i \in 1..n : lo + i - 1 \in Nat
    OBVIOUS
<1>4. From(lo, hi) \in Seq(Nat) /\ Len(From(lo, hi)) = n
    BY <1>2, <1>3
<1> QED
    BY <1>1, <1>4 DEF ListOf

LEMMA JoinedLists ==
    ASSUME NEW s, NEW t, NEW n, NEW m, ListOf(s, n), ListOf(t, m)
    PROVE  ListOf(s \o t, n + m)
<1> QED
    BY DEF ListOf

\* Every list of models is shorter than the longest, Violet's with its 39.
LEMMA ListsOfModels ==
    ASSUME NEW u \in Units
    PROVE  \E n \in 1..40 : ListOf(ModelIDs[u], n)
<1>1. /\ ListOf(From(151, 177), 27) /\ ListOf(From(151, 156), 6) /\ ListOf(From(151, 154), 4)
      /\ ListOf(From(158, 177), 20) /\ ListOf(From(158, 170), 13) /\ ListOf(From(172, 176), 5)
      /\ ListOf(From(21, 26), 6)
    <2>1. ListOf(From(151, 177), 177 - 151 + 1)
        BY FromIsList
    <2>2. ListOf(From(151, 156), 156 - 151 + 1)
        BY FromIsList
    <2>3. ListOf(From(151, 154), 154 - 151 + 1)
        BY FromIsList
    <2>4. ListOf(From(158, 177), 177 - 158 + 1)
        BY FromIsList
    <2>5. ListOf(From(158, 170), 170 - 158 + 1)
        BY FromIsList
    <2>6. ListOf(From(172, 176), 176 - 172 + 1)
        BY FromIsList
    <2>7. ListOf(From(21, 26), 26 - 21 + 1)
        BY FromIsList
    <2> QED
        BY <2>1, <2>2, <2>3, <2>4, <2>5, <2>6, <2>7
<1>2. /\ ListOf(<<51, 52, 66, 67, 71, 72>>, 6) /\ ListOf(<<51>>, 1)
      /\ ListOf(<<51, 72, 103, 74, 83>>, 5) /\ ListOf(<<156>>, 1) /\ ListOf(<<51, 83>>, 2)
      /\ ListOf(<<51, 153, 154, 156, 157>>, 5) /\ ListOf(<<180>>, 1) /\ ListOf(<<5, 6, 51>>, 3)
      /\ ListOf(<<71, 74, 79, 81, 83, 84>>, 6)
    BY SMT DEF ListOf
<1> DEFINE Joined(s, t, n, m) == ListOf(s, n) /\ ListOf(t, m) => ListOf(s \o t, n + m)
<1>3. \A s, t, n, m : Joined(s, t, n, m)
    BY JoinedLists
<1>4. CASE u = 1
    <2>1. ListOf(<<51, 52, 66, 67, 71, 72>> \o From(151, 177), 6 + 27)
        BY <1>1, <1>2, <1>3, ZenonT(30)
    <2> QED
        BY <1>4, <2>1 DEF ModelIDs
<1>5. ListOf(<<51>> \o From(151, 156) \o From(158, 177), (1 + 6) + 20)
    <2>1. ListOf(<<51>> \o From(151, 156), 1 + 6)
        BY <1>1, <1>2, <1>3
    <2> QED
        BY <1>1, <1>3, <2>1, ZenonT(30)
<1>6. CASE u = 3
    <2>1. ListOf(<<51>> \o From(158, 177), 1 + 20)
        BY <1>1, <1>2, <1>3
    <2> QED
        BY <1>6, <2>1 DEF ModelIDs
<1>7. CASE u = 4
    <2>1. ListOf(<<51, 72, 103, 74, 83>> \o From(151, 156), 5 + 6)
        BY <1>1, <1>2, <1>3, ZenonT(30)
    <2>2. ListOf(<<51, 72, 103, 74, 83>> \o From(151, 156) \o From(158, 177), (5 + 6) + 20)
        BY <1>1, <1>3, <2>1
    <2> QED
        BY <1>7, <2>2 DEF ModelIDs
<1>8. CASE u = 5
    <2>1. ListOf(<<51>> \o From(151, 154), 1 + 4)
        BY <1>1, <1>2, <1>3
    <2>2. ListOf(<<51>> \o From(151, 154) \o <<156>>, (1 + 4) + 1)
        BY <1>2, <1>3, <2>1
    <2>3. ListOf(<<51>> \o From(151, 154) \o <<156>> \o From(158, 177), ((1 + 4) + 1) + 20)
        BY <1>1, <1>3, <2>2
    <2> QED
        BY <1>8, <2>3 DEF ModelIDs
<1>9. CASE u = 6
    <2>1. ListOf(<<51, 83>> \o From(151, 156), 2 + 6)
        BY <1>1, <1>2, <1>3
    <2>2. ListOf(<<51, 83>> \o From(151, 156) \o From(158, 177), (2 + 6) + 20)
        BY <1>1, <1>3, <2>1, ZenonT(30)
    <2> QED
        BY <1>9, <2>2 DEF ModelIDs
<1>10. CASE u = 8
    <2>1. ListOf(<<51, 153, 154, 156, 157>> \o From(158, 177), 5 + 20)
        BY <1>1, <1>2, <1>3, ZenonT(30)
    <2>2. ListOf(<<51, 153, 154, 156, 157>> \o From(158, 177) \o <<180>>, (5 + 20) + 1)
        BY <1>2, <1>3, <2>1, ZenonT(30)
    <2> QED
        BY <1>10, <2>2 DEF ModelIDs
<1>11. CASE u = 9
    <2>1. ListOf(<<51>> \o From(151, 154), 1 + 4)
        BY <1>1, <1>2, <1>3
    <2>2. ListOf(<<51>> \o From(151, 154) \o From(158, 177), (1 + 4) + 20)
        BY <1>1, <1>3, <2>1
    <2>3. ListOf(<<51>> \o From(151, 154) \o From(158, 177) \o <<180>>, ((1 + 4) + 20) + 1)
        BY <1>2, <1>3, <2>2, ZenonT(30)
    <2> QED
        BY <1>11, <2>3 DEF ModelIDs
<1>12. CASE u = 10
    <2>1. ListOf(<<5, 6, 51>> \o From(151, 156), 3 + 6)
        BY <1>1, <1>2, <1>3
    <2>2. ListOf(<<5, 6, 51>> \o From(151, 156) \o From(158, 170), (3 + 6) + 13)
        BY <1>1, <1>3, <2>1, ZenonT(30)
    <2>3. ListOf(<<5, 6, 51>> \o From(151, 156) \o From(158, 170) \o From(172, 176),
                 ((3 + 6) + 13) + 5)
        BY <1>1, <1>3, <2>2, ZenonT(30)
    <2>4. ListOf(<<5, 6, 51>> \o From(151, 156) \o From(158, 170) \o From(172, 176)
                     \o From(21, 26), (((3 + 6) + 13) + 5) + 6)
        BY <1>1, <1>3, <2>3, ZenonT(30)
    <2>5. ListOf(<<5, 6, 51>> \o From(151, 156) \o From(158, 170) \o From(172, 176)
                     \o From(21, 26) \o <<71, 74, 79, 81, 83, 84>>,
                 ((((3 + 6) + 13) + 5) + 6) + 6)
        BY <1>2, <1>3, <2>4
    <2> QED
        BY <1>12, <2>5 DEF ModelIDs
<1>13. CASE u = 2
    BY <1>5, <1>13 DEF ModelIDs
<1>14. CASE u = 7
    BY <1>5, <1>14 DEF ModelIDs
<1> QED
    BY <1>4, <1>6, <1>7, <1>8, <1>9, <1>10, <1>11, <1>12, <1>13, <1>14 DEF Units

\* Whatever is drawn for a unit, its outfit is a number, if from behind the list.
LEMMA OutfitIsNumber ==
    ASSUME NEW u \in Units, NEW s \in RandomSeeds
    PROVE  ModelAt(u, DrawFrom(s, LastIndex(u))) \in Nat
<1>1. LastIndex(u) \in 0..39
    BY ListsOfModels DEF LastIndex, ListOf
<1>2. PICK index \in Nat : index = DrawFrom(s, LastIndex(u))
    BY <1>1, DrawIsNear
<1>3. ModelAt(u, index) \in Nat
    <2>1. PICK list : list = ModelIDs[u]
        OBVIOUS
    <2>2. list \in Seq(Nat)
        BY <2>1, ListsOfModels DEF ListOf
    <2>3. index < Len(list) => list[index + 1] \in Nat
        BY <2>2
    <2>4. Stray \in Nat
        BY SMT DEF Stray
    <2> QED
        BY <2>1, <2>3, <2>4 DEF ModelAt
<1> QED
    BY <1>2, <1>3
\* The title's model is loaded by the number whose music comes next, if it comes later.
TitleIsDrawn ==
    /\ drawing = Idle => titleScreenBGM \in 0..3
    /\ music = 0 /\ titleModel # Idle => drawing = Idle /\ titleModel = ModelOfTitle

\* The inductive invariant
ModelsInv ==
    /\ settings \in Settings /\ seed \in RandomSeeds
    /\ titleScreenBGM \in 0..3 \cup {99} /\ drawing \in Loop \cup {Idle, 99}
    /\ music \in {0, 101, 901, 970} /\ titleModel \in 0..3 \cup {Idle}
    /\ gear \in [Units -> Nat] /\ loaded.modelID \in Nat
    /\ \A i \in DOMAIN priority : priority[i] \in Nat
    /\ TitleIsDrawn /\ TitleMatchesMusic /\ NobodyFreezes /\ ArchivesInOrder

LEMMA ModelsInitial == ModelsInit => ModelsInv
<1> SUFFICES ASSUME ModelsInit PROVE ModelsInv
    OBVIOUS
<1>1. seed \in RandomSeeds
    <2>1. seed \in 1..(RANDOM_MAX - 1)
        BY ModelsAssumption DEF ModelsInit
    <2>2. RANDOM_MAX \in Nat
        BY SMT DEF RANDOM_MAX
    <2> QED
        BY <2>1, <2>2, SeedsAre
<1>2. DOMAIN priority = {}
    BY DEF ModelsInit
<1>3. gear \in [Units -> Nat] /\ loaded.modelID = 0 /\ loaded.characterID = 0
    BY DEF ModelsInit, Nobody
<1>4. drawing = 99 /\ titleScreenBGM = 99 /\ music = 0 /\ titleModel = Idle /\ settings \in Settings
    BY DEF ModelsInit
<1>5. TitleIsDrawn /\ TitleMatchesMusic
    BY <1>4 DEF TitleIsDrawn, TitleMatchesMusic, Idle
<1>6. NobodyFreezes
    BY <1>3 DEF NobodyFreezes
<1>7. ArchivesInOrder
    BY <1>2 DEF ArchivesInOrder
<1>8. loaded.modelID \in Nat /\ 0 \in {0, 101, 901, 970}
    BY <1>3
<1> QED
    BY <1>1, <1>2, <1>3, <1>4, <1>5, <1>6, <1>7, <1>8 DEF ModelsInv

LEMMA DrawStep ==
    ASSUME ModelsInv, Draw
    PROVE  ModelsInv'
<1>1. seed' \in RandomSeeds /\ titleScreenBGM' = DrawFrom(seed', 2)
    <2>1. seed \in Nat
        BY SeedsAre DEF ModelsInv
    <2> QED
        BY <2>1, RandomInRange DEF Draw
<1>2. titleScreenBGM' \in 0..3
    BY <1>1, DrawIsNear
<1>3. /\ drawing # Idle /\ drawing' \in {drawing, Idle}
      /\ settings' = settings /\ music' = music /\ titleModel' = titleModel
      /\ gear' = gear /\ loaded' = loaded /\ priority' = priority
    BY DEF Draw
<1>4. music = 0 => titleModel = Idle
    BY <1>3 DEF ModelsInv, TitleIsDrawn
<1>5. TitleIsDrawn' /\ TitleMatchesMusic'
    BY <1>2, <1>3, <1>4 DEF ModelsInv, TitleIsDrawn, TitleMatchesMusic
<1>6. NobodyFreezes' /\ ArchivesInOrder'
    BY <1>3 DEF ModelsInv, NobodyFreezes, ArchivesInOrder
<1> QED
    BY <1>1, <1>2, <1>3, <1>5, <1>6 DEF ModelsInv

LEMMA BgmStep ==
    ASSUME ModelsInv, setBgmTitle
    PROVE  ModelsInv'
<1>1. /\ drawing = Idle /\ music = 0 /\ loaded' = Nobody
      /\ music' = IF RoyalTitle THEN BGMOfTitle(titleScreenBGM) ELSE 101
      /\ drawing' \in {titleScreenBGM, Idle} /\ (drawing' = Idle \/ drawing' \in Loop)
      /\ settings' = settings /\ seed' = seed /\ titleScreenBGM' = titleScreenBGM
      /\ titleModel' = titleModel /\ gear' = gear /\ priority' = priority
    BY DEF setBgmTitle
<1>2. music' \in {101, 901, 970} /\ music' # 0
    BY <1>1 DEF BGMOfTitle
<1>3. titleModel # Idle => titleModel = ModelOfTitle
    BY <1>1 DEF ModelsInv, TitleIsDrawn
<1>4. TitleMatchesMusic'
    BY <1>1, <1>3 DEF TitleMatchesMusic, ModelOfTitle, BGMOfTitle
<1>5. TitleIsDrawn'
    BY <1>1, <1>2 DEF ModelsInv, TitleIsDrawn
<1>6. loaded'.modelID \in Nat /\ NobodyFreezes'
    BY <1>1 DEF NobodyFreezes, Nobody
<1>7. ArchivesInOrder'
    BY <1>1 DEF ModelsInv, ArchivesInOrder
<1> QED
    BY <1>1, <1>2, <1>4, <1>5, <1>6, <1>7 DEF ModelsInv

LEMMA TitleModelStep ==
    ASSUME ModelsInv, LoadTitleModel
    PROVE  ModelsInv'
<1>1. /\ drawing = Idle /\ music = 0 /\ titleModel' = ModelOfTitle
      /\ settings' = settings /\ seed' = seed /\ titleScreenBGM' = titleScreenBGM
      /\ drawing' = drawing /\ music' = music
      /\ gear' = gear /\ priority' = priority /\ loaded' = loaded
    BY DEF LoadTitleModel
<1>2. ModelOfTitle \in 0..3
    BY <1>1 DEF ModelsInv, TitleIsDrawn, ModelOfTitle
<1>3. ModelOfTitle' = ModelOfTitle
    BY <1>1 DEF ModelOfTitle, RoyalTitle
<1>4. TitleIsDrawn' /\ TitleMatchesMusic'
    BY <1>1, <1>3 DEF ModelsInv, TitleIsDrawn, TitleMatchesMusic
<1>5. NobodyFreezes' /\ ArchivesInOrder'
    BY <1>1 DEF ModelsInv, NobodyFreezes, ArchivesInOrder
<1> QED
    BY <1>1, <1>2, <1>4, <1>5 DEF ModelsInv

LEMMA LeftTitleStep ==
    ASSUME ModelsInv, LeaveTitle
    PROVE  ModelsInv'
<1>1. /\ drawing = Idle /\ music' = 0 /\ titleModel' = Idle
      /\ settings' = settings /\ seed' = seed /\ titleScreenBGM' = titleScreenBGM
      /\ drawing' = drawing /\ gear' = gear /\ priority' = priority /\ loaded' = loaded
    BY DEF LeaveTitle
<1>2. TitleIsDrawn' /\ TitleMatchesMusic'
    BY <1>1 DEF ModelsInv, TitleIsDrawn, TitleMatchesMusic
<1>3. NobodyFreezes' /\ ArchivesInOrder'
    BY <1>1 DEF ModelsInv, NobodyFreezes, ArchivesInOrder
<1>4. music' \in {0, 101, 901, 970}
    BY <1>1
<1> QED
    BY <1>1, <1>2, <1>3, <1>4 DEF ModelsInv

\* Steps that concern neither the title nor its music keep them.
LEMMA TitleKept ==
    ASSUME ModelsInv, settings' = settings, UNCHANGED title
    PROVE  TitleIsDrawn' /\ TitleMatchesMusic'
<1>1. ModelOfTitle' = ModelOfTitle
    BY DEF ModelOfTitle, RoyalTitle, title
<1> QED
    BY <1>1 DEF ModelsInv, TitleIsDrawn, TitleMatchesMusic, title

LEMMA FieldStep ==
    ASSUME ModelsInv, LoadField
    PROVE  ModelsInv'
<1>1. PICK f : f = SeedsFrom(seed)
    OBVIOUS
<1>2. \A u \in 0..10 : f[u] \in RandomSeeds
    BY <1>1, SeedsStayInRange DEF ModelsInv
<1>3. /\ seed' = f[10] /\ gear' = [u \in Units |-> ModelAt(u, DrawFrom(f[u], LastIndex(u)))]
      /\ settings' = settings /\ UNCHANGED title /\ loaded' = loaded /\ priority' = priority
    BY <1>1 DEF LoadField
<1>4. seed' \in RandomSeeds
    BY <1>2, <1>3
<1>5. \A u \in Units : f[u] \in RandomSeeds
    BY <1>2 DEF Units
<1>6. gear' \in [Units -> Nat]
    BY <1>3, <1>5, OutfitIsNumber
<1>7. TitleIsDrawn' /\ TitleMatchesMusic'
    BY <1>3, TitleKept
<1>8. NobodyFreezes' /\ ArchivesInOrder'
    BY <1>3 DEF ModelsInv, NobodyFreezes, ArchivesInOrder
<1> QED
    BY <1>3, <1>4, <1>6, <1>7, <1>8 DEF ModelsInv, title

LEMMA OutfitStep ==
    ASSUME ModelsInv, NEW u \in Wardrobe, NEW outfit \in Outfits, WearOutfit(u, outfit)
    PROVE  ModelsInv'
<1>1. /\ gear' = [gear EXCEPT ![u] = outfit]
      /\ settings' = settings /\ seed' = seed /\ UNCHANGED title
      /\ loaded' = loaded /\ priority' = priority
    BY DEF WearOutfit
<1>2. outfit \in Nat
    BY ModelsAssumption
<1>3. gear' \in [Units -> Nat]
    BY <1>1, <1>2, ZenonT(30) DEF ModelsInv
<1>4. TitleIsDrawn' /\ TitleMatchesMusic'
    BY <1>1, TitleKept
<1>5. NobodyFreezes' /\ ArchivesInOrder'
    BY <1>1 DEF ModelsInv, NobodyFreezes, ArchivesInOrder
<1> QED
    BY <1>1, <1>3, <1>4, <1>5 DEF ModelsInv, title

\* The coat is put on last, over whatever was asked for or taken from an outfit.
LEMMA CoatIsWarm ==
    ASSUME NEW c, NEW model \in Nat
    PROVE  /\ WithCoat(c, model) \in Nat
           /\ settings.midWinter /\ c \in Units => WithCoat(c, model) \notin {2, 4}
<1>1. CASE ~settings.midWinter
    BY <1>1 DEF WithCoat
<1>2. CASE settings.midWinter
    <2>1. WithCoat(c, model) \in {5, 6, model}
        BY <1>2 DEF WithCoat
    <2>2. c \in Units => WithCoat(c, model) \notin {2, 4}
        BY <1>2 DEF WithCoat
    <2> QED
        BY <2>1, <2>2
<1> QED
    BY <1>1, <1>2

LEMMA HumanStep ==
    ASSUME ModelsInv, NEW c, NEW d \in Dresses, NEW dark \in BOOLEAN, LoadHuman(c, d, dark)
    PROVE  ModelsInv'
<1>1. PICK asked : asked = IF c = 9 /\ d = 51 /\ dark THEN 52 ELSE d
    OBVIOUS
<1>2. d \in Nat
    BY ModelsAssumption
<1>3. asked \in Nat
    BY <1>1, <1>2
<1>4. PICK dressed : dressed = WithOutfit(c, asked)
    OBVIOUS
<1>5. dressed \in Nat
    BY <1>3, <1>4 DEF WithOutfit, GetCombatModelMinorIDFromOutfit, ModelsInv
<1>6. /\ loaded' = [characterID |-> c, modelID |-> WithCoat(c, dressed)]
      /\ settings' = settings /\ seed' = seed /\ UNCHANGED title
      /\ gear' = gear /\ priority' = priority
    BY <1>1, <1>4 DEF LoadHuman
<1>7. loaded'.characterID = c /\ loaded'.modelID = WithCoat(c, dressed)
    BY <1>6
<1>8. loaded'.modelID \in Nat /\ NobodyFreezes'
    BY <1>5, <1>6, <1>7, CoatIsWarm DEF NobodyFreezes
<1>9. TitleIsDrawn' /\ TitleMatchesMusic'
    BY <1>6, TitleKept
<1>10. ArchivesInOrder'
    BY <1>6 DEF ModelsInv, ArchivesInOrder
<1> QED
    BY <1>6, <1>8, <1>9, <1>10 DEF ModelsInv, title

LEMMA ArchivesStep ==
    ASSUME ModelsInv, BindCPKs
    PROVE  ModelsInv'
<1>1. PICK n \in Nat : n = settings.extraModCPK
    BY ModelsAssumption DEF ModelsInv
<1>2. PICK found \in SUBSET (0..n) : priority' = [i \in found |-> Priority(i, n)]
    BY <1>1 DEF BindCPKs
<1>3. /\ settings' = settings /\ seed' = seed /\ UNCHANGED title
      /\ gear' = gear /\ loaded' = loaded
    BY DEF BindCPKs
<1>4. \A i \in found : i \in Nat /\ i <= n
    OBVIOUS
<1>5. \A i \in found : Priority(i, n) \in Nat /\ Priority(i, n) > 30
    BY <1>4 DEF Priority
<1>6. \A i, j \in found : i < j => Priority(i, n) > Priority(j, n)
    BY <1>4 DEF Priority
<1>7. ArchivesInOrder' /\ \A i \in DOMAIN priority' : priority'[i] \in Nat
    BY <1>2, <1>5, <1>6 DEF ArchivesInOrder
<1>8. TitleIsDrawn' /\ TitleMatchesMusic'
    BY <1>3, TitleKept
<1>9. NobodyFreezes'
    BY <1>3 DEF ModelsInv, NobodyFreezes
<1> QED
    BY <1>3, <1>7, <1>8, <1>9 DEF ModelsInv, title

LEMMA ModelsStep == ModelsInv /\ [ModelsNext]_modelsVars => ModelsInv'
<1> SUFFICES ASSUME ModelsInv, [ModelsNext]_modelsVars PROVE ModelsInv'
    OBVIOUS
<1>1. CASE Draw
    BY <1>1, DrawStep
<1>2. CASE setBgmTitle
    BY <1>2, BgmStep
<1>3. CASE LoadTitleModel
    BY <1>3, TitleModelStep
<1>4. CASE LeaveTitle
    BY <1>4, LeftTitleStep
<1>5. CASE LoadField
    BY <1>5, FieldStep
<1>6. ASSUME NEW u \in Wardrobe, NEW outfit \in Outfits, WearOutfit(u, outfit) PROVE ModelsInv'
    BY <1>6, OutfitStep
<1>7. ASSUME NEW c \in {1, 9, 1003, 2104}, NEW d \in Dresses, NEW dark \in BOOLEAN,
             LoadHuman(c, d, dark)
      PROVE  ModelsInv'
    BY <1>7, HumanStep
<1>8. CASE BindCPKs
    BY <1>8, ArchivesStep
<1>9. CASE UNCHANGED modelsVars
    <2>1. TitleIsDrawn' /\ TitleMatchesMusic'
        BY <1>9, TitleKept DEF modelsVars, title
    <2> QED
        BY <1>9, <2>1 DEF modelsVars, ModelsInv, NobodyFreezes, ArchivesInOrder
<1> QED
    BY <1>1, <1>2, <1>3, <1>4, <1>5, <1>6, <1>7, <1>8, <1>9 DEF ModelsNext

(* Whatever is drawn, worn, asked for and bound, the title's model waits for the
   music of its own number. *)
THEOREM ModelsInvariant == ModelsSpec => []ModelsInv
<1>1. ModelsInit => ModelsInv
    BY ModelsInitial
<1>2. ModelsInv /\ [ModelsNext]_modelsVars => ModelsInv'
    BY ModelsStep
<1> QED
    BY <1>1, <1>2, PTL DEF ModelsSpec

(* For every seed, and so for every number the generator can come to, with every
   configuration and outfit: title and music, outfit and season, archives and
   their order fit together (p5e.c). *)
THEOREM ModelsFitCorrect == ModelsSpec => []ModelsFit
<1>1. ModelsInv => ModelsFit
    BY DEF ModelsInv, ModelsFit, ModelsTypeOK, RandomSeeds
<1> QED
    BY <1>1, ModelsInvariant, PTL
(***************************************************************************)
(* The rows of a list: the members of a set by their number.                *)
(***************************************************************************)
RankIn(S, m) == Cardinality({k \in S : k < m})
Numbered(S) == IsFiniteSet(S) /\ \A k \in S : k \in Int

LEMMA RankBelow ==
    ASSUME NEW S, Numbered(S), NEW m \in S
    PROVE  RankIn(S, m) \in Nat /\ RankIn(S, m) < Cardinality(S)
<1>0. IsFiniteSet(S) /\ \A k \in S : k \in Int
    BY DEF Numbered
<1>1. PICK low : low = {k \in S : k < m}
    OBVIOUS
<1>2. low \in SUBSET (S \ {m})
    <2>1. \A k \in low : k \in S /\ k # m
        BY <1>0, <1>1
    <2> QED
        BY <2>1
<1>3. IsFiniteSet(S \ {m}) /\ Cardinality(S \ {m}) = Cardinality(S) - 1
    BY <1>0, FS_RemoveElement
<1>4. IsFiniteSet(low) /\ Cardinality(low) <= Cardinality(S \ {m})
    BY <1>2, <1>3, FS_Subset
<1>5. Cardinality(low) \in Nat /\ Cardinality(S) \in Nat
    BY <1>0, <1>4, FS_CardinalityType
<1> QED
    BY <1>1, <1>3, <1>4, <1>5 DEF RankIn

LEMMA RankGrows ==
    ASSUME NEW S, Numbered(S), NEW m \in S, NEW n \in S, m < n
    PROVE  RankIn(S, m) < RankIn(S, n)
<1>0. IsFiniteSet(S) /\ \A k \in S : k \in Int
    BY DEF Numbered
<1>1. PICK low, high : low = {k \in S : k < m} /\ high = {k \in S : k < n}
    OBVIOUS
<1>2. low \cup {m} \in SUBSET high /\ m \notin low
    <2>1. \A k \in low : k \in high
        BY <1>0, <1>1
    <2>2. m \in high /\ m \notin low
        BY <1>0, <1>1
    <2> QED
        BY <2>1, <2>2
<1>3. low \in SUBSET S /\ high \in SUBSET S
    BY <1>1
<1>4. IsFiniteSet(low) /\ IsFiniteSet(high)
    BY <1>0, <1>3, FS_Subset
<1>5. Cardinality(low \cup {m}) = Cardinality(low) + 1
    BY <1>2, <1>4, FS_AddElement
<1>6. Cardinality(low \cup {m}) <= Cardinality(high)
    BY <1>2, <1>4, FS_Subset
<1>7. Cardinality(low) \in Nat /\ Cardinality(high) \in Nat
    BY <1>4, FS_CardinalityType
<1> QED
    BY <1>1, <1>5, <1>6, <1>7 DEF RankIn

LEMMA RanksDiffer ==
    ASSUME NEW S, Numbered(S), NEW m \in S, NEW n \in S,
           RankIn(S, m) = RankIn(S, n)
    PROVE  m = n
<1>0. IsFiniteSet(S) /\ \A k \in S : k \in Int
    BY DEF Numbered
<1>1. RankIn(S, m) \in Nat
    BY RankBelow
<1>2. m < n \/ n < m \/ m = n
    BY <1>0
<1>3. CASE m < n
    <2>1. RankIn(S, m) < RankIn(S, n)
        BY <1>3, RankGrows
    <2> QED
        BY <1>1, <2>1
<1>4. CASE n < m
    <2>1. RankIn(S, n) < RankIn(S, m)
        BY <1>4, RankGrows
    <2> QED
        BY <1>1, <2>1
<1> QED
    BY <1>2, <1>3, <1>4

LEMMA EveryRankIsThere ==
    ASSUME NEW S, Numbered(S), NEW i \in Nat, i < Cardinality(S)
    PROVE  \E m \in S : RankIn(S, m) = i
<1>0. IsFiniteSet(S) /\ \A k \in S : k \in Int
    BY DEF Numbered
<1>1. PICK N \in Nat : N = Cardinality(S)
    BY <1>0, FS_CardinalityType
<1> DEFINE rank == [m \in S |-> RankIn(S, m)]
<1>2. \A m \in S : RankIn(S, m) \in 0..(N - 1)
    <2> TAKE m \in S
    <2>1. RankIn(S, m) \in Nat /\ RankIn(S, m) < N
        BY <1>1, RankBelow
    <2> QED
        BY <2>1
<1>3. rank \in [S -> 0..(N - 1)] /\ \A m \in S : rank[m] = RankIn(S, m)
    BY <1>2
<1> HIDE DEF rank
<1>4. \A m, n \in S : rank[m] = rank[n] => m = n
    BY <1>3, RanksDiffer
<1>5. rank \in Injection(S, 0..(N - 1))
    BY <1>3, <1>4 DEF Injection, IsInjective
<1>6. IsFiniteSet(0..(N - 1)) /\ Cardinality(0..(N - 1)) = N
    <2>1. 0 \in Int /\ N - 1 \in Int
        OBVIOUS
    <2>2. IsFiniteSet(0..(N - 1)) /\ Cardinality(0..(N - 1)) = IF 0 > N - 1 THEN 0 ELSE (N - 1) - 0 + 1
        BY <2>1, FS_Interval
    <2>3. (IF 0 > N - 1 THEN 0 ELSE (N - 1) - 0 + 1) = N
        OBVIOUS
    <2> QED
        BY <2>2, <2>3
<1>7. rank \in Surjection(S, 0..(N - 1))
    BY <1>0, <1>1, <1>5, <1>6, FS_Injection
<1>8. i \in 0..(N - 1)
    BY <1>1
<1>9. \E m \in S : rank[m] = i
    BY <1>7, <1>8 DEF Surjection
<1> QED
    BY <1>3, <1>9

\* The row of a member is its rank, and the member of a row has it.
LEMMA RowsByRank ==
    ASSUME NEW S, Numbered(S), NEW N \in Nat, N = Cardinality(S)
    PROVE  /\ Members(S) \in [1..N -> S]
           /\ \A i \in 1..N : RankIn(S, Members(S)[i]) = i - 1
           /\ \A m \in S : Members(S)[RankIn(S, m) + 1] = m
<1>0. IsFiniteSet(S) /\ \A k \in S : k \in Int
    BY DEF Numbered
<1>1. ASSUME NEW i \in 1..N
      PROVE  Members(S)[i] \in S /\ RankIn(S, Members(S)[i]) = i - 1
    <2>1. Members(S)[i] = CHOOSE m \in S : RankIn(S, m) = i - 1
        BY DEF Members, RankIn
    <2>2. i - 1 \in Nat /\ i - 1 < Cardinality(S)
        OBVIOUS
    <2>3. \E m \in S : RankIn(S, m) = i - 1
        BY <2>2, EveryRankIsThere
    <2> QED
        BY <2>1, <2>3
<1>2. Members(S) = [i \in 1..N |-> Members(S)[i]]
    <2>1. Members(S) = [i \in 1..N |-> CHOOSE m \in S : Cardinality({k \in S : k < m}) = i - 1]
        BY DEF Members
    <2> QED
        BY <2>1
<1>3. Members(S) \in [1..N -> S]
    BY <1>1, <1>2
<1>4. ASSUME NEW m \in S
      PROVE  Members(S)[RankIn(S, m) + 1] = m
    <2>1. PICK i \in 1..N : i = RankIn(S, m) + 1 /\ i - 1 = RankIn(S, m)
        <3>1. RankIn(S, m) \in Nat /\ RankIn(S, m) < N
            BY RankBelow
        <3> QED
            BY <3>1
    <2>2. Members(S)[i] \in S /\ RankIn(S, Members(S)[i]) = RankIn(S, m)
        BY <1>1, <2>1
    <2> QED
        BY <2>1, <2>2, RanksDiffer
<1> QED
    BY <1>1, <1>3, <1>4

(* What is left of a list behind its first numbers is the rest of it, if as many
   members as numbers are left out. *)
LEMMA RestOfRows ==
    ASSUME NEW S, Numbered(S), NEW N \in Nat, N = Cardinality(S),
           NEW o \in Nat, o <= N, Cardinality({m \in S : m <= o}) = o
    PROVE  /\ Cardinality({m \in S : m > o}) = N - o
           /\ \A i \in 1..(N - o) : Members({m \in S : m > o})[i] = Members(S)[i + o]
<1>0. IsFiniteSet(S) /\ \A k \in S : k \in Int
    BY DEF Numbered
<1>1. PICK low, rest : low = {m \in S : m <= o} /\ rest = {m \in S : m > o}
    OBVIOUS
<1>2. IsFiniteSet(low) /\ IsFiniteSet(rest) /\ Numbered(rest)
    <2>1. low \in SUBSET S /\ rest \in SUBSET S
        BY <1>1
    <2> QED
        BY <1>0, <2>1, FS_Subset DEF Numbered
<1>3. Cardinality(rest) = N - o
    <2>1. S = low \cup rest /\ low \cap rest = {}
        <3>1. \A k \in S : (k <= o) # (k > o)
            BY <1>0
        <3> QED
            BY <1>1, <3>1
    <2>2. Cardinality(low \cup rest) = Cardinality(low) + Cardinality(rest) - Cardinality(low \cap rest)
        BY <1>2, FS_Union
    <2>3. Cardinality(rest) \in Nat /\ Cardinality(low) = o
        BY <1>1, <1>2, FS_CardinalityType
    <2> QED
        BY <2>1, <2>2, <2>3, FS_EmptySet
<1>4. ASSUME NEW m \in rest
      PROVE  RankIn(S, m) = o + RankIn(rest, m)
    <2>1. PICK before : before = {k \in rest : k < m}
        OBVIOUS
    <2>2. {k \in S : k < m} = low \cup before /\ low \cap before = {}
        <3>1. m \in Int /\ m > o
            BY <1>0, <1>1
        <3>2. \A k \in S : (k < m) <=> (k <= o \/ (k > o /\ k < m))
            BY <1>0, <3>1
        <3>3. \A k \in S : ~(k <= o /\ k > o)
            BY <1>0
        <3> QED
            BY <1>1, <2>1, <3>2, <3>3
    <2>3. IsFiniteSet(before)
        <3>1. before \in SUBSET rest
            BY <2>1
        <3> QED
            BY <1>2, <3>1, FS_Subset
    <2>4. Cardinality(low \cup before) = Cardinality(low) + Cardinality(before) - Cardinality(low \cap before)
        BY <1>2, <2>3, FS_Union
    <2>5. Cardinality(before) \in Nat /\ Cardinality(low) = o
        BY <1>1, <2>3, FS_CardinalityType
    <2>6. RankIn(S, m) = Cardinality(low \cup before) /\ RankIn(rest, m) = Cardinality(before)
        BY <2>1, <2>2 DEF RankIn
    <2>7. Cardinality(low \cap before) = 0
        BY <2>2, FS_EmptySet
    <2> QED
        BY <2>4, <2>5, <2>6, <2>7
<1>5. ASSUME NEW i \in 1..(N - o)
      PROVE  Members(rest)[i] = Members(S)[i + o]
    <2>1. PICK m \in rest : m = Members(rest)[i] /\ RankIn(rest, m) = i - 1
        <3>1. N - o \in Nat
            OBVIOUS
        <3> QED
            BY <1>2, <1>3, <3>1, RowsByRank
    <2>2. RankIn(S, m) = o + (i - 1)
        BY <1>4, <2>1
    <2>3. m \in S /\ Members(S)[RankIn(S, m) + 1] = m
        BY <1>1, RowsByRank
    <2>4. (o + (i - 1)) + 1 = i + o
        OBVIOUS
    <2> QED
        BY <2>1, <2>2, <2>3, <2>4
<1> QED
    BY <1>1, <1>3, <1>5
(***************************************************************************)
(* PartyList, for every save.                                               *)
(***************************************************************************)
LEMMA AllButOne ==
    ASSUME NEW n \in Nat, NEW k \in 1..n
    PROVE  IsFiniteSet((1..n) \ {k}) /\ Cardinality((1..n) \ {k}) = n - 1
<1>1. IsFiniteSet(1..n) /\ Cardinality(1..n) = IF 1 > n THEN 0 ELSE n - 1 + 1
    BY FS_Interval
<1>2. (IF 1 > n THEN 0 ELSE n - 1 + 1) = n
    OBVIOUS
<1> QED
    BY <1>1, <1>2, FS_RemoveElement

LEMMA PartyIs ==
    ASSUME save \in Saves
    PROVE  /\ partyMembers \subseteq (1..10) \ {8} /\ 1 \in partyMembers
           /\ Numbered(partyMembers)
           /\ IsFiniteSet((1..10) \ {8}) /\ Cardinality((1..10) \ {8}) = 9
           /\ Cardinality(partyMembers) \in 1..9
<1>1. partyMembers \subseteq (1..10) \ {8}
    BY DEF partyMembers
<1>2. 1 \in partyMembers
    <2>1. 1 \in save.game
        BY SavesAssumption
    <2> QED
        BY <2>1 DEF partyMembers, isPartyMemberUnlocked
<1>3. IsFiniteSet((1..10) \ {8}) /\ Cardinality((1..10) \ {8}) = 9
    <2>1. PICK n \in Nat : n = 10
        OBVIOUS
    <2>2. 8 \in 1..n /\ n - 1 = 9
        BY <2>1
    <2>3. IsFiniteSet((1..n) \ {8}) /\ Cardinality((1..n) \ {8}) = 9
        BY <2>2, AllButOne
    <2> QED
        BY <2>1, <2>3
<1>4. IsFiniteSet(partyMembers) /\ Cardinality(partyMembers) <= 9
    <2>1. PICK all : all = (1..10) \ {8}
        OBVIOUS
    <2>2. partyMembers \in SUBSET all /\ IsFiniteSet(all) /\ Cardinality(all) = 9
        BY <1>1, <1>3, <2>1
    <2>3. IsFiniteSet(partyMembers) /\ Cardinality(partyMembers) <= Cardinality(all)
        BY <2>2, FS_Subset
    <2> QED
        BY <2>2, <2>3
<1>5. Cardinality(partyMembers) \in Nat /\ Cardinality(partyMembers) # 0
    BY <1>2, <1>4, FS_CardinalityType, FS_EmptySet
<1>6. Numbered(partyMembers)
    BY <1>1, <1>4 DEF Numbered
<1> QED
    BY <1>1, <1>2, <1>3, <1>4, <1>5, <1>6

LEMMA LimitIs ==
    ASSUME save \in Saves
    PROVE  /\ ScrollLimit \in 0..2
           /\ ScrollLimit > 0 => Cardinality(partyMembers) = ScrollLimit + 7
           /\ ScrollLimit = 0 => Cardinality(partyMembers) <= 7
<1>1. PICK N \in 1..9 : N = Cardinality(partyMembers)
    BY PartyIs
<1>2. ScrollLimit = IF N < 7 THEN 0 ELSE N - 7
    BY <1>1 DEF ScrollLimit
<1> QED
    BY <1>1, <1>2

(* The offset counts members by their numbers: as far as the window moves there
   is a member for each of the numbers it moves over. *)
LEMMA NumbersAreThere ==
    ASSUME save \in Saves, NEW o \in 0..ScrollLimit
    PROVE  Cardinality({m \in partyMembers : m <= o}) = o
<1>1. o = 0 \/ o = 1 \/ (o = 2 /\ ScrollLimit = 2)
    BY LimitIs
<1>2. \A m \in partyMembers : m \in Int /\ m >= 1
    BY PartyIs
<1>3. CASE o = 0
    <2>1. {m \in partyMembers : m <= o} = {}
        BY <1>2, <1>3
    <2> QED
        BY <1>3, <2>1, FS_EmptySet
<1>4. CASE o = 1
    <2>1. \A m \in partyMembers : m <= o <=> m = 1
        BY <1>2, <1>4
    <2>2. {m \in partyMembers : m <= o} = {1}
        BY <2>1, PartyIs
    <2> QED
        BY <1>4, <2>2, FS_Singleton
<1>5. CASE o = 2 /\ ScrollLimit = 2
    <2>1. Cardinality(partyMembers) = 9
        BY <1>5, LimitIs
    <2>2. partyMembers = (1..10) \ {8}
        BY <2>1, PartyIs, FS_Subset
    <2>3. 2 \in partyMembers /\ 1 \in partyMembers
        BY <2>2
    <2>4. \A m \in partyMembers : m <= o <=> m = 1 \/ m = 2
        BY <1>2, <1>5
    <2>5. {m \in partyMembers : m <= o} = {1} \cup {2}
        BY <2>3, <2>4
    <2>6. PICK S : S = {1} /\ IsFiniteSet(S) /\ Cardinality(S) = 1 /\ 2 \notin S
        <3>1. 2 \notin {1}
            OBVIOUS
        <3>2. IsFiniteSet({1}) /\ Cardinality({1}) = 1
            BY FS_Singleton
        <3> QED
            BY <3>1, <3>2
    <2>7. Cardinality(S \cup {2}) = Cardinality(S) + 1
        BY <2>6, FS_AddElement
    <2> QED
        BY <1>5, <2>5, <2>6, <2>7
<1> QED
    BY <1>1, <1>3, <1>4, <1>5

\* The rows of a window: as many members as fit, one after the other.
Window(o, list) ==
    /\ list \in Seq(1..10)
    /\ Len(list) = IF Cardinality(partyMembers) < 7 THEN Cardinality(partyMembers) ELSE 7
    /\ o + Len(list) <= Cardinality(partyMembers)
    /\ \A i \in 1..Len(list) : list[i] = Members(partyMembers)[i + o]

LEMMA RowsAreConsecutive ==
    ASSUME save \in Saves, NEW o \in 0..ScrollLimit
    PROVE  Window(o, RowsFrom(o))
<1>1. PICK N \in 1..9 : N = Cardinality(partyMembers)
    BY PartyIs
<1>2. PICK rest : rest = {m \in partyMembers : m > o}
    OBVIOUS
<1>3. o \in Nat /\ o <= N /\ (N < 7 => o = 0) /\ (N >= 7 => N - o >= 7)
    BY <1>1, LimitIs
<1>4. Cardinality({m \in partyMembers : m <= o}) = o
    BY NumbersAreThere
<1>5. /\ Cardinality(rest) = N - o
      /\ \A i \in 1..(N - o) : Members(rest)[i] = Members(partyMembers)[i + o]
    BY <1>1, <1>2, <1>3, <1>4, PartyIs, RestOfRows
<1>6. Numbered(rest) /\ rest \subseteq 1..10
    <2>1. rest \in SUBSET partyMembers
        BY <1>2
    <2>2. IsFiniteSet(partyMembers) /\ \A m \in partyMembers : m \in Int /\ m \in 1..10
        BY PartyIs DEF Numbered
    <2> QED
        BY <2>1, <2>2, FS_Subset DEF Numbered
<1>7. PICK K \in Nat : K = N - o
    BY <1>3
<1>8. Members(rest) \in [1..K -> rest]
    BY <1>5, <1>6, <1>7, RowsByRank
<1>9. PICK all : all = Members(rest)
    OBVIOUS
<1>10. all \in Seq(1..10) /\ Len(all) = K
    <2>1. all \in [1..K -> 1..10]
        BY <1>6, <1>8, <1>9
    <2> QED
        BY <2>1
<1>11. PICK n \in 1..7 : n = IF K < 7 THEN K ELSE 7
    BY <1>3, <1>7
<1>12. RowsFrom(o) = SubSeq(all, 1, n)
    BY <1>2, <1>9, <1>10, <1>11 DEF RowsFrom
<1>13. /\ SubSeq(all, 1, n) \in Seq(1..10) /\ Len(SubSeq(all, 1, n)) = n
       /\ \A i \in 1..n : SubSeq(all, 1, n)[i] = all[i]
    BY <1>10, <1>11
<1>14. n = IF N < 7 THEN N ELSE 7
    BY <1>3, <1>7, <1>11
<1>15. \A i \in 1..n : all[i] = Members(partyMembers)[i + o]
    BY <1>5, <1>7, <1>9, <1>11
<1>16. o + n <= N
    BY <1>3, <1>7, <1>11
<1> QED
    BY <1>1, <1>12, <1>13, <1>14, <1>15, <1>16 DEF Window

LEMMA PartyStays ==
    ASSUME save' = save
    PROVE  /\ partyMembers' = partyMembers /\ ScrollLimit' = ScrollLimit
           /\ RowsFrom(partyListOffset)' = RowsFrom(partyListOffset')
<1>1. partyMembers' = partyMembers
    BY DEF partyMembers, isPartyMemberUnlocked
<1> QED
    BY <1>1 DEF ScrollLimit, RowsFrom

Windowed == Lists \cup {"everyone"}
OneForEach(list) == list \in Seq(1..10) /\ Len(list) \in 1..10

\* The inductive invariant of the lists
ListInv ==
    /\ save \in Saves /\ menu \in {NoMenu, "equip"} \cup Windowed
    /\ scrollMax \in {0, ScrollLimit} /\ partyListOffset \in 0..scrollMax
    /\ menu \in Windowed =>
           /\ scrollMax = ScrollLimit /\ rows = RowsFrom(partyListOffset)
           /\ cursor \in 0..(Len(rows) - 1)
    /\ menu = "equip" => OneForEach(rows) /\ cursor \in 0..(Len(rows) - 1)
    /\ menu = NoMenu => rows = <<>> /\ cursor = 0

LEMMA RowsOfWindow ==
    ASSUME ListInv, menu \in Windowed
    PROVE  /\ Window(partyListOffset, rows) /\ partyListOffset \in Nat
           /\ Len(rows) \in 1..7 /\ (scrollMax > 0 => Len(rows) = 7)
           /\ scrollMax \in 0..2 /\ partyListOffset <= scrollMax
           /\ cursor \in Nat /\ cursor < Len(rows)
<1>1. save \in Saves /\ partyListOffset \in 0..ScrollLimit /\ rows = RowsFrom(partyListOffset)
      /\ scrollMax = ScrollLimit /\ cursor \in 0..(Len(rows) - 1)
    BY DEF ListInv
<1>2. Window(partyListOffset, rows)
    BY <1>1, RowsAreConsecutive
<1>3. ScrollLimit \in 0..2 /\ (ScrollLimit > 0 => Cardinality(partyMembers) = ScrollLimit + 7)
    BY <1>1, LimitIs
<1>4. PICK N \in 1..9 : N = Cardinality(partyMembers)
    BY <1>1, PartyIs
<1>5. Len(rows) = IF N < 7 THEN N ELSE 7
    BY <1>2, <1>4 DEF Window
<1> QED
    BY <1>1, <1>2, <1>3, <1>4, <1>5

LEMMA ListInitial == ListInit => ListInv
<1> SUFFICES ASSUME ListInit PROVE ListInv
    OBVIOUS
<1>1. NoMenu \notin Windowed /\ NoMenu # "equip"
    BY DEF NoMenu, Windowed, Lists
<1> QED
    BY <1>1 DEF ListInit, ListInv

LEMMA OpenListStep ==
    ASSUME ListInv, NEW m, OpenMenu(m)
    PROVE  ListInv'
<1>1. /\ save' = save /\ menu' \in {"items", "skills"} /\ cursor' = 0
      /\ scrollMax' = ScrollLimit /\ partyListOffset' = 0 /\ rows' = RowsFrom(0)
    BY DEF OpenMenu, BuildPartyMemberItemsMenu
<1>2. menu' \in Windowed /\ menu' # NoMenu /\ menu' # "equip"
    BY <1>1 DEF Windowed, Lists, NoMenu
<1>3. save \in Saves
    BY DEF ListInv
<1>4. ScrollLimit \in 0..2 /\ 0 \in 0..ScrollLimit
    BY <1>3, LimitIs
<1>5. Window(0, RowsFrom(0))
    BY <1>3, <1>4, RowsAreConsecutive
<1>6. Cardinality(partyMembers) \in 1..9
    BY <1>3, PartyIs
<1>7. 0 \in 0..(Len(RowsFrom(0)) - 1)
    <2>1. PICK N \in 1..9 : N = Cardinality(partyMembers)
        BY <1>6
    <2>2. PICK n : n = Len(RowsFrom(0))
        OBVIOUS
    <2>3. n = IF N < 7 THEN N ELSE 7
        BY <1>5, <2>1, <2>2 DEF Window
    <2>4. n \in Nat /\ n >= 1
        BY <2>3
    <2> QED
        BY <2>2, <2>4
<1>8. ScrollLimit' = ScrollLimit /\ RowsFrom(partyListOffset)' = RowsFrom(0)
    BY <1>1, PartyStays
<1> QED
    BY <1>1, <1>2, <1>3, <1>4, <1>7, <1>8 DEF ListInv

LEMMA EquipRows ==
    ASSUME save \in Saves
    PROVE  OneForEach(<<1>> \o Members({m \in 2..10 : isPartyMemberUnlocked(m)}))
<1>1. PICK S : S = {m \in 2..10 : isPartyMemberUnlocked(m)}
    OBVIOUS
<1>2. S \in SUBSET (2..10) /\ \A m \in S : m \in 1..10 /\ m \in Int
    BY <1>1
<1>3. PICK n \in Nat : n = 10
    OBVIOUS
<1>4. IsFiniteSet(S) /\ Cardinality(S) <= 9
    <2>1. PICK all : all = (1..n) \ {1}
        OBVIOUS
    <2>2. IsFiniteSet(all) /\ Cardinality(all) = 9
        <3>1. 1 \in 1..n /\ n - 1 = 9
            BY <1>3
        <3> QED
            BY <2>1, <3>1, AllButOne
    <2>3. S \in SUBSET all
        BY <1>2, <1>3, <2>1
    <2>4. IsFiniteSet(S) /\ Cardinality(S) <= Cardinality(all)
        BY <2>2, <2>3, FS_Subset
    <2> QED
        BY <2>2, <2>4
<1>5. PICK K \in Nat : K = Cardinality(S) /\ K <= 9
    BY <1>4, FS_CardinalityType
<1>6. Numbered(S)
    BY <1>2, <1>4 DEF Numbered
<1>7. Members(S) \in [1..K -> S]
    BY <1>5, <1>6, RowsByRank
<1>8. PICK list : list = Members(S)
    OBVIOUS
<1>9. list \in Seq(1..10) /\ Len(list) = K
    <2>1. list \in [1..K -> 1..10]
        BY <1>2, <1>7, <1>8
    <2> QED
        BY <2>1
<1>10. <<1>> \o list \in Seq(1..10) /\ Len(<<1>> \o list) = K + 1
    BY <1>9
<1> QED
    BY <1>1, <1>5, <1>8, <1>10 DEF OneForEach

LEMMA OpenEquipStep ==
    ASSUME ListInv, OpenEquip
    PROVE  ListInv'
<1>1. /\ save' = save /\ menu' = "equip" /\ cursor' = 0
      /\ scrollMax' = scrollMax /\ partyListOffset' = partyListOffset
    BY DEF OpenEquip
<1>2. OneForEach(rows')
    BY EquipRows DEF OpenEquip, BuildPartyMemberEquipMenu, ListInv
<1>3. "equip" \notin Windowed /\ "equip" # NoMenu
    BY DEF Windowed, Lists, NoMenu
<1>4. 0 \in 0..(Len(rows') - 1)
    <2>1. PICK list : list = rows'
        OBVIOUS
    <2>2. Len(list) \in 1..10
        BY <1>2, <2>1 DEF OneForEach
    <2>3. 0 \in 0..(Len(list) - 1)
        BY <2>2
    <2> QED
        BY <2>1, <2>3
<1>5. ScrollLimit' = ScrollLimit
    BY <1>1, PartyStays
<1> QED
    BY <1>1, <1>2, <1>3, <1>4, <1>5 DEF ListInv

LEMMA EquipScrollStep ==
    ASSUME ListInv, NEW pad, ScrollThroughEquipPartyList(pad)
    PROVE  ListInv'
<1>1. /\ menu = "equip" /\ save' = save /\ menu' = menu /\ rows' = rows
      /\ scrollMax' = scrollMax /\ partyListOffset' = partyListOffset
      /\ \/ cursor' = 0 \/ (cursor # Len(rows) - 1 /\ cursor' = cursor + 1)
         \/ cursor' = Len(rows) - 1 \/ (cursor # 0 /\ cursor' = cursor - 1)
    BY DEF ScrollThroughEquipPartyList
<1>2. OneForEach(rows) /\ cursor \in 0..(Len(rows) - 1)
    BY <1>1 DEF ListInv
<1>3. cursor' \in 0..(Len(rows) - 1)
    BY <1>1, <1>2 DEF OneForEach
<1>4. "equip" \notin Windowed /\ "equip" # NoMenu
    BY DEF Windowed, Lists, NoMenu
<1>5. ScrollLimit' = ScrollLimit
    BY <1>1, PartyStays
<1> QED
    BY <1>1, <1>2, <1>3, <1>4, <1>5 DEF ListInv

LEMMA CloseListStep ==
    ASSUME ListInv, CloseMenu
    PROVE  ListInv'
<1>1. /\ save' = save /\ menu' = NoMenu /\ rows' = <<>> /\ cursor' = 0
      /\ scrollMax' = scrollMax /\ partyListOffset' = partyListOffset
    BY DEF CloseMenu
<1>2. NoMenu \notin Windowed /\ NoMenu # "equip"
    BY DEF NoMenu, Windowed, Lists
<1>3. ScrollLimit' = ScrollLimit
    BY <1>1, PartyStays
<1> QED
    BY <1>1, <1>2, <1>3 DEF ListInv

\* What the hooks correct stays in the window, and the window in the list.
LEMMA ScrolledFits ==
    ASSUME NEW a3 \in 0..6, NEW pad, scrollMax \in 1..2, partyListOffset \in 0..scrollMax
    PROVE  Scrolled(a3, pad).row \in 0..6 /\ Scrolled(a3, pad).offset \in 0..scrollMax
<1>1. PICK o, l : o = partyListOffset /\ l = scrollMax
    OBVIOUS
<1>2. Scrolled(a3, pad) \in {At(0, o - 1), At(1, o - 1), At(6, l), At(5, o + 1), At(0, 0), At(a3, o)}
    BY <1>1 DEF Scrolled, ScrollThroughItemPartyList, ScrollThroughSkillPartyList
<1>3. Scrolled(a3, pad) \in {At(0, o - 1), At(1, o - 1)} => o > 0
    BY <1>1 DEF Scrolled, ScrollThroughItemPartyList, ScrollThroughSkillPartyList, At
<1>4. o \in Nat /\ l \in 1..2 /\ o <= l
    BY <1>1
<1>5. CASE Scrolled(a3, pad) = At(0, o - 1) \/ Scrolled(a3, pad) = At(1, o - 1)
    BY <1>1, <1>3, <1>4, <1>5 DEF At
<1>6. CASE Scrolled(a3, pad) = At(6, l) \/ Scrolled(a3, pad) = At(0, 0) \/ Scrolled(a3, pad) = At(a3, o)
    BY <1>1, <1>4, <1>6 DEF At
<1>7. CASE Scrolled(a3, pad) = At(5, o + 1)
    <2>1. o < l
        BY <1>1, <1>4, <1>7 DEF Scrolled, ScrollThroughItemPartyList, ScrollThroughSkillPartyList, At
    <2> QED
        BY <1>1, <1>4, <1>7, <2>1 DEF At
<1> QED
    BY <1>2, <1>5, <1>6, <1>7
LEMMA ScrollStep ==
    ASSUME ListInv, menu \in Windowed, menu' \in Windowed, save' = save,
           NEW a3 \in Nat, a3 < Len(rows), NEW pad, ScrollTo(a3, pad)
    PROVE  ListInv'
<1>1. menu' # NoMenu /\ menu' # "equip"
    BY DEF Windowed, Lists, NoMenu
<1>2. save \in Saves /\ scrollMax = ScrollLimit /\ rows = RowsFrom(partyListOffset)
    BY DEF ListInv
<1>3. scrollMax \in 0..2 /\ (scrollMax > 0 => Len(rows) = 7) /\ partyListOffset \in 0..scrollMax
    BY RowsOfWindow
<1>4. CASE scrollMax > 0
    <2>1. PICK r, o : r = Scrolled(a3, pad).row /\ o = Scrolled(a3, pad).offset
        OBVIOUS
    <2>2. r \in 0..6 /\ o \in 0..ScrollLimit
        <3>1. scrollMax \in 1..2
            BY <1>3, <1>4
        <3>2. Len(rows) = 7
            BY <1>3, <1>4
        <3>3. a3 < 7
            BY <3>2
        <3>4. a3 \in 0..6
            BY <3>3
        <3> QED
            BY <1>2, <1>3, <2>1, <3>1, <3>4, ScrolledFits
    <2>3. cursor' = r /\ scrollMax' = ScrollLimit /\ partyListOffset' = o /\ rows' = RowsFrom(o)
        BY <1>4, <2>1 DEF ScrollTo, BuildPartyMemberItemsMenu
    <2>4. ScrollLimit' = ScrollLimit /\ RowsFrom(partyListOffset)' = RowsFrom(o)
        BY <2>3, PartyStays
    <2>5. Len(RowsFrom(o)) = 7
        <3>1. Window(o, RowsFrom(o))
            BY <1>2, <2>2, RowsAreConsecutive
        <3>2. Cardinality(partyMembers) = ScrollLimit + 7 /\ ScrollLimit \in 1..2
            BY <1>2, <1>3, <1>4, LimitIs
        <3>3. ~(Cardinality(partyMembers) < 7)
            BY <3>2
        <3> QED
            BY <3>1, <3>3 DEF Window
    <2>6. cursor' \in 0..(Len(rows') - 1)
        BY <2>2, <2>3, <2>5
    <2> QED
        BY <1>1, <1>2, <2>2, <2>3, <2>4, <2>6 DEF ListInv
<1>5. CASE ~(scrollMax > 0)
    <2>1. /\ cursor' = a3 /\ scrollMax' = scrollMax
          /\ partyListOffset' = partyListOffset /\ rows' = rows
        BY <1>5 DEF ScrollTo
    <2>2. ScrollLimit' = ScrollLimit /\ RowsFrom(partyListOffset)' = RowsFrom(partyListOffset)
        BY <2>1, PartyStays
    <2>3. cursor' \in 0..(Len(rows') - 1)
        <3>1. PICK n \in 1..7 : n = Len(rows)
            BY RowsOfWindow
        <3> QED
            BY <2>1, <3>1
    <2> QED
        BY <1>1, <1>2, <1>3, <2>1, <2>2, <2>3 DEF ListInv
<1> QED
    BY <1>4, <1>5

\* One row on or back, round so many rows.
LEMMA RoundTheRows ==
    ASSUME NEW n \in 1..9, NEW c \in Nat, c < n, NEW d \in {-1, 1}
    PROVE  (c + d) % n = IF c + d = -1 THEN n - 1 ELSE IF c + d = n THEN 0 ELSE c + d
<1>1. c + d \in Int /\ c + d >= -1 /\ c + d <= n
    OBVIOUS
<1>2. PICK k \in Int : k = c + d
    BY <1>1
<1> DEFINE Round(m) == k % m = IF k = -1 THEN m - 1 ELSE IF k = m THEN 0 ELSE k
<1>3. CASE n = 1
    <2>1. k \in {-1, 0, 1}
        BY <1>1, <1>2, <1>3
    <2>2. Round(1)
        BY <2>1
    <2> QED
        BY <1>2, <1>3, <2>2
<1>4. CASE n = 2
    <2>1. Round(2)
        BY <1>1, <1>2, <1>4
    <2> QED
        BY <1>2, <1>4, <2>1
<1>5. CASE n = 3
    <2>1. Round(3)
        BY <1>1, <1>2, <1>5
    <2> QED
        BY <1>2, <1>5, <2>1
<1>6. CASE n = 4
    <2>1. Round(4)
        BY <1>1, <1>2, <1>6
    <2> QED
        BY <1>2, <1>6, <2>1
<1>7. CASE n = 5
    <2>1. Round(5)
        BY <1>1, <1>2, <1>7
    <2> QED
        BY <1>2, <1>7, <2>1
<1>8. CASE n = 6
    <2>1. Round(6)
        BY <1>1, <1>2, <1>8
    <2> QED
        BY <1>2, <1>8, <2>1
<1>9. CASE n = 7
    <2>1. Round(7)
        BY <1>1, <1>2, <1>9
    <2> QED
        BY <1>2, <1>9, <2>1
<1>10. CASE n = 8
    <2>1. Round(8)
        BY <1>1, <1>2, <1>10
    <2> QED
        BY <1>2, <1>10, <2>1
<1>11. CASE n = 9
    <2>1. Round(9)
        BY <1>1, <1>2, <1>11
    <2> QED
        BY <1>2, <1>11, <2>1
<1> QED
    BY <1>3, <1>4, <1>5, <1>6, <1>7, <1>8, <1>9, <1>10, <1>11

LEMMA StepIsOne == \A pad : Step(pad) \in {-1, 1}
<1> QED
    BY DEF Step

\* The row that the game would select next.
LEMMA NextRow ==
    ASSUME ListInv, menu \in Windowed, NEW pad
    PROVE  /\ (cursor + Step(pad)) % Len(rows) \in Nat
           /\ (cursor + Step(pad)) % Len(rows) < Len(rows)
           /\ (cursor + Step(pad)) % Len(rows) =
                  IF cursor + Step(pad) = -1 THEN Len(rows) - 1
                  ELSE IF cursor + Step(pad) = Len(rows) THEN 0 ELSE cursor + Step(pad)
<1>1. PICK n \in 1..7 : n = Len(rows)
    BY RowsOfWindow
<1>2. PICK d \in {-1, 1} : d = Step(pad)
    BY StepIsOne
<1>3. cursor \in Nat /\ cursor < n
    BY <1>1, RowsOfWindow
<1>4. n \in 1..9
    OBVIOUS
<1>5. (cursor + d) % n = IF cursor + d = -1 THEN n - 1 ELSE IF cursor + d = n THEN 0 ELSE cursor + d
    BY <1>3, <1>4, RoundTheRows
<1>6. PICK r : r = (cursor + d) % n
    OBVIOUS
<1>7. r \in Nat /\ r < n
    BY <1>3, <1>5, <1>6
<1> QED
    BY <1>1, <1>2, <1>5, <1>6, <1>7

LEMMA MoveStep ==
    ASSUME ListInv, NEW pad, Move(pad)
    PROVE  ListInv'
<1>1. menu \in Windowed /\ menu' \in Windowed /\ save' = save
    BY DEF Move, Windowed
<1>2. PICK a3 : a3 = (cursor + Step(pad)) % Len(rows)
    OBVIOUS
<1>3. a3 \in Nat /\ a3 < Len(rows)
    BY <1>1, <1>2, NextRow
<1>4. ScrollTo(a3, pad)
    BY <1>2 DEF Move
<1> QED
    BY <1>1, <1>3, <1>4, ScrollStep

\* The member in a row of a window, by the offset and the row.
LEMMA MemberOfRow ==
    ASSUME save \in Saves, NEW o \in 0..ScrollLimit, NEW c \in Nat, c < Len(RowsFrom(o))
    PROVE  /\ RowsFrom(o)[c + 1] \in 1..10
           /\ Rank(RowsFrom(o)[c + 1]) = o + c
           /\ o + c < Cardinality(partyMembers)
<1>1. PICK list : list = RowsFrom(o)
    OBVIOUS
<1>2. Window(o, list)
    BY <1>1, RowsAreConsecutive
<1>3. PICK N \in 1..9 : N = Cardinality(partyMembers)
    BY PartyIs
<1>4. PICK n \in Nat : n = Len(list) /\ o + n <= N /\ c < n
    BY <1>1, <1>2, <1>3 DEF Window
<1>5. o \in Nat
    BY LimitIs
<1>6. list[c + 1] = Members(partyMembers)[(c + 1) + o] /\ list[c + 1] \in 1..10
    <2>1. \A i \in 1..n : list[i] = Members(partyMembers)[i + o]
        BY <1>2, <1>4 DEF Window
    <2>2. list \in Seq(1..10)
        BY <1>2 DEF Window
    <2>3. c + 1 \in 1..n
        BY <1>4
    <2>4. list[c + 1] \in 1..10
        BY <1>4, <2>2, <2>3
    <2> QED
        BY <2>1, <2>3, <2>4
<1>7. PICK i \in 1..N : i = (c + 1) + o /\ i - 1 = o + c
    BY <1>4, <1>5
<1>8. RankIn(partyMembers, Members(partyMembers)[i]) = i - 1
    BY <1>3, PartyIs, RowsByRank
<1>9. Rank(list[c + 1]) = RankIn(partyMembers, list[c + 1])
    BY DEF Rank, RankIn
<1>10. o + c < N
    BY <1>4, <1>5
<1> QED
    BY <1>1, <1>3, <1>6, <1>7, <1>8, <1>9, <1>10

\* What the hooks make of the row that the game would select.
LEMMA ScrolledIs ==
    ASSUME NEW a3 \in 0..6, NEW pad \in {"up", "down"},
           NEW o \in Nat, o = partyListOffset, NEW l \in Nat, l = scrollMax, o <= l
    PROVE  /\ pad = "up" /\ a3 = 6 /\ o = 0 => Scrolled(a3, pad) = At(6, l)
           /\ pad = "up" /\ a3 = 0 /\ o > 0 => Scrolled(a3, pad) = At(1, o - 1)
           /\ pad = "up" /\ a3 = 0 /\ o = 0 => Scrolled(a3, pad) = At(0, o)
           /\ pad = "down" /\ a3 = 6 /\ o < l => Scrolled(a3, pad) = At(5, o + 1)
           /\ pad = "down" /\ a3 = 6 /\ o = l => Scrolled(a3, pad) = At(6, o)
           /\ pad = "down" /\ a3 = 0 /\ o = l => Scrolled(a3, pad) = At(0, 0)
           /\ a3 # 0 /\ a3 # 6 => Scrolled(a3, pad) = At(a3, o)
<1>1. CASE pad = "up"
    BY <1>1 DEF Scrolled, ScrollThroughItemPartyList, ScrollThroughSkillPartyList
<1>2. CASE pad = "down"
    BY <1>2 DEF Scrolled, ScrollThroughItemPartyList, ScrollThroughSkillPartyList
<1> QED
    BY <1>1, <1>2

LEMMA MoveIsByOne ==
    ASSUME ListInv, NEW pad \in {"up", "down"}, Move(pad), Aligned
    PROVE  /\ Rank(Selected') = (Rank(Selected) + Step(pad)) % Cardinality(partyMembers)
           /\ Aligned'
<1>1. menu \in Windowed /\ save \in Saves /\ scrollMax = ScrollLimit
      /\ rows = RowsFrom(partyListOffset) /\ partyListOffset \in 0..ScrollLimit
    BY DEF Move, Windowed, ListInv
<1>2. PICK c \in Nat, o \in Nat, l \in 0..2, n \in 1..7 :
          c = cursor /\ o = partyListOffset /\ l = scrollMax /\ n = Len(rows) /\ c < n /\ o <= l
    BY <1>1, RowsOfWindow
<1>3. PICK d \in {-1, 1} : d = Step(pad) /\ (d = -1 <=> pad = "up")
    BY DEF Step
<1>4. PICK a3 \in Nat : /\ a3 = (c + d) % n /\ a3 < n
                        /\ a3 = IF c + d = -1 THEN n - 1 ELSE IF c + d = n THEN 0 ELSE c + d
    BY <1>1, <1>2, <1>3, NextRow
<1>5. ScrollTo(a3, pad) /\ save' = save
    BY <1>2, <1>3, <1>4 DEF Move
<1>6. PICK N \in 1..9 : N = Cardinality(partyMembers)
    BY <1>1, PartyIs
<1>7. Rank(Selected) = o + c /\ o + c < N
    BY <1>1, <1>2, <1>6, MemberOfRow DEF Selected
<1>8. (Rank(Selected) + Step(pad)) % N =
          IF o + c + d = -1 THEN N - 1 ELSE IF o + c + d = N THEN 0 ELSE o + c + d
    <2>1. PICK p \in Nat : p = o + c /\ p < N
        BY <1>7
    <2>2. (p + d) % N = IF p + d = -1 THEN N - 1 ELSE IF p + d = N THEN 0 ELSE p + d
        BY <2>1, RoundTheRows
    <2> QED
        BY <1>3, <1>7, <2>1, <2>2
<1>9. (c = 0 => o = 0) /\ (c = n - 1 => o = l)
    BY <1>2 DEF Aligned
<1>10. CASE l = 0
    <2>1. cursor' = a3 /\ scrollMax' = 0 /\ partyListOffset' = 0 /\ rows' = rows /\ o = 0
        BY <1>2, <1>5, <1>10 DEF ScrollTo
    <2>2. n = N
        <3>1. Cardinality(partyMembers) <= 7
            BY <1>1, <1>2, <1>10, LimitIs
        <3>2. Window(partyListOffset, rows)
            BY <1>1, RowsOfWindow
        <3>3. n = IF N < 7 THEN N ELSE 7
            BY <1>2, <1>6, <3>2 DEF Window
        <3> QED
            BY <1>6, <3>1, <3>3
    <2>3. Rank(Selected') = a3
        <3>1. rows' = RowsFrom(0) /\ 0 \in 0..ScrollLimit /\ a3 < Len(RowsFrom(0))
            BY <1>1, <1>2, <1>4, <2>1
        <3>2. Rank(RowsFrom(0)[a3 + 1]) = 0 + a3
            BY <1>1, <3>1, MemberOfRow
        <3> QED
            BY <2>1, <3>1, <3>2 DEF Selected
    <2>4. a3 = IF o + c + d = -1 THEN N - 1 ELSE IF o + c + d = N THEN 0 ELSE o + c + d
        BY <1>4, <2>1, <2>2
    <2>5. Aligned'
        BY <2>1 DEF Aligned
    <2> QED
        BY <1>6, <1>8, <2>3, <2>4, <2>5
<1>11. CASE l # 0
    <2>1. N = l + 7 /\ n = 7 /\ l \in 1..2
        <3>1. Cardinality(partyMembers) = ScrollLimit + 7
            BY <1>1, <1>2, <1>11, LimitIs
        <3>2. scrollMax > 0 => Len(rows) = 7
            BY <1>1, RowsOfWindow
        <3> QED
            BY <1>1, <1>2, <1>6, <1>11, <3>1, <3>2
    <2>2. a3 \in 0..6
        BY <1>4, <2>1
    <2>3. PICK r, k : r = Scrolled(a3, pad).row /\ k = Scrolled(a3, pad).offset
        OBVIOUS
    <2>4. cursor' = r /\ partyListOffset' = k /\ rows' = RowsFrom(k) /\ scrollMax' = l
        BY <1>1, <1>2, <1>5, <2>1, <2>3 DEF ScrollTo, BuildPartyMemberItemsMenu
    <2>5. r \in 0..6 /\ k \in 0..l
        BY <1>2, <2>1, <2>2, <2>3, ScrolledFits
    <2>6. /\ pad = "up" /\ a3 = 6 /\ o = 0 => r = 6 /\ k = l
          /\ pad = "up" /\ a3 = 0 /\ o > 0 => r = 1 /\ k = o - 1
          /\ pad = "up" /\ a3 = 0 /\ o = 0 => r = 0 /\ k = o
          /\ pad = "down" /\ a3 = 6 /\ o < l => r = 5 /\ k = o + 1
          /\ pad = "down" /\ a3 = 6 /\ o = l => r = 6 /\ k = o
          /\ pad = "down" /\ a3 = 0 /\ o = l => r = 0 /\ k = 0
          /\ a3 # 0 /\ a3 # 6 => r = a3 /\ k = o
        BY <1>2, <2>2, <2>3, ScrolledIs DEF At
    <2>7. Len(rows') = 7 /\ Rank(Selected') = k + r
        <3>1. k \in 0..ScrollLimit
            BY <1>1, <1>2, <2>5
        <3>2. Window(k, RowsFrom(k))
            BY <1>1, <3>1, RowsAreConsecutive
        <3>3. ~(Cardinality(partyMembers) < 7)
            BY <1>6, <2>1
        <3>4. Len(RowsFrom(k)) = 7
            BY <3>2, <3>3 DEF Window
        <3>5. r \in Nat /\ r < Len(RowsFrom(k))
            BY <2>5, <3>4
        <3>6. Rank(RowsFrom(k)[r + 1]) = k + r
            BY <1>1, <3>1, <3>5, MemberOfRow
        <3> QED
            BY <2>4, <3>4, <3>6 DEF Selected
    <2>8. /\ k + r = IF o + c + d = -1 THEN N - 1 ELSE IF o + c + d = N THEN 0 ELSE o + c + d
          /\ (r = 0 => k = 0) /\ (r = 6 => k = l)
        <3>1. CASE pad = "up" /\ c = 0
            BY <1>3, <1>4, <1>9, <2>1, <2>6, <3>1
        <3>2. CASE pad = "up" /\ c # 0
            BY <1>2, <1>3, <1>4, <2>1, <2>6, <3>2
        <3>3. CASE pad = "down" /\ c = 6
            BY <1>3, <1>4, <1>9, <2>1, <2>6, <3>3
        <3>4. CASE pad = "down" /\ c # 6
            BY <1>2, <1>3, <1>4, <2>1, <2>6, <3>4
        <3> QED
            BY <3>1, <3>2, <3>3, <3>4
    <2>9. Aligned'
        BY <2>4, <2>5, <2>7, <2>8 DEF Aligned
    <2> QED
        BY <1>6, <1>8, <2>7, <2>8, <2>9
<1> QED
    BY <1>10, <1>11

LEMMA ListIsInReach ==
    ASSUME ListInv
    PROVE  RowsAreWindow
<1> SUFFICES ASSUME menu \in Lists
             PROVE  /\ rows = SubSeq(Members(partyMembers), partyListOffset + 1, partyListOffset + Len(rows))
                    /\ Len(rows) = IF Len(Members(partyMembers)) < 7
                                   THEN Len(Members(partyMembers)) ELSE 7
                    /\ partyListOffset <= scrollMax
                    /\ cursor < Len(rows)
    BY DEF RowsAreWindow
<1>1. menu \in Windowed
    BY DEF Windowed
<1>2. PICK o \in Nat, n \in 1..7 : /\ o = partyListOffset /\ n = Len(rows)
                                   /\ Window(o, rows) /\ o <= scrollMax /\ cursor < n
    BY <1>1, RowsOfWindow
<1>3. PICK N \in 1..9 : N = Cardinality(partyMembers)
    BY PartyIs DEF ListInv
<1>4. PICK all : all = Members(partyMembers)
    OBVIOUS
<1>5. all \in [1..N -> partyMembers]
    BY <1>3, <1>4, PartyIs, RowsByRank DEF ListInv
<1>6. all \in Seq(partyMembers) /\ Len(all) = N
    BY <1>5
<1>7. rows \in Seq(1..10) /\ n = (IF N < 7 THEN N ELSE 7) /\ o + n <= N
      /\ \A i \in 1..n : rows[i] = all[i + o]
    BY <1>2, <1>3, <1>4 DEF Window
<1>8. PICK part : part = SubSeq(all, o + 1, o + n)
    OBVIOUS
<1>9. part \in Seq(partyMembers) /\ Len(part) = n /\ \A i \in 1..n : part[i] = all[i + o]
    BY <1>2, <1>6, <1>7, <1>8, SMTT(30)
<1>10. rows = part
    <2>1. \A i \in 1..n : rows[i] = part[i]
        BY <1>7, <1>9
    <2>2. rows \in Seq(1..10) /\ Len(rows) = n /\ part \in Seq(partyMembers) /\ Len(part) = n
        BY <1>2, <1>7, <1>9
    <2>3. rows = [i \in 1..n |-> rows[i]]
        BY <2>2
    <2>4. part = [i \in 1..n |-> part[i]]
        BY <2>2
    <2> QED
        BY <2>1, <2>3, <2>4
<1> QED
    BY <1>2, <1>4, <1>6, <1>7, <1>8, <1>10
(***************************************************************************)
(* Healing, for every save, every patient, skill and item.                  *)
(***************************************************************************)
Aiming == {"targets", "everyone"}

\* Who chose the skill is who is charged, and has what it takes to be.
AimedByChooser ==
    menu \in Aiming =>
        /\ chooser = skillMenuPartyMemberSource /\ chooser \in Patients /\ skill \in Skills
        /\ menu = "targets" => skill.kind = "one"

\* The inductive invariant
HealInv ==
    /\ ListInv
    /\ hp \in [Patients -> Nat] /\ sp \in [Patients -> Nat] /\ freeHP \in Nat /\ freeSP \in Nat
    /\ skill \in Skills \cup {NoSkill}
    /\ skillMenuPartyMemberSource \in 0..10 /\ chooser \in 0..10
    /\ item \in Items \cup {NoItem}
    /\ stock \in Nat /\ stock < 256 /\ entry \in Nat /\ entry < 256
    /\ garbled \in BOOLEAN /\ crashed \in BOOLEAN
    /\ MenuCountsStock /\ AimedByChooser

LEMMA SkillsAre ==
    ASSUME NEW s \in Skills
    PROVE  s.hp \in Nat /\ s.sp \in Nat /\ s.kind \in {"one", "all", "escape"}
<1>1. MaxPoints \in Nat /\ s.hp \in 0..MaxPoints /\ s.sp \in 0..MaxPoints
    BY HealingAssumption
<1> QED
    BY <1>1, HealingAssumption

LEMMA PatientsAre == \A m \in Patients : m \in 1..10
<1> QED
    BY HealingAssumption

LEMMA HealedIs ==
    ASSUME hp \in [Patients -> Nat], NEW S, \A m \in S : Refusal(m) = 0
    PROVE  /\ Healed(S) \in [Patients -> Nat]
           /\ \A m \in Patients : hp[m] <= Healed(S)[m]
           /\ \A m \in S : m \in Patients /\ hp[m] < Healed(S)[m]
<1>1. \A m \in S : m \in Patients /\ hp[m] < MaxPoints
    BY DEF Refusal
<1>2. Healed(S) = [m \in Patients |-> IF m \in S THEN MaxPoints ELSE hp[m]]
    BY DEF Healed
<1>3. MaxPoints \in Nat
    BY HealingAssumption
<1>4. Healed(S) \in [Patients -> Nat]
    BY <1>2, <1>3
<1>5. \A m \in Patients : hp[m] <= Healed(S)[m]
    BY <1>1, <1>2, <1>3
<1>6. \A m \in S : m \in Patients /\ hp[m] < Healed(S)[m]
    BY <1>1, <1>2
<1> QED
    BY <1>4, <1>5, <1>6

LEMMA PaidIs ==
    ASSUME NEW points \in [Patients -> Nat], NEW free \in Nat, NEW cost \in Nat,
           NEW m \in Patients, NEW answer \in {0, 1}, free > 0 \/ points[m] >= cost
    PROVE  /\ Paid(points, free, cost, m, answer) \in [Patients -> Nat]
           /\ Waived(free, cost) \in Nat
<1>1. Waived(free, cost) \in Nat
    BY DEF Waived
<1>2. CASE cost > 0 /\ free < 1
    <2>1. points[m] \in Nat /\ points[m] >= cost
        BY <1>2
    <2>2. points[m] + answer - cost \in Nat
        BY <2>1
    <2>3. Paid(points, free, cost, m, answer) = [points EXCEPT ![m] = points[m] + answer - cost]
        BY <1>2 DEF Paid
    <2> QED
        BY <1>1, <2>2, <2>3
<1>3. CASE ~(cost > 0 /\ free < 1)
    BY <1>1, <1>3 DEF Paid
<1> QED
    BY <1>2, <1>3

LEMMA PurseStep ==
    ASSUME HealInv, menu \in Aiming, NEW S, \A m \in S : Refusal(m) = 0, NEW answer \in {0, 1},
           Affordable(skillMenuPartyMemberSource, skill),
           SkillPays(Healed(S), skillMenuPartyMemberSource, skill, answer)
    PROVE  /\ hp' \in [Patients -> Nat] /\ sp' \in [Patients -> Nat]
           /\ freeHP' \in Nat /\ freeSP' \in Nat
<1>1. PICK m \in Patients : m = skillMenuPartyMemberSource
    BY DEF HealInv, AimedByChooser
<1>2. skill \in Skills
    BY DEF HealInv, AimedByChooser
<1>3. skill.hp \in Nat /\ skill.sp \in Nat
    BY <1>2, SkillsAre
<1>4. hp \in [Patients -> Nat] /\ sp \in [Patients -> Nat] /\ freeHP \in Nat /\ freeSP \in Nat
    BY DEF HealInv
<1>5. Healed(S) \in [Patients -> Nat] /\ hp[m] <= Healed(S)[m]
    BY <1>4, HealedIs
<1>6. (freeHP > 0 \/ hp[m] > skill.hp) /\ (freeSP > 0 \/ sp[m] >= skill.sp)
    BY <1>1 DEF Affordable, AffordableWith
<1>7. freeHP > 0 \/ Healed(S)[m] >= skill.hp
    BY <1>3, <1>4, <1>5, <1>6
<1>8. /\ Paid(Healed(S), freeHP, skill.hp, m, answer) \in [Patients -> Nat]
      /\ Waived(freeHP, skill.hp) \in Nat
    BY <1>3, <1>4, <1>5, <1>7, PaidIs
<1>9. /\ Paid(sp, freeSP, skill.sp, m, answer) \in [Patients -> Nat]
      /\ Waived(freeSP, skill.sp) \in Nat
    BY <1>3, <1>4, <1>6, PaidIs
<1> QED
    BY <1>1, <1>8, <1>9 DEF SkillPays

LEMMA HealInitial == HealInit => HealInv
<1> SUFFICES ASSUME HealInit PROVE HealInv
    OBVIOUS
<1>1. ListInv
    BY ListInitial DEF HealInit
<1>2. menu = NoMenu
    BY DEF HealInit, ListInit
<1>3. MenuCountsStock /\ AimedByChooser
    BY <1>2 DEF MenuCountsStock, AimedByChooser, Aiming, NoMenu
<1>4. MaxPoints \in Nat
    BY HealingAssumption
<1>5. hp \in [Patients -> Nat] /\ sp \in [Patients -> Nat] /\ freeHP \in Nat /\ freeSP \in Nat
    BY <1>4 DEF HealInit
<1>6. item \in Items \cup {NoItem} /\ stock \in Nat /\ stock < 256 /\ entry \in Nat /\ entry < 256
    BY DEF HealInit, EmptyBag
<1>7. skill \in Skills \cup {NoSkill} /\ skillMenuPartyMemberSource \in 0..10 /\ chooser \in 0..10
    BY DEF HealInit
<1>8. garbled \in BOOLEAN /\ crashed \in BOOLEAN
    BY DEF HealInit
<1> QED
    BY <1>1, <1>3, <1>5, <1>6, <1>7, <1>8 DEF HealInv

\* Between the lists of an open menu the rows stay, or the window moves.
LEMMA SameRows ==
    ASSUME ListInv, menu \in Windowed, menu' \in Windowed,
           UNCHANGED <<save, partyListOffset, scrollMax, rows, cursor>>
    PROVE  ListInv'
<1>1. menu' # NoMenu /\ menu' # "equip"
    BY DEF Windowed, Lists, NoMenu
<1>2. ScrollLimit' = ScrollLimit /\ RowsFrom(partyListOffset)' = RowsFrom(partyListOffset)
    BY PartyStays
<1> QED
    BY <1>1, <1>2 DEF ListInv

LEMMA ListStays ==
    ASSUME ListInv, UNCHANGED listVars
    PROVE  ListInv'
<1>1. ScrollLimit' = ScrollLimit /\ RowsFrom(partyListOffset)' = RowsFrom(partyListOffset)
    BY PartyStays DEF listVars
<1> QED
    BY <1>1 DEF ListInv, listVars

\* What only concerns the lists leaves the rest, and comes to no skill or item menu.
LEMMA RestStays ==
    ASSUME HealInv, UNCHANGED healVars, ListInv', menu' = menu \/ menu' \in {"skills", "equip", NoMenu}
    PROVE  HealInv'
<1>1. /\ hp' = hp /\ sp' = sp /\ freeHP' = freeHP /\ freeSP' = freeSP /\ skill' = skill
      /\ skillMenuPartyMemberSource' = skillMenuPartyMemberSource
      /\ item' = item /\ stock' = stock /\ entry' = entry
      /\ garbled' = garbled /\ crashed' = crashed /\ chooser' = chooser
    BY DEF healVars
<1>2. \A m \in {"skills", "equip", NoMenu} : m \notin Aiming /\ m # "items"
    BY DEF Aiming, NoMenu
<1>3. MenuCountsStock'
    BY <1>1, <1>2 DEF HealInv, MenuCountsStock
<1>4. AimedByChooser'
    BY <1>1, <1>2 DEF HealInv, AimedByChooser
<1> QED
    BY <1>1, <1>3, <1>4 DEF HealInv

LEMMA OpenItemStep ==
    ASSUME HealInv, OpenItemMenu
    PROVE  HealInv'
<1>1. ListInv' /\ menu' = "items"
    BY OpenListStep DEF OpenItemMenu, OpenMenu, HealInv
<1>2. item' \in Items /\ stock' \in 1..MaxStock /\ entry' = stock'
    BY DEF OpenItemMenu
<1>3. stock' \in Nat /\ stock' < 256
    <2>1. MaxStock \in Nat /\ MaxStock <= 99
        BY HealingAssumption
    <2> QED
        BY <1>2, <2>1
<1>4. /\ hp' = hp /\ sp' = sp /\ freeHP' = freeHP /\ freeSP' = freeSP /\ skill' = skill
      /\ skillMenuPartyMemberSource' = skillMenuPartyMemberSource
      /\ garbled' = garbled /\ crashed' = crashed /\ chooser' = chooser
    BY DEF OpenItemMenu, purse
<1>5. "items" \notin Aiming
    BY DEF Aiming
<1> QED
    BY <1>1, <1>2, <1>3, <1>4, <1>5 DEF HealInv, MenuCountsStock, AimedByChooser

LEMMA AimlessIs ==
    ASSUME HealInv, menu' \notin Aiming, Aimless
    PROVE  /\ skill' \in Skills \cup {NoSkill} /\ chooser' \in 0..10 /\ AimedByChooser'
<1> QED
    BY DEF Aimless, AimedByChooser

LEMMA CloseAnyStep ==
    ASSUME HealInv, CloseAnyMenu
    PROVE  HealInv'
<1>1. ListInv' /\ menu' = NoMenu
    BY CloseListStep DEF CloseAnyMenu, CloseMenu, HealInv
<1>2. menu' \notin Aiming /\ menu' # "items"
    BY <1>1 DEF Aiming, NoMenu
<1>3. Aimless
    BY DEF CloseAnyMenu
<1>4. skill' \in Skills \cup {NoSkill} /\ chooser' \in 0..10 /\ AimedByChooser'
    BY <1>2, <1>3, AimlessIs
<1>5. /\ hp' = hp /\ sp' = sp /\ freeHP' = freeHP /\ freeSP' = freeSP
      /\ skillMenuPartyMemberSource' = skillMenuPartyMemberSource
      /\ garbled' = garbled /\ crashed' = crashed
      /\ item' = NoItem /\ stock' = 0 /\ entry' = 0
    BY DEF CloseAnyMenu, purse
<1> QED
    BY <1>1, <1>2, <1>4, <1>5 DEF HealInv, MenuCountsStock

LEMMA ChooseSkillStep ==
    ASSUME HealInv, NEW s \in Skills, NEW pad, ChooseSkill(s, pad)
    PROVE  HealInv'
<1>1. /\ menu = "skills" /\ Selected \in Patients /\ skillMenuPartyMemberSource' = Selected
      /\ hp' = hp /\ sp' = sp /\ freeHP' = freeHP /\ freeSP' = freeSP
      /\ item' = item /\ stock' = stock /\ entry' = entry
      /\ garbled' = garbled /\ crashed' = crashed
    BY DEF ChooseSkill, purse, bag
<1>2. Selected \in 0..10
    BY <1>1, PatientsAre
<1>3. menu \in Windowed /\ menu \notin Aiming /\ menu # "items"
    BY <1>1 DEF Windowed, Lists, Aiming
<1>4. CASE ~Affordable(Selected, s)
    <2>1. UNCHANGED <<listVars, skill, chooser>>
        BY <1>4 DEF ChooseSkill
    <2>2. ListInv' /\ menu' = menu /\ skill' = skill /\ chooser' = chooser
        BY <2>1, ListStays DEF HealInv, listVars
    <2> QED
        BY <1>1, <1>2, <1>3, <2>2 DEF HealInv, MenuCountsStock, AimedByChooser
<1>5. CASE Affordable(Selected, s)
    <2>1. skill' = s /\ chooser' = Selected
        BY <1>5 DEF ChooseSkill
    <2>2. /\ save' = save
          /\ \/ s.kind = "one" /\ menu' = "targets" /\ ScrollTo(0, pad)
             \/ menu' = "everyone" /\ ScrollTo(cursor, "none")
        BY <1>5 DEF ChooseSkill, ChooseTarget
    <2>3. menu' \in Windowed /\ menu' # "items"
        BY <2>2 DEF Windowed, Lists
    <2>4. ListInv'
        <3>1. ListInv /\ cursor \in Nat /\ cursor < Len(rows) /\ 0 < Len(rows)
            BY <1>3, RowsOfWindow DEF HealInv
        <3> QED
            BY <1>3, <2>2, <2>3, <3>1, ScrollStep
    <2>5. AimedByChooser'
        BY <1>1, <2>1, <2>2 DEF AimedByChooser
    <2>6. skill' \in Skills \cup {NoSkill} /\ chooser' \in 0..10
        BY <1>2, <2>1
    <2> QED
        BY <1>1, <1>2, <2>3, <2>4, <2>5, <2>6 DEF HealInv, MenuCountsStock
<1> QED
    BY <1>4, <1>5

LEMMA StaysOrEnds ==
    ASSUME HealInv, menu \in Aiming, StaysIfAffordable,
           skillMenuPartyMemberSource' = skillMenuPartyMemberSource,
           UNCHANGED <<save, partyListOffset, scrollMax, rows, cursor>>
    PROVE  /\ ListInv' /\ menu' # "items" /\ AimedByChooser'
           /\ skill' \in Skills \cup {NoSkill} /\ chooser' \in 0..10
<1>1. menu \in Windowed /\ "skills" \in Windowed /\ "skills" \notin Aiming /\ menu # "items"
    BY DEF Windowed, Lists, Aiming
<1>2. \/ UNCHANGED <<menu, skill, chooser>>
      \/ menu' = "skills" /\ Aimless
    BY DEF StaysIfAffordable
<1>3. ListInv'
    BY <1>1, <1>2, SameRows DEF HealInv
<1>4. CASE UNCHANGED <<menu, skill, chooser>>
    BY <1>1, <1>3, <1>4 DEF HealInv, AimedByChooser
<1>5. CASE menu' = "skills" /\ Aimless
    <2>1. menu' \notin Aiming /\ menu' # "items"
        BY <1>1, <1>5
    <2> QED
        BY <1>3, <1>5, <2>1, AimlessIs
<1> QED
    BY <1>2, <1>4, <1>5

LEMMA LastAnswerIs == LastAnswer \in {0, 1}
<1> QED
    BY DEF LastAnswer, Refusal

\* Both ways to use a skill that heals: who is healed, and the answer at the end.
HealsWith(S, answer) ==
    /\ menu \in Aiming /\ Affordable(skillMenuPartyMemberSource, skill)
    /\ \A m \in S : Refusal(m) = 0
    /\ SkillPays(Healed(S), skillMenuPartyMemberSource, skill, answer)
    /\ UNCHANGED <<save, partyListOffset, scrollMax, rows, cursor,
                   skillMenuPartyMemberSource, bag, garbled, crashed>>
    /\ StaysIfAffordable

LEMMA OneHeals ==
    ASSUME UseSkillOnOne
    PROVE  HealsWith({Selected}, 0) /\ menu = "targets"
<1> QED
    BY DEF UseSkillOnOne, HealsWith, Aiming

LEMMA AllHeal ==
    ASSUME UseSkillOnAll
    PROVE  HealsWith(Healable, LastAnswer) /\ menu = "everyone" /\ skill.kind = "all"
<1> QED
    BY DEF UseSkillOnAll, HealsWith, Aiming, Healable

LEMMA HealsStep ==
    ASSUME HealInv, NEW S, NEW answer \in {0, 1}, HealsWith(S, answer)
    PROVE  HealInv'
<1>1. /\ hp' \in [Patients -> Nat] /\ sp' \in [Patients -> Nat]
      /\ freeHP' \in Nat /\ freeSP' \in Nat
    BY PurseStep DEF HealsWith
<1>2. /\ ListInv' /\ menu' # "items" /\ AimedByChooser'
      /\ skill' \in Skills \cup {NoSkill} /\ chooser' \in 0..10
    BY StaysOrEnds DEF HealsWith
<1>3. /\ skillMenuPartyMemberSource' = skillMenuPartyMemberSource
      /\ item' = item /\ stock' = stock /\ entry' = entry
      /\ garbled' = garbled /\ crashed' = crashed
    BY DEF HealsWith, bag
<1> QED
    BY <1>1, <1>2, <1>3 DEF HealInv, MenuCountsStock

LEMMA EscapeStep ==
    ASSUME HealInv, UseEscapeSkill
    PROVE  HealInv'
<1>1. PICK stale \in {0, 1} :
          /\ hp' = PaidBack(hp, freeHP, skill.hp, skillMenuPartyMemberSource, stale)
          /\ sp' = PaidBack(sp, freeSP, skill.sp, skillMenuPartyMemberSource, stale)
          /\ garbled' = (stale # 0)
    BY DEF UseEscapeSkill
<1>2. /\ menu = "everyone" /\ CloseMenu /\ Aimless
      /\ freeHP' = freeHP /\ freeSP' = freeSP
      /\ skillMenuPartyMemberSource' = skillMenuPartyMemberSource
      /\ item' = item /\ stock' = stock /\ entry' = entry /\ crashed' = crashed
    BY DEF UseEscapeSkill, bag
<1>3. ListInv' /\ menu' = NoMenu
    BY <1>2, CloseListStep DEF CloseMenu, HealInv
<1>4. menu' \notin Aiming /\ menu' # "items"
    BY <1>3 DEF Aiming, NoMenu
<1>5. skill' \in Skills \cup {NoSkill} /\ chooser' \in 0..10 /\ AimedByChooser'
    BY <1>2, <1>4, AimlessIs
<1>6. ASSUME NEW points \in [Patients -> Nat], NEW free, NEW cost, NEW m
      PROVE  PaidBack(points, free, cost, m, stale) \in [Patients -> Nat]
    <2>1. \A k \in Patients : points[k] + stale \in Nat /\ points[k] + 2 * stale \in Nat
        OBVIOUS
    <2>2. [points EXCEPT ![m] = @ + stale] \in [Patients -> Nat]
        BY <2>1
    <2>3. [points EXCEPT ![m] = @ + 2 * stale] \in [Patients -> Nat]
        BY <2>1
    <2>4. PaidBack(points, free, cost, m, stale) \in
              {points, [points EXCEPT ![m] = @ + stale], [points EXCEPT ![m] = @ + 2 * stale]}
        BY DEF PaidBack
    <2> QED
        BY <2>2, <2>3, <2>4
<1>7. hp' \in [Patients -> Nat] /\ sp' \in [Patients -> Nat]
    BY <1>1, <1>6 DEF HealInv
<1>8. garbled' \in BOOLEAN
    BY <1>1
<1> QED
    BY <1>2, <1>3, <1>4, <1>5, <1>7, <1>8 DEF HealInv, MenuCountsStock

LEMMA LeaveStep ==
    ASSUME HealInv, LeaveSkill
    PROVE  HealInv'
<1>1. /\ menu \in Aiming /\ menu' = "skills" /\ Aimless
      /\ UNCHANGED <<save, partyListOffset, scrollMax, rows, cursor>>
      /\ hp' = hp /\ sp' = sp /\ freeHP' = freeHP /\ freeSP' = freeSP
      /\ skillMenuPartyMemberSource' = skillMenuPartyMemberSource
      /\ item' = item /\ stock' = stock /\ entry' = entry
      /\ garbled' = garbled /\ crashed' = crashed
    BY DEF LeaveSkill, Aiming, purse, bag
<1>2. menu \in Windowed /\ menu' \in Windowed /\ menu' \notin Aiming /\ menu' # "items"
    BY <1>1 DEF Windowed, Lists, Aiming
<1>3. ListInv'
    BY <1>1, <1>2, SameRows DEF HealInv
<1>4. skill' \in Skills \cup {NoSkill} /\ chooser' \in 0..10 /\ AimedByChooser'
    BY <1>1, <1>2, AimlessIs
<1> QED
    BY <1>1, <1>2, <1>3, <1>4 DEF HealInv, MenuCountsStock

LEMMA UseItemStep ==
    ASSUME HealInv, UseItem
    PROVE  HealInv'
<1>1. /\ menu = "items" /\ entry > 0 /\ stock' = Taken
      /\ sp' = sp /\ freeHP' = freeHP /\ freeSP' = freeSP /\ skill' = skill /\ item' = item
      /\ skillMenuPartyMemberSource' = skillMenuPartyMemberSource
      /\ garbled' = garbled /\ crashed' = crashed /\ chooser' = chooser
    BY DEF UseItem
<1>2. entry = stock /\ stock \in Nat /\ stock < 256
    BY <1>1 DEF HealInv, MenuCountsStock
<1>3. stock' = stock - 1 /\ stock' \in Nat /\ stock' < 256
    <2>1. PICK rest \in Nat : rest = stock - 1 /\ rest < 256
        BY <1>1, <1>2
    <2>2. rest % 256 = rest
        BY <2>1
    <2> QED
        BY <1>1, <2>1, <2>2 DEF Taken
<1>4. CASE UNCHANGED listVars /\ entry' = entry - 1
    <2>1. ListInv' /\ menu' = menu
        BY <1>4, ListStays DEF HealInv, listVars
    <2>2. hp' \in [Patients -> Nat]
        <3>1. hp \in [Patients -> Nat]
            BY DEF HealInv
        <3>2. \/ Refusal(Selected) = 0 /\ hp' = Healed({Selected})
              \/ hp' = Healed(Healable) \/ hp' = hp
            BY DEF UseItem, Healing1
        <3>3. \A m \in Healable : Refusal(m) = 0
            BY DEF Healable
        <3>4. Refusal(Selected) = 0 => Healed({Selected}) \in [Patients -> Nat]
            BY <3>1, HealedIs
        <3>5. Healed(Healable) \in [Patients -> Nat]
            BY <3>1, <3>3, HealedIs
        <3> QED
            BY <3>1, <3>2, <3>4, <3>5
    <2>3. menu \notin Aiming
        BY <1>1 DEF Aiming
    <2>4. entry' = stock'
        BY <1>2, <1>3, <1>4
    <2> QED
        BY <1>1, <1>3, <2>1, <2>2, <2>3, <2>4 DEF HealInv, MenuCountsStock, AimedByChooser
<1>5. CASE CloseMenu /\ UNCHANGED <<entry, hp>>
    <2>1. ListInv' /\ menu' = NoMenu
        BY <1>5, CloseListStep DEF HealInv, CloseMenu
    <2>2. menu' \notin Aiming /\ menu' # "items"
        BY <2>1 DEF Aiming, NoMenu
    <2> QED
        BY <1>1, <1>3, <1>5, <2>1, <2>2 DEF HealInv, MenuCountsStock, AimedByChooser
<1> QED
    BY <1>4, <1>5 DEF UseItem

LEMMA WildItemStep ==
    ASSUME HealInv, UseWildItem
    PROVE  HealInv'
<1>1. /\ UNCHANGED listVars /\ hp' = hp /\ sp' = sp /\ freeHP' = freeHP /\ freeSP' = freeSP
      /\ skill' = skill /\ skillMenuPartyMemberSource' = skillMenuPartyMemberSource
      /\ item' = item /\ stock' = stock /\ entry' = entry
      /\ garbled' = garbled /\ chooser' = chooser
    BY DEF UseWildItem, purse, bag
<1>2. ListInv' /\ menu' = menu
    BY <1>1, ListStays DEF HealInv, listVars
<1>3. crashed' \in BOOLEAN
    BY DEF UseWildItem
<1>4. MenuCountsStock' /\ AimedByChooser'
    BY <1>1, <1>2 DEF HealInv, MenuCountsStock, AimedByChooser
<1> QED
    BY <1>1, <1>2, <1>3, <1>4 DEF HealInv

LEMMA GetHurtStep ==
    ASSUME HealInv, NEW m \in Patients, GetHurt(m)
    PROVE  HealInv'
<1>1. /\ UNCHANGED listVars /\ sp' = sp /\ freeHP' = freeHP /\ freeSP' = freeSP
      /\ skill' = skill /\ skillMenuPartyMemberSource' = skillMenuPartyMemberSource
      /\ item' = item /\ stock' = stock /\ entry' = entry
      /\ garbled' = garbled /\ crashed' = crashed /\ chooser' = chooser
    BY DEF GetHurt, bag
<1>2. ListInv' /\ menu' = menu
    BY <1>1, ListStays DEF HealInv, listVars
<1>3. hp' \in [Patients -> Nat]
    <2>1. hp \in [Patients -> Nat] /\ hp[m] > 1 /\ hp' = [hp EXCEPT ![m] = @ - 1]
        BY DEF GetHurt, HealInv
    <2>2. hp[m] - 1 \in Nat
        BY <2>1
    <2> QED
        BY <2>1, <2>2
<1>4. MenuCountsStock' /\ AimedByChooser'
    BY <1>1, <1>2 DEF HealInv, MenuCountsStock, AimedByChooser
<1> QED
    BY <1>1, <1>2, <1>3, <1>4 DEF HealInv

LEMMA HealStep == HealInv /\ [HealNext]_<<listVars, healVars>> => HealInv'
<1> SUFFICES ASSUME HealInv, [HealNext]_<<listVars, healVars>> PROVE HealInv'
    OBVIOUS
<1>1. ListInv
    BY DEF HealInv
<1>2. CASE OpenSkillMenu
    <2>1. ListInv' /\ menu' = "skills" /\ UNCHANGED healVars
        BY <1>1, <1>2, OpenListStep DEF OpenSkillMenu, OpenMenu
    <2> QED
        BY <2>1, RestStays
<1>3. CASE OpenItemMenu
    BY <1>3, OpenItemStep
<1>4. CASE CloseAnyMenu
    BY <1>4, CloseAnyStep
<1>5. ASSUME NEW pad \in {"up", "down"}, Move(pad), UNCHANGED healVars
      PROVE  HealInv'
    BY <1>1, <1>5, MoveStep, RestStays DEF Move
<1>6. CASE OpenEquip /\ UNCHANGED healVars
    <2>1. ListInv' /\ menu' = "equip"
        BY <1>1, <1>6, OpenEquipStep DEF OpenEquip
    <2> QED
        BY <1>6, <2>1, RestStays
<1>7. ASSUME NEW pad \in {"up", "down"}, ScrollThroughEquipPartyList(pad), UNCHANGED healVars
      PROVE  HealInv'
    <2>1. ListInv' /\ menu' = menu
        BY <1>1, <1>7, EquipScrollStep DEF ScrollThroughEquipPartyList
    <2> QED
        BY <1>7, <2>1, RestStays
<1>8. ASSUME NEW s \in Skills, NEW pad \in {"up", "down", "none"}, ChooseSkill(s, pad)
      PROVE  HealInv'
    BY <1>8, ChooseSkillStep
<1>9. CASE UseSkillOnOne
    BY <1>9, OneHeals, HealsStep
<1>10. CASE UseSkillOnAll
    BY <1>10, AllHeal, LastAnswerIs, HealsStep
<1>11. CASE UseEscapeSkill
    BY <1>11, EscapeStep
<1>12. CASE LeaveSkill
    BY <1>12, LeaveStep
<1>13. CASE UseItem
    BY <1>13, UseItemStep
<1>14. CASE UseWildItem
    BY <1>14, WildItemStep
<1>15. ASSUME NEW m \in Patients, GetHurt(m)
       PROVE  HealInv'
    BY <1>15, GetHurtStep
<1>16. CASE UNCHANGED <<listVars, healVars>>
    <2>1. ListInv' /\ menu' = menu /\ UNCHANGED healVars
        BY <1>1, <1>16, ListStays DEF listVars
    <2> QED
        BY <2>1, RestStays
<1> QED
    BY <1>2, <1>3, <1>4, <1>5, <1>6, <1>7, <1>8, <1>9, <1>10, <1>11, <1>12, <1>13, <1>14,
       <1>15, <1>16 DEF HealNext

(* The lists, the purse and the bag keep their invariant through every action of
   the menus: kasumi.c's lists, healing skills and healing items. *)
THEOREM HealInvariant == HealSpec => []HealInv
<1>1. HealInit => HealInv
    BY HealInitial
<1> QED
    BY <1>1, HealStep, PTL DEF HealSpec

\* The types of the variables, from the invariant.
LEMMA HealTypesFit == HealInv => HealTypeOK
<1> SUFFICES ASSUME HealInv PROVE HealTypeOK
    OBVIOUS
<1>1. ListInv
    BY DEF HealInv
<1>2. save \in Saves /\ menu \in {NoMenu, "equip", "everyone"} \cup Lists
    BY <1>1 DEF ListInv, Windowed
<1>3. ScrollLimit \in 0..2
    BY <1>2, LimitIs
<1>4. scrollMax \in 0..2 /\ partyListOffset \in 0..2
    BY <1>1, <1>3 DEF ListInv
<1>5. rows \in Seq(1..10) /\ cursor \in 0..9
    <2>1. CASE menu \in Windowed
        <3>1. Window(partyListOffset, rows) /\ Len(rows) \in 1..7 /\ cursor \in Nat /\ cursor < Len(rows)
            BY <1>1, <2>1, RowsOfWindow
        <3> QED
            BY <3>1 DEF Window
    <2>2. CASE menu = "equip"
        <3>1. rows \in Seq(1..10)
            BY <1>1, <2>2 DEF ListInv, OneForEach
        <3>2. Len(rows) \in 1..10
            BY <1>1, <2>2 DEF ListInv, OneForEach
        <3>3. cursor \in 0..(Len(rows) - 1)
            BY <1>1, <2>2 DEF ListInv
        <3>4. PICK n : n = Len(rows)
            OBVIOUS
        <3>5. n \in 1..10 /\ cursor \in 0..(n - 1)
            BY <3>2, <3>3, <3>4
        <3>6. cursor \in 0..9
            BY <3>5
        <3> QED
            BY <3>1, <3>6
    <2>3. CASE menu = NoMenu
        <3>1. rows = <<>> /\ cursor = 0
            BY <1>1, <2>3 DEF ListInv
        <3> QED
            BY <3>1
    <2> QED
        BY <1>1, <2>1, <2>2, <2>3 DEF ListInv
<1>6. stock \in 0..255 /\ entry \in 0..255
    BY DEF HealInv
<1>7. garbled \in BOOLEAN /\ crashed \in BOOLEAN
    BY DEF HealInv
<1>8. partyListOffset \in 0..9 /\ scrollMax \in 0..9
    BY <1>4
<1>9. /\ hp \in [Patients -> Nat] /\ sp \in [Patients -> Nat] /\ freeHP \in Nat /\ freeSP \in Nat
      /\ skill \in Skills \cup {NoSkill}
      /\ skillMenuPartyMemberSource \in 0..10 /\ chooser \in 0..10 /\ item \in Items \cup {NoItem}
    BY DEF HealInv
<1> QED
    BY <1>2, <1>5, <1>6, <1>7, <1>8, <1>9 DEF HealTypeOK

(* Every member can be reached, for every set of members a save can have: the
   rows are a window over the members, the cursor is on one of them, and a
   press goes to the neighbour (kasumi.c's three scroll hooks). *)
THEOREM MembersInReachCorrect == HealSpec => MembersInReach
<1>1. HealSpec => []HealInv
    BY HealInvariant
<1>2. HealInv => HealTypeOK /\ RowsAreWindow
    BY HealTypesFit, ListIsInReach DEF HealInv
<1>3. HealInv /\ [HealNext]_<<listVars, healVars>>
        => [\A pad \in {"up", "down"} :
                Move(pad) /\ Aligned =>
                    /\ Rank(Selected') = (Rank(Selected) + Step(pad)) % Cardinality(partyMembers)
                    /\ Aligned']_<<listVars, healVars>>
    BY MoveIsByOne DEF HealInv
<1> QED
    BY <1>1, <1>2, <1>3, PTL DEF HealSpec, MembersInReach, MovesToNeighbour

\* What is charged, to whom, when the last answer was that of a member in need.
LEMMA BillIsPaid ==
    ASSUME NEW points \in [Patients -> Nat], NEW free \in Nat, NEW cost \in Nat
    PROVE  Paid(points, free, cost, chooser, 0) =
               [m \in Patients |-> points[m] - Bill(m, free, cost)]
<1>1. CASE cost > 0 /\ free < 1
    <2>1. Paid(points, free, cost, chooser, 0) = [points EXCEPT ![chooser] = @ + 0 - cost]
        BY <1>1 DEF Paid
    <2>2. free = 0
        BY <1>1
    <2>3. \A m \in Patients :
              points[m] - Bill(m, free, cost) = IF m = chooser THEN points[m] + 0 - cost ELSE points[m]
        BY <2>2 DEF Bill
    <2> QED
        BY <2>1, <2>3
<1>2. CASE ~(cost > 0 /\ free < 1)
    <2>1. Paid(points, free, cost, chooser, 0) = points
        BY <1>2 DEF Paid
    <2>2. \A m \in Patients : points[m] - Bill(m, free, cost) = points[m]
        BY <1>2 DEF Bill
    <2> QED
        BY <2>1, <2>2
<1> QED
    BY <1>1, <1>2

LEMMA HealsInFull ==
    ASSUME HealInv, HealsWith(Aimed, 0)
    PROVE  PaidInFull
<1>1. /\ menu \in Aiming /\ \A m \in Aimed : Refusal(m) = 0
      /\ SkillPays(Healed(Aimed), skillMenuPartyMemberSource, skill, 0)
    BY DEF HealsWith
<1>2. chooser = skillMenuPartyMemberSource /\ skill \in Skills
    BY <1>1 DEF HealInv, AimedByChooser
<1>3. skill.hp \in Nat /\ skill.sp \in Nat
    BY <1>2, SkillsAre
<1>4. hp \in [Patients -> Nat] /\ sp \in [Patients -> Nat] /\ freeHP \in Nat /\ freeSP \in Nat
    BY DEF HealInv
<1>5. Healed(Aimed) \in [Patients -> Nat]
    BY <1>1, <1>4, HealedIs
<1>6. hp' = [m \in Patients |-> Healed(Aimed)[m] - Bill(m, freeHP, skill.hp)]
    BY <1>1, <1>2, <1>3, <1>4, <1>5, BillIsPaid DEF SkillPays
<1>7. sp' = [m \in Patients |-> sp[m] - Bill(m, freeSP, skill.sp)]
    BY <1>1, <1>2, <1>3, <1>4, BillIsPaid DEF SkillPays
<1> QED
    BY <1>1, <1>6, <1>7 DEF PaidInFull, SkillPays

\* Only the use of a skill touches the purse while one is aimed.
LEMMA OnlyUsePays ==
    ASSUME HealNext, menu \in Aiming, purse' # purse
    PROVE  UseSkillOnOne \/ UseSkillOnAll \/ UseEscapeSkill
<1>1. menu # NoMenu /\ menu # "skills" /\ menu # "items" /\ menu # "equip"
    BY DEF Aiming, NoMenu
<1>2. ~OpenSkillMenu /\ ~OpenItemMenu /\ ~OpenEquip
    BY <1>1 DEF OpenSkillMenu, OpenItemMenu, OpenMenu, OpenEquip
<1>3. ~UseItem /\ ~UseWildItem /\ \A m \in Patients : ~GetHurt(m)
    BY <1>1 DEF UseItem, UseWildItem, GetHurt
<1>4. \A s, pad : ~ChooseSkill(s, pad)
    BY <1>1 DEF ChooseSkill
<1>5. ~UNCHANGED healVars
    BY DEF healVars, purse
<1>6. ~CloseAnyMenu /\ ~LeaveSkill
    BY DEF CloseAnyMenu, LeaveSkill
<1> QED
    BY <1>2, <1>3, <1>4, <1>5, <1>6 DEF HealNext

LEMMA CasterIsCharged ==
    ASSUME HealInv, HealNext, menu \in {"targets", "everyone"}, skill.kind # "escape",
           skill.kind = "all" => LastAnswer = 0, purse' # purse
    PROVE  PaidInFull
<1>1. UseSkillOnOne \/ UseSkillOnAll \/ UseEscapeSkill
    BY OnlyUsePays DEF Aiming
<1>2. CASE UseSkillOnOne
    <2>1. HealsWith({Selected}, 0) /\ skill.kind = "one"
        BY <1>2, OneHeals DEF HealInv, AimedByChooser, Aiming
    <2>2. Aimed = {Selected}
        BY <2>1 DEF Aimed
    <2> QED
        BY <2>1, <2>2, HealsInFull
<1>3. CASE UseSkillOnAll
    <2>1. HealsWith(Healable, 0) /\ skill.kind # "one"
        BY <1>3, AllHeal
    <2>2. Aimed = Healable
        BY <2>1 DEF Aimed
    <2> QED
        BY <2>1, <2>2, HealsInFull
<1>4. ~UseEscapeSkill
    BY DEF UseEscapeSkill
<1> QED
    BY <1>1, <1>2, <1>3, <1>4

\* In the item menu only the use of an item changes the stock or heals.
LEMMA OnlyItemsHeal ==
    ASSUME HealNext, menu = "items", menu' = menu, item \in {"one", "all"},
           hp' # hp \/ stock' # stock
    PROVE  UseItem
<1>1. menu # NoMenu /\ menu # "skills" /\ menu # "equip" /\ menu \notin Aiming
    BY DEF Aiming, NoMenu
<1>2. ~OpenSkillMenu /\ ~OpenItemMenu /\ ~OpenEquip /\ ~CloseAnyMenu
    BY <1>1 DEF OpenSkillMenu, OpenItemMenu, OpenMenu, OpenEquip, CloseAnyMenu, CloseMenu
<1>3. ~UseWildItem /\ \A m \in Patients : ~GetHurt(m)
    BY <1>1 DEF UseWildItem, GetHurt
<1>4. \A s, pad : ~ChooseSkill(s, pad)
    BY <1>1 DEF ChooseSkill
<1>5. ~UNCHANGED healVars
    BY DEF healVars
<1>6. ~UseSkillOnOne /\ ~UseSkillOnAll /\ ~UseEscapeSkill /\ ~LeaveSkill
    BY <1>1 DEF UseSkillOnOne, UseSkillOnAll, UseEscapeSkill, LeaveSkill, Aiming
<1> QED
    BY <1>2, <1>3, <1>4, <1>5, <1>6 DEF HealNext

LEMMA ItemIsUsedUp ==
    ASSUME HealInv, UseItem, menu' = menu, item \in {"one", "all"}
    PROVE  stock' # stock /\ \E m \in Patients : hp'[m] > hp[m]
<1>1. menu = "items" /\ menu # NoMenu /\ stock' = Taken /\ entry > 0
    BY DEF UseItem, NoMenu
<1>2. stock \in Nat /\ stock < 256 /\ stock > 0
    BY <1>1 DEF HealInv, MenuCountsStock
<1>3. stock' # stock
    <2>1. PICK rest \in Nat : rest = stock - 1 /\ rest < 256
        BY <1>2
    <2>2. rest % 256 = rest
        BY <2>1
    <2> QED
        BY <1>1, <1>2, <2>1, <2>2 DEF Taken
<1>4. hp \in [Patients -> Nat]
    BY DEF HealInv
<1>5. ~CloseMenu
    BY <1>1 DEF CloseMenu
<1>6. \/ Refusal(Selected) = 0 /\ hp' = Healed({Selected})
      \/ Healable # {} /\ hp' = Healed(Healable)
    BY <1>5 DEF UseItem, Healing1, HealingAll
<1>7. CASE Refusal(Selected) = 0 /\ hp' = Healed({Selected})
    <2>1. Selected \in Patients /\ hp[Selected] < Healed({Selected})[Selected]
        BY <1>4, <1>7, HealedIs
    <2>2. hp'[Selected] \in Nat /\ hp[Selected] \in Nat
        BY <1>4, <1>7, <2>1, HealedIs
    <2> QED
        BY <1>3, <1>7, <2>1, <2>2
<1>8. CASE Healable # {} /\ hp' = Healed(Healable)
    <2>1. PICK m : m \in Healable
        BY <1>8
    <2>2. \A k \in Healable : Refusal(k) = 0
        BY DEF Healable
    <2>3. m \in Patients /\ hp[m] < Healed(Healable)[m]
        BY <1>4, <2>1, <2>2, HealedIs
    <2>4. hp'[m] \in Nat /\ hp[m] \in Nat
        BY <1>4, <1>8, <2>2, <2>3, HealedIs
    <2> QED
        BY <1>3, <1>8, <2>3, <2>4
<1> QED
    BY <1>6, <1>7, <1>8

LEMMA ItemsPay ==
    ASSUME HealInv, HealNext, menu = "items", menu' = menu, item \in {"one", "all"}
    PROVE  stock' # stock <=> \E m \in Patients : hp'[m] > hp[m]
<1>1. CASE hp' # hp \/ stock' # stock
    BY <1>1, OnlyItemsHeal, ItemIsUsedUp
<1>2. CASE hp' = hp /\ stock' = stock
    <2>1. \A m \in Patients : ~(hp[m] > hp[m])
        BY DEF HealInv
    <2> QED
        BY <1>2, <2>1
<1> QED
    BY <1>1, <1>2

(* Whoever is healed, it is paid for, once and by the right one: by the member
   who chose the skill, wherever the cursor is when it is used, or with one of
   the items, of which the menu shows as many as there are. *)
THEOREM HealingIsPaidCorrect == HealSpec => HealingIsPaid
<1>1. HealSpec => []HealInv
    BY HealInvariant
<1>2. HealInv => MenuCountsStock
    BY DEF HealInv
<1>3. HealInv /\ [HealNext]_<<listVars, healVars>>
        => [/\ menu \in {"targets", "everyone"}
            /\ skill.kind # "escape"
            /\ skill.kind = "all" => LastAnswer = 0
            /\ <<hp, sp, freeHP, freeSP>>' # <<hp, sp, freeHP, freeSP>>
            => PaidInFull]_<<listVars, healVars>>
    BY CasterIsCharged DEF purse
<1>4. HealInv /\ [HealNext]_<<listVars, healVars>>
        => [menu = "items" /\ menu' = menu /\ item \in {"one", "all"} =>
               (stock' # stock <=> \E m \in Patients : hp'[m] > hp[m])]_<<listVars, healVars>>
    BY ItemsPay
<1> QED
    BY <1>1, <1>2, <1>3, <1>4, PTL DEF HealSpec, HealingIsPaid, CasterPays, ItemPaysForHealing
===============================================================================
